-------------------------- MODULE FileHandlesProofs --------------------------
(***************************************************************************)
(* Proofs about FileHandles for any number of descriptors, objects and      *)
(* callers, any file size and any number of failing system calls.           *)
(*                                                                          *)
(* The inductive invariant Inv says who owns which descriptor (OwnersOK),   *)
(* that an object lent to a caller keeps its descriptor (Lending), what a   *)
(* call has got so far whatever others do (CallOK) and what it has made of  *)
(* the file while nobody else touched it (Exact).  The first section says   *)
(* what each system call does to the kernel; the second what opening,       *)
(* closing and moving do to ownership; the rest goes through the actions.   *)
(* The last part is about Chrono and FileMetadata.                          *)
(***************************************************************************)
EXTENDS FileHandles, FileMetadata, FiniteSetTheorems, SequenceTheorems, WellFoundedInduction, TLAPS

LEMMA Constants == None \notin Fds /\ SizeMax \in Nat /\ SizeMax >= 1 /\ MaxTrouble \in Nat
  BY FdsAssumption, SizeMaxAssumption DEF None

\* The sequences of at most n members of S.
LEMMA BoundedSeqs ==
  ASSUME NEW S, NEW n \in Nat
  PROVE  BoundedSeq(S, n) = {s \in Seq(S) : Len(s) <= n}
<1>1. ASSUME NEW s \in BoundedSeq(S, n) PROVE s \in Seq(S) /\ Len(s) <= n
  <2>1. PICK m \in 0 .. n : s \in [1 .. m -> S]
    BY <1>1 DEF BoundedSeq, SeqOf
  <2>2. s \in Seq(S)
    BY <2>1, SeqDef
  <2>3. DOMAIN s = 1 .. Len(s) /\ Len(s) \in Nat
    BY <2>2, LenProperties
  <2>4. DOMAIN s = 1 .. m
    BY <2>1
  <2> QED
    BY <2>2, <2>3, <2>4
<1>2. ASSUME NEW s \in Seq(S), Len(s) <= n PROVE s \in BoundedSeq(S, n)
  <2>1. Len(s) \in 0 .. n /\ s \in [1 .. Len(s) -> S]
    BY <1>2, LenProperties
  <2> QED
    BY <2>1 DEF BoundedSeq, SeqOf
<1> QED
  BY <1>1, <1>2

\* The least of some numbers is one of them.
LEMMA LeastOfMember ==
  ASSUME NEW S \in SUBSET Nat, S # {}
  PROVE  LeastOf(S) \in S
<1> DEFINE R == {p \in Nat \X Nat : p[1] < p[2]}
<1>1. IsWellFoundedOn(R, Nat)
  BY NatLessThanWellFounded DEF OpToRel
<1> HIDE DEF R
<1>2. PICK x \in S : \A y \in S : <<y, x>> \notin R
  BY <1>1, WFMin
<1>3. ASSUME NEW y \in S PROVE x <= y
  <2>1. <<y, x>> \notin R /\ x \in Nat /\ y \in Nat
    BY <1>2
  <2> QED
    BY <2>1 DEF R
<1> QED
  BY <1>3 DEF LeastOf

\* While a descriptor is free there is an open file description that is, too.
LEMMA FreeDescFree ==
  ASSUME NEW kk, kk.fd \in [Fds -> Fds \cup {None}], FreeFds(kk) # {}
  PROVE  FreeDesc(kk) \in Fds /\ \A f \in Fds : kk.fd[f] # FreeDesc(kk)
<1> DEFINE D == Fds \ {kk.fd[f] : f \in Fds}
<1>1. D # {}
  <2> SUFFICES ASSUME D = {} PROVE FALSE
    OBVIOUS
  <2>1. PICK g \in Fds : kk.fd[g] = None
    BY DEF FreeFds
  <2> DEFINE T == Fds \ {g}
  <2>2. IsFiniteSet(T) /\ Cardinality(T) = Cardinality(Fds) - 1 /\ Cardinality(Fds) \in Nat
    BY <2>1, FdsAssumption, FS_RemoveElement, FS_CardinalityType
  <2> DEFINE h == [d \in Fds |-> CHOOSE f \in Fds : kk.fd[f] = d]
  <2>3. \A d \in Fds : h[d] \in T /\ kk.fd[h[d]] = d
    <3>1. \A d \in Fds : \E f \in Fds : kk.fd[f] = d
      OBVIOUS
    <3>2. \A d \in Fds : h[d] \in Fds /\ kk.fd[h[d]] = d
      BY <3>1
    <3> QED
      BY <2>1, <3>2, Constants
  <2>4. h \in [Fds -> T]
    BY <2>3
  <2>5. \E x, y \in Fds : x # y /\ h[x] = h[y]
    <3> HIDE DEF h, T
    <3>1. Cardinality(T) < Cardinality(Fds)
      BY <2>2
    <3>2. IsFiniteSet(Fds) /\ IsFiniteSet(T)
      BY <2>2, FdsAssumption
    <3> QED
      BY <2>4, <3>1, <3>2, FS_PigeonHole
  <2> QED
    BY <2>3, <2>5
<1>2. FreeDesc(kk) \in D
  BY <1>1, LeastOfMember, FdsAssumption DEF FreeDesc
<1> QED
  BY <1>2

LEMMA LeastFree ==
  ASSUME NEW kk, FreeFds(kk) # {}
  PROVE  LeastOf(FreeFds(kk)) \in Fds /\ kk.fd[LeastOf(FreeFds(kk))] = None
  BY LeastOfMember, FdsAssumption DEF FreeFds

-----------------------------------------------------------------------------
(* What the system calls do to the kernel.                                  *)

\* nn is a kernel like kk but for failed system calls still to come.
SameKernel(kk, nn) ==
  /\ nn \in Kernel
  /\ nn.fd = kk.fd /\ nn.desc = kk.desc /\ nn.exists = kk.exists /\ nn.data = kk.data

LEMMA KernelFields ==
  ASSUME NEW kk \in Kernel
  PROVE  /\ kk.fd \in [Fds -> Fds \cup {None}]
         /\ kk.desc \in [Fds -> [pos : 0 .. SizeMax, access : SUBSET Access]]
         /\ kk.exists \in BOOLEAN
         /\ kk.data \in Seq({Hole, 1}) /\ Len(kk.data) \in 0 .. SizeMax
         /\ kk.trouble \in 0 .. MaxTrouble
         /\ SameKernel(kk, kk)
<1>1. kk.data \in BoundedSeq({Hole, 1}, SizeMax)
  BY DEF Kernel
<1>2. kk.data \in Seq({Hole, 1}) /\ Len(kk.data) <= SizeMax
  BY <1>1, BoundedSeqs, Constants
<1>3. Len(kk.data) \in Nat
  BY <1>2, LenProperties
<1> QED
  BY <1>2, <1>3, Constants DEF Kernel, SameKernel

\* A kernel with another table, file or position is a kernel.
LEMMA KernelExcept ==
  ASSUME NEW kk \in Kernel
  PROVE  /\ \A t \in [Fds -> Fds \cup {None}] : [kk EXCEPT !.fd = t] \in Kernel
         /\ \A d \in [Fds -> [pos : 0 .. SizeMax, access : SUBSET Access]] :
              [kk EXCEPT !.desc = d] \in Kernel
         /\ \A d \in Seq({Hole, 1}) : Len(d) <= SizeMax => [kk EXCEPT !.data = d] \in Kernel
<1>1. \A d \in Seq({Hole, 1}) : Len(d) <= SizeMax => d \in BoundedSeq({Hole, 1}, SizeMax)
  BY BoundedSeqs, Constants
<1> QED
  BY <1>1 DEF Kernel

LEMMA FailedCall ==
  ASSUME NEW kk \in Kernel, NEW r \in set_error(kk) \cup interrupted(kk)
  PROVE  /\ SameKernel(kk, r.k) /\ r.ret = 0
         /\ r \in set_error(kk) => r.ec = "EIO"
         /\ r \in interrupted(kk) => r.ec = "again"
<1>1. ASSUME NEW x \in set_error(kk)
      PROVE  /\ SameKernel(kk, x.k) /\ x.ret = 0 /\ x.ec = "EIO"
             /\ x = [k |-> x.k, ec |-> x.ec, ret |-> x.ret]
  <2>1. kk.trouble \in 1 .. MaxTrouble
    BY Constants DEF Kernel, set_error
  <2>2. x = Out([kk EXCEPT !.trouble = @ - 1], "EIO", 0)
    BY <2>1 DEF set_error
  <2>3. kk.trouble - 1 \in 0 .. MaxTrouble
    BY <2>1, Constants
  <2>4. SameKernel(kk, [kk EXCEPT !.trouble = @ - 1])
    BY <2>3 DEF Kernel, SameKernel
  <2> QED
    BY <2>2, <2>4 DEF Out
<1>2. ASSUME NEW x \in interrupted(kk)
      PROVE  SameKernel(kk, x.k) /\ x.ret = 0 /\ x.ec = "again"
  <2>1. PICK y \in set_error(kk) : x = [y EXCEPT !.ec = "again"]
    BY DEF interrupted
  <2> QED
    BY <1>1, <2>1
<1> QED
  BY <1>1, <1>2

\* The last descriptor of a description takes the description with it.
LEMMA UnlinkedKernel ==
  ASSUME NEW kk \in Kernel, NEW fd \in Fds, kk.fd[fd] # None
  PROVE  /\ Unlinked(kk, fd) \in Kernel
         /\ Unlinked(kk, fd).fd = [kk.fd EXCEPT ![fd] = None]
         /\ Unlinked(kk, fd).exists = kk.exists /\ Unlinked(kk, fd).data = kk.data
         /\ \A f \in Fds \ {fd} : kk.fd[f] # None =>
              Unlinked(kk, fd).desc[kk.fd[f]] = kk.desc[kk.fd[f]]
<1> DEFINE t == [kk.fd EXCEPT ![fd] = None]
           n == [kk EXCEPT !.fd = t]
           d == kk.fd[fd]
           gone == [kk.desc EXCEPT ![d] = Booted.desc[fd]]
<1>1. t \in [Fds -> Fds \cup {None}] /\ d \in Fds
  BY KernelFields
<1>2. n \in Kernel /\ n.fd = t /\ n.desc = kk.desc /\ n.exists = kk.exists /\ n.data = kk.data
  BY <1>1, KernelExcept DEF Kernel
<1>3. Booted.desc[fd] = [pos |-> 0, access |-> {}]
  BY DEF Booted
<1>4. gone \in [Fds -> [pos : 0 .. SizeMax, access : SUBSET Access]]
  BY <1>1, <1>3, KernelFields, Constants
<1>5. Unlinked(kk, fd) = IF \E f \in Fds : n.fd[f] = d THEN n ELSE [n EXCEPT !.desc = gone]
  BY <1>2 DEF Unlinked
<1>6. [n EXCEPT !.desc = gone] \in Kernel
  BY <1>2, <1>4, KernelExcept
<1>7. CASE \E f \in Fds : n.fd[f] = d
  BY <1>2, <1>5, <1>7
<1>8. CASE ~\E f \in Fds : n.fd[f] = d
  <2> DEFINE m == [n EXCEPT !.desc = gone]
  <2>1. Unlinked(kk, fd) = m
    BY <1>5, <1>8
  <2>2. m.fd = t /\ m.desc = gone /\ m.exists = kk.exists /\ m.data = kk.data
    BY <1>2 DEF Kernel
  <2>3. \A f \in Fds \ {fd} : kk.fd[f] # d
    BY <1>2, <1>8, KernelFields
  <2>4. \A f \in Fds \ {fd} : kk.fd[f] # None => gone[kk.fd[f]] = kk.desc[kk.fd[f]]
    BY <2>3, KernelFields
  <2> HIDE DEF m, gone
  <2> QED
    BY <1>6, <2>1, <2>2, <2>4 DEF m
<1> QED
  BY <1>7, <1>8

LEMMA CloseKernel ==
  ASSUME NEW kk \in Kernel, NEW fd \in Fds, kk.fd[fd] # None, NEW r \in close(kk, fd)
  PROVE  SameKernel(Unlinked(kk, fd), r.k) /\ r.ec \in {"ok", "EIO"}
<1>1. Usable(kk, fd, {})
  BY DEF Usable
<1>2. r \in {Out(Unlinked(kk, fd), "ok", 0)} \cup set_error(Unlinked(kk, fd))
  BY <1>1 DEF close
<1>3. Unlinked(kk, fd) \in Kernel
  BY UnlinkedKernel
<1>4. CASE r \in set_error(Unlinked(kk, fd))
  BY <1>3, <1>4, FailedCall
<1>5. CASE r = Out(Unlinked(kk, fd), "ok", 0)
  BY <1>3, <1>5, KernelFields DEF Out
<1> QED
  BY <1>2, <1>4, <1>5

\* What ::open makes of the kernel when it succeeds.
OpenKernel(kk, p, n) ==
  LET fd == LeastOf(FreeFds(kk)) d == FreeDesc(kk) IN
  /\ n \in Kernel
  /\ n.fd = [kk.fd EXCEPT ![fd] = d]
  /\ n.desc = [kk.desc EXCEPT ![d] = [pos |-> 0, access |-> p.access]]
  /\ n.exists
  /\ n.data \in {<<>>, kk.data}
  /\ "O_TRUNC" \in p.native /\ "access_write" \in p.access => n.data = <<>>

LEMMA OpenedKernel ==
  ASSUME NEW kk \in Kernel, FreeFds(kk) # {}, NEW p, p.access \in SUBSET Access,
         NEW n \in Opened(kk, p)
  PROVE  OpenKernel(kk, p, n)
<1> DEFINE fd == LeastOf(FreeFds(kk))
           d == FreeDesc(kk)
           t == [kk.fd EXCEPT ![fd] = d]
           e == [kk.desc EXCEPT ![d] = [pos |-> 0, access |-> p.access]]
<1>1. fd \in Fds /\ d \in Fds
  BY LeastFree, FreeDescFree, KernelFields
<1>2. PICK trunc \in BOOLEAN :
        /\ "access_write" \in p.access => trunc
        /\ n = [kk EXCEPT !.fd = t, !.desc = e, !.exists = TRUE,
                          !.data = IF "O_TRUNC" \in p.native /\ trunc THEN <<>> ELSE @]
  BY DEF Opened
<1>3. t \in [Fds -> Fds \cup {None}]
  BY <1>1, KernelFields
<1>4. e \in [Fds -> [pos : 0 .. SizeMax, access : SUBSET Access]]
  BY <1>1, KernelFields, Constants
<1> DEFINE x == IF "O_TRUNC" \in p.native /\ trunc THEN <<>> ELSE kk.data
<1>5. x \in BoundedSeq({Hole, 1}, SizeMax)
  <2>1. <<>> \in Seq({Hole, 1}) /\ Len(<<>>) <= SizeMax
    BY Constants
  <2>2. <<>> \in BoundedSeq({Hole, 1}, SizeMax)
    BY <2>1, BoundedSeqs, Constants
  <2> QED
    BY <2>2 DEF Kernel
<1>6. x \in {<<>>, kk.data} /\ ("O_TRUNC" \in p.native /\ "access_write" \in p.access => x = <<>>)
  BY <1>2
<1>7. n = [kk EXCEPT !.fd = t, !.desc = e, !.exists = TRUE, !.data = x]
  BY <1>2
<1> HIDE DEF fd, d, t, e, x
<1>8. n \in Kernel /\ n.fd = t /\ n.desc = e /\ n.exists = TRUE /\ n.data = x
  BY <1>3, <1>4, <1>5, <1>7 DEF Kernel
<1> QED
  BY <1>6, <1>8 DEF OpenKernel, fd, d, t, e

\* A system call has made a new descriptor.
Creates(kk, r) ==
  /\ r.k \in Kernel
  /\ r.ret \in Fds /\ kk.fd[r.ret] = None
  /\ \E d \in Fds : r.k.fd = [kk.fd EXCEPT ![r.ret] = d]

\* asioext::open succeeds, or leaves no descriptor behind: not when it fails
\* half-way, after ::open, either.
LEMMA OpenOutcome ==
  ASSUME NEW kk \in Kernel, NEW flags, NEW attrs \in BOOLEAN,
         NEW r \in open(kk, open_args(flags, attrs))
  PROVE  \/ /\ r.ec = "ok" /\ Creates(kk, r)
            /\ r.ret = LeastOf(FreeFds(kk)) /\ FreeFds(kk) # {}
            /\ OpenKernel(kk, parse_open_flags(flags), r.k)
         \/ r.ec \notin {"ok", "again"} /\ r.ret = None /\ r.k \in Kernel /\ r.k.fd = kk.fd
         \/ r.ec = "again" /\ SameKernel(kk, r.k)
<1> DEFINE args == open_args(flags, attrs)
           p == parse_open_flags(flags)
           fd == LeastOf(FreeFds(kk))
           R1 == {Out(n, "ok", fd) : n \in Opened(kk, p)}
           R2 == {Out(Unlinked(q.k, fd), q.ec, None) :
                     q \in UNION {set_error(n) : n \in Opened(kk, p)}}
<1>1. p.access \in SUBSET Access
  BY DEF parse_open_flags, Access
<1>2. args.flags = p /\ args.attrs = attrs
  BY DEF open_args
<1> HIDE DEF args, p
<1>3. \/ \E ec \in {"EINVAL", "EEXIST", "ENOENT", "EMFILE"} : r = Out(kk, ec, None)
      \/ FreeFds(kk) # {} /\ (r \in R1 \/ r \in interrupted(kk) \/ r \in R2)
  BY <1>2 DEF open, args
<1>4. CASE \E ec \in {"EINVAL", "EEXIST", "ENOENT", "EMFILE"} : r = Out(kk, ec, None)
  BY <1>4 DEF Out
<1>5. CASE r \in interrupted(kk)
  BY <1>5, FailedCall
<1>6. ASSUME FreeFds(kk) # {}
      PROVE  fd \in Fds /\ kk.fd[fd] = None /\ FreeDesc(kk) \in Fds
  BY <1>6, LeastFree, FreeDescFree, KernelFields
<1>7. CASE FreeFds(kk) # {} /\ r \in R1
  <2>1. PICK n \in Opened(kk, p) : r = Out(n, "ok", fd)
    BY <1>7
  <2>2. OpenKernel(kk, p, n)
    BY <1>1, <1>7, OpenedKernel
  <2>3. r.k = n /\ r.ec = "ok" /\ r.ret = fd
    BY <2>1 DEF Out
  <2> QED
    BY <1>6, <1>7, <2>2, <2>3 DEF OpenKernel, Creates, p
<1>8. CASE FreeFds(kk) # {} /\ r \in R2
  <2>0. PICK n \in Opened(kk, p) : \E q \in set_error(n) : r = Out(Unlinked(q.k, fd), q.ec, None)
    BY <1>8
  <2>1. PICK q \in set_error(n) : r = Out(Unlinked(q.k, fd), q.ec, None)
    BY <2>0
  <2>2. n \in Kernel /\ n.fd = [kk.fd EXCEPT ![fd] = FreeDesc(kk)]
    BY <1>1, <1>8, OpenedKernel DEF OpenKernel
  <2>3. q.ec = "EIO" /\ q.k \in Kernel /\ q.k.fd = n.fd
    BY <2>2, FailedCall DEF SameKernel
  <2>4. fd \in Fds /\ q.k.fd[fd] # None
    BY <1>6, <1>8, <2>2, <2>3, KernelFields, Constants
  <2>5. Unlinked(q.k, fd) \in Kernel /\ Unlinked(q.k, fd).fd = [q.k.fd EXCEPT ![fd] = None]
    BY <2>3, <2>4, UnlinkedKernel
  <2>6. [q.k.fd EXCEPT ![fd] = None] = kk.fd
    BY <1>6, <1>8, <2>2, <2>3, KernelFields
  <2> QED
    BY <2>1, <2>3, <2>5, <2>6 DEF Out
<1> QED
  BY <1>3, <1>4, <1>5, <1>7, <1>8

LEMMA DuplicateOutcome ==
  ASSUME NEW kk \in Kernel, NEW fd, NEW r \in duplicate(kk, fd)
  PROVE  \/ r.ec = "ok" /\ Creates(kk, r)
         \/ r.ec \notin {"ok", "again"} /\ r.ret = None /\ r.k = kk
<1>1. CASE Usable(kk, fd, {}) /\ FreeFds(kk) # {}
  <2> DEFINE ret == LeastOf(FreeFds(kk))
  <2>1. ret \in Fds /\ kk.fd[ret] = None /\ fd \in Fds /\ kk.fd[fd] \in Fds
    BY <1>1, LeastFree, KernelFields DEF Usable
  <2>2. r = Out([kk EXCEPT !.fd[ret] = kk.fd[fd]], "ok", ret)
    BY <1>1 DEF duplicate
  <2> DEFINE t == [kk.fd EXCEPT ![ret] = kk.fd[fd]]
  <2>3. t \in [Fds -> Fds \cup {None}]
    BY <2>1, KernelFields
  <2>4. [kk EXCEPT !.fd = t] \in Kernel /\ [kk EXCEPT !.fd = t].fd = t
    BY <2>3, KernelExcept DEF Kernel
  <2>5. r.k = [kk EXCEPT !.fd = t] /\ r.ret = ret /\ r.ec = "ok"
    BY <2>2 DEF Out
  <2> HIDE DEF ret
  <2> QED
    BY <2>1, <2>4, <2>5 DEF Creates
<1>2. CASE ~(Usable(kk, fd, {}) /\ FreeFds(kk) # {})
  BY <1>2 DEF duplicate, Out
<1> QED
  BY <1>1, <1>2

\* A system call that changes no descriptor.
Keeps(kk, r) == r.k \in Kernel /\ r.k.fd = kk.fd

\* The position of fd has moved to p; nothing else has changed.
MovedTo(kk, fd, p, nn) ==
  /\ nn \in Kernel
  /\ nn.fd = kk.fd /\ nn.exists = kk.exists
  /\ nn.desc = [kk.desc EXCEPT ![kk.fd[fd]].pos = p]

LEMMA MovedKernel ==
  ASSUME NEW kk \in Kernel, NEW fd \in Fds, kk.fd[fd] # None, NEW n \in Nat,
         kk.desc[kk.fd[fd]].pos + n <= SizeMax
  PROVE  /\ MovedTo(kk, fd, kk.desc[kk.fd[fd]].pos + n, Moved(kk, fd, n))
         /\ Moved(kk, fd, n).data = kk.data
<1> DEFINE d == kk.fd[fd]
           p == kk.desc[d].pos + n
           e == [kk.desc EXCEPT ![d].pos = p]
<1>1. d \in Fds /\ kk.desc[d] \in [pos : 0 .. SizeMax, access : SUBSET Access]
  BY KernelFields
<1>2. p \in 0 .. SizeMax
  BY <1>1, Constants
<1> HIDE DEF p
<1>3. [kk.desc[d] EXCEPT !.pos = p] \in [pos : 0 .. SizeMax, access : SUBSET Access]
  BY <1>1, <1>2
<1>4. e \in [Fds -> [pos : 0 .. SizeMax, access : SUBSET Access]]
  BY <1>1, <1>3, KernelFields
<1>5. Moved(kk, fd, n) = [kk EXCEPT !.desc = e]
  BY DEF Moved, p
<1> HIDE DEF e, d
<1>6. /\ [kk EXCEPT !.desc = e] \in Kernel /\ [kk EXCEPT !.desc = e].desc = e
      /\ [kk EXCEPT !.desc = e].fd = kk.fd /\ [kk EXCEPT !.desc = e].exists = kk.exists
      /\ [kk EXCEPT !.desc = e].data = kk.data
  BY <1>4, KernelExcept DEF Kernel
<1> QED
  BY <1>5, <1>6 DEF MovedTo, e, p, d

LEMMA SizeOutcome ==
  ASSUME NEW kk \in Kernel, NEW fd, NEW r \in size(kk, fd)
  PROVE  /\ SameKernel(kk, r.k) /\ r.ec \in {"ok", "EIO", "EBADF"}
         /\ r.ec = "ok" => r.ret = Len(kk.data)
  BY FailedCall, KernelFields DEF size, EBADF, Out

LEMMA SeekOutcome ==
  ASSUME NEW kk \in Kernel, NEW fd, NEW origin \in {"from_begin", "from_current", "from_end"},
         NEW offset \in Int, NEW r \in seek(kk, fd, origin, offset)
  PROVE  Keeps(kk, r)
<1>1. CASE r \in EBADF(kk) \/ r = Out(kk, "EINVAL", 0)
  BY <1>1 DEF EBADF, Out, Keeps
<1>2. CASE /\ Usable(kk, fd, {})
           /\ \E p \in 0 .. SizeMax : r = Out([kk EXCEPT !.desc[kk.fd[fd]].pos = p], "ok", p)
  <2>1. fd \in Fds /\ kk.fd[fd] \in Fds
    BY <1>2, KernelFields DEF Usable
  <2>2. PICK p \in 0 .. SizeMax : r = Out([kk EXCEPT !.desc[kk.fd[fd]].pos = p], "ok", p)
    BY <1>2
  <2> DEFINE e == [kk.desc EXCEPT ![kk.fd[fd]].pos = p]
  <2>0. kk.desc[kk.fd[fd]] \in [pos : 0 .. SizeMax, access : SUBSET Access]
    BY <2>1, KernelFields
  <2>3. [kk.desc[kk.fd[fd]] EXCEPT !.pos = p] \in [pos : 0 .. SizeMax, access : SUBSET Access]
    BY <2>0
  <2>4. e \in [Fds -> [pos : 0 .. SizeMax, access : SUBSET Access]]
    BY <2>1, <2>3, KernelFields
  <2>5. r.k = [kk EXCEPT !.desc = e]
    BY <2>2 DEF Out
  <2> HIDE DEF e
  <2>6. r.k \in Kernel
    BY <2>4, <2>5, KernelExcept
  <2>7. r.k.fd = kk.fd
    BY <2>5 DEF Kernel
  <2> QED
    BY <2>6, <2>7 DEF Keeps
<1> QED
  BY <1>1, <1>2 DEF seek

\* Sequences of bytes made one by one.
LEMMA BytesOf ==
  ASSUME NEW n \in Nat, NEW s \in [1 .. n -> {Hole, 1}]
  PROVE  s \in Seq({Hole, 1}) /\ Len(s) = n
<1>1. s \in Seq({Hole, 1})
  BY SeqDef
<1>2. Len(s) \in Nat /\ DOMAIN s = 1 .. Len(s) /\ DOMAIN s = 1 .. n
  BY <1>1, LenProperties
<1> QED
  BY <1>1, <1>2

LEMMA DataElements ==
  ASSUME NEW kk \in Kernel
  PROVE  \A i \in 1 .. Len(kk.data) : kk.data[i] \in {Hole, 1}
  BY KernelFields, ElementOfSeq

LEMMA SetSizeOutcome ==
  ASSUME NEW kk \in Kernel, NEW fd, NEW n \in 0 .. SizeMax, NEW r \in set_size(kk, fd, n)
  PROVE  Keeps(kk, r)
<1>1. CASE r \in EBADF(kk)
  BY <1>1 DEF EBADF, Out, Keeps
<1>2. CASE r \in set_error(kk)
  BY <1>2, FailedCall DEF Keeps, SameKernel
<1>3. CASE r = Out([kk EXCEPT !.data = Resized(@, n)], "ok", 0)
  <2>1. Resized(kk.data, n) \in [1 .. n -> {Hole, 1}]
    BY DataElements, KernelFields DEF Resized
  <2>2. Resized(kk.data, n) \in Seq({Hole, 1}) /\ Len(Resized(kk.data, n)) <= SizeMax
    BY <2>1, BytesOf, Constants
  <2>3. r.k = [kk EXCEPT !.data = Resized(kk.data, n)]
    BY <1>3 DEF Out
  <2> DEFINE x == Resized(kk.data, n)
  <2>4. x \in Seq({Hole, 1}) /\ Len(x) <= SizeMax /\ r.k = [kk EXCEPT !.data = x]
    BY <2>2, <2>3
  <2> HIDE DEF x
  <2>5. r.k \in Kernel
    BY <2>4, KernelExcept
  <2>6. r.k.fd = kk.fd
    BY <2>4 DEF Kernel
  <2> QED
    BY <2>5, <2>6 DEF Keeps
<1> QED
  BY <1>1, <1>2, <1>3 DEF set_size

\* The bytes a read at p returns are the file's.
LEMMA ReadAtOutcome ==
  ASSUME NEW kk \in Kernel, NEW p \in Nat, NEW total \in Nat, NEW r \in ReadAt(kk, p, total)
  PROVE  /\ SameKernel(kk, r.k)
         /\ r = [k |-> r.k, ec |-> r.ec, ret |-> r.ret]
         /\ r.ec \in {"ok", "eof", "EIO", "again"}
         /\ r.ec = "ok" =>
              /\ r.ret \in Seq({Hole, 1}) /\ Len(r.ret) \in 0 .. total
              /\ Len(r.ret) = 0 => total = 0
              /\ Len(r.ret) # 0 => p + Len(r.ret) <= Len(kk.data)
              /\ \A i \in 1 .. Len(r.ret) : r.ret[i] = kk.data[p + i]
<1> DEFINE there == Len(kk.data) - p
<1>0. Len(kk.data) \in Nat /\ there \in Int /\ kk.data \in Seq({Hole, 1})
  BY KernelFields
<1>1. CASE r \in set_error(kk) \cup interrupted(kk)
  <2>1. r = [k |-> r.k, ec |-> r.ec, ret |-> r.ret]
    BY <1>1 DEF set_error, interrupted, Out
  <2> QED
    BY <1>1, <2>1, FailedCall
<1>2. CASE (there <= 0 \/ total = 0) /\ r = Out(kk, IF total # 0 THEN "eof" ELSE "ok", <<>>)
  BY <1>2, KernelFields DEF Out
<1>3. CASE \E c \in 1 .. total : c <= there /\ r = Out(kk, "ok", SubSeq(kk.data, p + 1, p + c))
  <2>1. PICK c \in 1 .. total : c <= there /\ r = Out(kk, "ok", SubSeq(kk.data, p + 1, p + c))
    BY <1>3
  <2> DEFINE b == SubSeq(kk.data, p + 1, p + c)
  <2>2. p + 1 \in Int /\ p + c \in Int /\ p + 1 <= p + c /\ p + c <= Len(kk.data)
    BY <1>0, <2>1
  <2>3. \A i \in (p + 1) .. (p + c) : kk.data[i] \in {Hole, 1}
    BY <1>0, <2>2, DataElements
  <2>4. /\ b \in Seq({Hole, 1})
        /\ Len(b) = IF p + 1 <= p + c THEN (p + c) - (p + 1) + 1 ELSE 0
        /\ \A i \in 1 .. (p + c) - (p + 1) + 1 : b[i] = kk.data[(p + 1) + i - 1]
    <3> DEFINE m == p + 1
               n == p + c
               x == kk.data
    <3>1. m \in Int /\ n \in Int /\ \A i \in m .. n : x[i] \in {Hole, 1}
      BY <2>2, <2>3
    <3> HIDE DEF m, n, x
    <3>2. /\ SubSeq(x, m, n) \in Seq({Hole, 1})
          /\ Len(SubSeq(x, m, n)) = IF m <= n THEN n - m + 1 ELSE 0
          /\ \A i \in 1 .. n - m + 1 : SubSeq(x, m, n)[i] = x[m + i - 1]
      BY <3>1, SubSeqProperties
    <3> QED
      BY <3>2 DEF m, n, x
  <2> HIDE DEF b
  <2>5. Len(b) = c /\ \A i \in 1 .. c : b[i] = kk.data[p + i]
    <3>1. (p + c) - (p + 1) + 1 = c /\ p + 1 <= p + c /\ \A i \in 1 .. c : (p + 1) + i - 1 = p + i
      BY <2>1
    <3> QED
      BY <2>4, <3>1
  <2>6. r.k = kk /\ r.ec = "ok" /\ r.ret = b
    BY <2>1 DEF Out, b
  <2>7. SameKernel(kk, r.k) /\ r = [k |-> r.k, ec |-> r.ec, ret |-> r.ret]
    BY <2>1, <2>6, KernelFields DEF Out
  <2>8. c # 0 /\ c \in 0 .. total /\ p + c <= Len(kk.data)
    BY <2>1, <2>2
  <2>9. /\ b \in Seq({Hole, 1}) /\ Len(b) \in 0 .. total /\ Len(b) # 0
        /\ p + Len(b) <= Len(kk.data)
        /\ \A i \in 1 .. Len(b) : b[i] = kk.data[p + i]
    BY <2>4, <2>5, <2>8
  <2> QED
    BY <2>6, <2>7, <2>9
<1> QED
  BY <1>1, <1>2, <1>3 DEF ReadAt

\* The position of fd.
PosOf(kk, fd) == kk.desc[kk.fd[fd]].pos

LEMMA PosOfType ==
  ASSUME NEW kk \in Kernel, NEW fd \in Fds, kk.fd[fd] # None
  PROVE  PosOf(kk, fd) \in 0 .. SizeMax /\ kk.fd[fd] \in Fds
<1>1. kk.fd[fd] \in Fds
  BY KernelFields
<1>2. kk.desc[kk.fd[fd]] \in [pos : 0 .. SizeMax, access : SUBSET Access]
  BY <1>1, KernelFields
<1> QED
  BY <1>1, <1>2 DEF PosOf

LEMMA ReadvOutcome ==
  ASSUME NEW kk \in Kernel, NEW fd, NEW total \in Nat, NEW r \in readv(kk, fd, total)
  PROVE  /\ Keeps(kk, r) /\ r.ec \in {"ok", "eof", "EIO", "again", "EBADF"}
         /\ r.ec # "ok" => SameKernel(kk, r.k)
         /\ r.ec = "ok" =>
              /\ fd \in Fds /\ kk.fd[fd] # None
              /\ MovedTo(kk, fd, PosOf(kk, fd) + Len(r.ret), r.k) /\ r.k.data = kk.data
              /\ r.ret \in Seq({Hole, 1}) /\ Len(r.ret) \in 0 .. total
              /\ Len(r.ret) # 0 => PosOf(kk, fd) + Len(r.ret) <= Len(kk.data)
              /\ \A i \in 1 .. Len(r.ret) : r.ret[i] = kk.data[PosOf(kk, fd) + i]
<1>1. CASE r \in EBADF(kk)
  BY <1>1, KernelFields DEF EBADF, Out, Keeps
<1>2. CASE /\ Usable(kk, fd, {"access_read"})
           /\ \E q \in ReadAt(kk, PosOf(kk, fd), total) :
                r = [q EXCEPT !.k = IF q.ec = "ok" THEN Moved(@, fd, Len(q.ret)) ELSE @]
  <2>1. fd \in Fds /\ kk.fd[fd] # None
    BY <1>2 DEF Usable
  <2>2. PICK q \in ReadAt(kk, PosOf(kk, fd), total) :
          r = [q EXCEPT !.k = IF q.ec = "ok" THEN Moved(@, fd, Len(q.ret)) ELSE @]
    BY <1>2
  <2>3. PosOf(kk, fd) \in Nat /\ PosOf(kk, fd) <= SizeMax
    BY <2>1, PosOfType, Constants
  <2>4. /\ SameKernel(kk, q.k)
        /\ q.ec \in {"ok", "eof", "EIO", "again"}
        /\ q.ec = "ok" =>
              /\ q.ret \in Seq({Hole, 1}) /\ Len(q.ret) \in 0 .. total
              /\ Len(q.ret) # 0 => PosOf(kk, fd) + Len(q.ret) <= Len(kk.data)
              /\ \A i \in 1 .. Len(q.ret) : q.ret[i] = kk.data[PosOf(kk, fd) + i]
    BY <2>3, ReadAtOutcome
  <2>5. q = [k |-> q.k, ec |-> q.ec, ret |-> q.ret]
    BY <2>3, ReadAtOutcome
  <2>6. /\ r.ec = q.ec /\ r.ret = q.ret
        /\ r.k = IF q.ec = "ok" THEN Moved(q.k, fd, Len(q.ret)) ELSE q.k
    BY <2>2, <2>5
  <2>7. CASE q.ec # "ok"
    BY <2>4, <2>6, <2>7 DEF Keeps, SameKernel
  <2>8. CASE q.ec = "ok"
    <3>1. Len(q.ret) \in Nat /\ PosOf(kk, fd) + Len(q.ret) <= SizeMax
      BY <2>3, <2>4, <2>8, KernelFields, Constants
    <3>2. q.k \in Kernel /\ q.k.fd = kk.fd /\ q.k.desc = kk.desc /\ q.k.exists = kk.exists
          /\ q.k.data = kk.data
      BY <2>4 DEF SameKernel
    <3>3. q.k.fd[fd] # None /\ q.k.desc[q.k.fd[fd]].pos + Len(q.ret) <= SizeMax
      BY <2>1, <3>1, <3>2 DEF PosOf
    <3>4. MovedTo(q.k, fd, q.k.desc[q.k.fd[fd]].pos + Len(q.ret), r.k) /\ r.k.data = q.k.data
      BY <2>1, <2>6, <2>8, <3>1, <3>2, <3>3, MovedKernel
    <3>5. MovedTo(kk, fd, PosOf(kk, fd) + Len(q.ret), r.k) /\ r.k.data = kk.data
      BY <3>2, <3>4 DEF MovedTo, PosOf
    <3>6. Keeps(kk, r)
      BY <3>5 DEF MovedTo, Keeps
    <3> QED
      BY <2>1, <2>4, <2>6, <2>8, <3>5, <3>6
  <2> QED
    BY <2>7, <2>8
<1> QED
  BY <1>1, <1>2 DEF readv, PosOf

\* data after a write of c bytes at p.
Overwritten(data, p, c, bytes) ==
  [i \in 1 .. (IF p + c > Len(data) THEN p + c ELSE Len(data)) |->
     IF i \in (p + 1) .. (p + c) THEN bytes[i - p]
     ELSE IF i <= Len(data) THEN data[i] ELSE Hole]

LEMMA OverwrittenBytes ==
  ASSUME NEW data \in Seq({Hole, 1}), NEW bytes \in Seq({Hole, 1}), NEW p \in Nat,
         NEW c \in 0 .. Len(bytes)
  PROVE  /\ Overwritten(data, p, c, bytes) \in Seq({Hole, 1})
         /\ Len(Overwritten(data, p, c, bytes)) =
              IF p + c > Len(data) THEN p + c ELSE Len(data)
<1> DEFINE n == IF p + c > Len(data) THEN p + c ELSE Len(data)
<1>1. Len(data) \in Nat /\ Len(bytes) \in Nat
  BY LenProperties
<1>2. n \in Nat
  BY <1>1
<1>3. /\ \A i \in 1 .. Len(data) : data[i] \in {Hole, 1}
      /\ \A i \in 1 .. Len(bytes) : bytes[i] \in {Hole, 1}
  BY ElementOfSeq
<1>4. \A i \in (p + 1) .. (p + c) : i - p \in 1 .. Len(bytes)
  BY <1>1
<1>5. Overwritten(data, p, c, bytes) \in [1 .. n -> {Hole, 1}]
  BY <1>1, <1>3, <1>4 DEF Overwritten
<1> HIDE DEF n
<1>6. Overwritten(data, p, c, bytes) \in Seq({Hole, 1}) /\ Len(Overwritten(data, p, c, bytes)) = n
  BY <1>2, <1>5, BytesOf
<1> QED
  BY <1>6 DEF n

LEMMA WriteAtOutcome ==
  ASSUME NEW kk \in Kernel, NEW p \in Nat, NEW bytes \in Seq({Hole, 1}),
         NEW r \in WriteAt(kk, p, bytes)
  PROVE  /\ Keeps(kk, r)
         /\ r.k.desc = kk.desc /\ r.k.exists = kk.exists
         /\ r = [k |-> r.k, ec |-> r.ec, ret |-> r.ret]
         /\ r.ec \in {"ok", "ENOSPC", "EIO", "again"}
         /\ r.ec # "ok" => SameKernel(kk, r.k)
         /\ r.ec = "ok" =>
              /\ r.ret \in 0 .. Len(bytes)
              /\ r.ret = 0 => r.k.data = kk.data
              /\ r.ret # 0 => /\ p + r.ret <= SizeMax
                              /\ r.k.data = Overwritten(kk.data, p, r.ret, bytes)
<1>0. Len(bytes) \in Nat
  BY LenProperties
<1>1. CASE r \in set_error(kk) \cup interrupted(kk)
  <2>1. r = [k |-> r.k, ec |-> r.ec, ret |-> r.ret]
    BY <1>1 DEF set_error, interrupted, Out
  <2> QED
    BY <1>1, <2>1, FailedCall DEF SameKernel, Keeps
<1>2. CASE r = Out(kk, "ok", 0) \/ r = Out(kk, "ENOSPC", 0)
  BY <1>0, <1>2, KernelFields DEF Out, Keeps
<1>3. CASE \E c \in 1 .. Len(bytes) :
             p + c <= SizeMax /\ r = Out([kk EXCEPT !.data = Overwritten(@, p, c, bytes)], "ok", c)
  <2>1. PICK c \in 1 .. Len(bytes) :
          p + c <= SizeMax /\ r = Out([kk EXCEPT !.data = Overwritten(@, p, c, bytes)], "ok", c)
    BY <1>3
  <2> DEFINE x == Overwritten(kk.data, p, c, bytes)
  <2>2. x \in Seq({Hole, 1}) /\ Len(x) <= SizeMax
    <3>1. c \in 0 .. Len(bytes) /\ kk.data \in Seq({Hole, 1})
      BY <1>0, KernelFields
    <3>2. x \in Seq({Hole, 1}) /\ Len(x) = IF p + c > Len(kk.data) THEN p + c ELSE Len(kk.data)
      BY <3>1, OverwrittenBytes
    <3> HIDE DEF x
    <3>3. Len(kk.data) \in 0 .. SizeMax
      BY KernelFields
    <3> QED
      BY <2>1, <3>2, <3>3, Constants
  <2>3. r.k = [kk EXCEPT !.data = x] /\ r.ec = "ok" /\ r.ret = c
    BY <2>1 DEF Out
  <2>4. r = [k |-> r.k, ec |-> r.ec, ret |-> r.ret]
    BY <2>1 DEF Out
  <2> HIDE DEF x
  <2>5. r.k \in Kernel /\ r.k.fd = kk.fd /\ r.k.desc = kk.desc /\ r.k.exists = kk.exists
        /\ r.k.data = x
    <3>1. r.k \in Kernel
      BY <2>2, <2>3, KernelExcept
    <3>2. r.k.fd = kk.fd /\ r.k.desc = kk.desc /\ r.k.exists = kk.exists /\ r.k.data = x
      BY <2>3 DEF Kernel
    <3> QED
      BY <3>1, <3>2
  <2>6. c \in 0 .. Len(bytes) /\ c # 0 /\ p + c <= SizeMax
    BY <1>0, <2>1
  <2> QED
    BY <2>3, <2>4, <2>5, <2>6 DEF Keeps, x
<1> QED
  BY <1>1, <1>2, <1>3 DEF WriteAt, Overwritten

LEMMA WritevOutcome ==
  ASSUME NEW kk \in Kernel, NEW fd, NEW bytes \in Seq({Hole, 1}), NEW r \in writev(kk, fd, bytes)
  PROVE  /\ Keeps(kk, r) /\ r.ec \in {"ok", "ENOSPC", "EIO", "again", "EBADF"}
         /\ r.ec # "ok" => SameKernel(kk, r.k)
         /\ r.ec = "ok" =>
              /\ fd \in Fds /\ kk.fd[fd] # None
              /\ r.ret \in 0 .. Len(bytes)
              /\ MovedTo(kk, fd, PosOf(kk, fd) + r.ret, r.k)
              /\ r.ret = 0 => r.k.data = kk.data
              /\ r.ret # 0 => r.k.data = Overwritten(kk.data, PosOf(kk, fd), r.ret, bytes)
<1>1. CASE r \in EBADF(kk)
  BY <1>1, KernelFields DEF EBADF, Out, Keeps
<1>2. CASE /\ Usable(kk, fd, {"access_write"})
           /\ \E q \in WriteAt(kk, PosOf(kk, fd), bytes) :
                r = [q EXCEPT !.k = IF q.ec = "ok" THEN Moved(@, fd, q.ret) ELSE @]
  <2>1. fd \in Fds /\ kk.fd[fd] # None
    BY <1>2 DEF Usable
  <2>2. PICK q \in WriteAt(kk, PosOf(kk, fd), bytes) :
          r = [q EXCEPT !.k = IF q.ec = "ok" THEN Moved(@, fd, q.ret) ELSE @]
    BY <1>2
  <2>3. PosOf(kk, fd) \in Nat /\ PosOf(kk, fd) <= SizeMax
    BY <2>1, PosOfType, Constants
  <2>4. /\ Keeps(kk, q) /\ q.k.desc = kk.desc /\ q.k.exists = kk.exists
        /\ q.ec \in {"ok", "ENOSPC", "EIO", "again"}
        /\ q.ec # "ok" => SameKernel(kk, q.k)
        /\ q.ec = "ok" =>
             /\ q.ret \in 0 .. Len(bytes)
             /\ q.ret = 0 => q.k.data = kk.data
             /\ q.ret # 0 => /\ PosOf(kk, fd) + q.ret <= SizeMax
                             /\ q.k.data = Overwritten(kk.data, PosOf(kk, fd), q.ret, bytes)
    BY <2>3, WriteAtOutcome
  <2>5. q = [k |-> q.k, ec |-> q.ec, ret |-> q.ret]
    BY <2>3, WriteAtOutcome
  <2>6. /\ r.ec = q.ec /\ r.ret = q.ret
        /\ r.k = IF q.ec = "ok" THEN Moved(q.k, fd, q.ret) ELSE q.k
    BY <2>2, <2>5
  <2>7. CASE q.ec # "ok"
    BY <2>4, <2>6, <2>7 DEF Keeps, SameKernel
  <2>8. CASE q.ec = "ok"
    <3>0. q.ret \in 0 .. Len(bytes) /\ Len(bytes) \in Nat
      BY <2>4, <2>8, LenProperties
    <3>1. q.ret \in Nat /\ PosOf(kk, fd) + q.ret <= SizeMax
      BY <2>3, <2>4, <2>8, <3>0, Constants
    <3>2. q.k \in Kernel /\ q.k.fd = kk.fd /\ q.k.desc = kk.desc /\ q.k.exists = kk.exists
      BY <2>4 DEF Keeps
    <3>3. q.k.fd[fd] # None /\ q.k.desc[q.k.fd[fd]].pos + q.ret <= SizeMax
      BY <2>1, <3>1, <3>2 DEF PosOf
    <3>4. MovedTo(q.k, fd, q.k.desc[q.k.fd[fd]].pos + q.ret, r.k) /\ r.k.data = q.k.data
      BY <2>1, <2>6, <2>8, <3>1, <3>2, <3>3, MovedKernel
    <3>5. MovedTo(kk, fd, PosOf(kk, fd) + q.ret, r.k)
      BY <3>2, <3>4 DEF MovedTo, PosOf
    <3>6. Keeps(kk, r)
      BY <3>5 DEF MovedTo, Keeps
    <3> QED
      BY <2>1, <2>4, <2>6, <2>8, <3>4, <3>5, <3>6
  <2> QED
    BY <2>7, <2>8
<1> QED
  BY <1>1, <1>2 DEF writev, PosOf

LEMMA AtOutcomes ==
  ASSUME NEW kk \in Kernel, NEW fd, NEW offset \in Nat
  PROVE  /\ \A total \in Nat : \A r \in preadv(kk, fd, total, offset) : Keeps(kk, r)
         /\ \A bytes \in Seq({Hole, 1}) : \A r \in pwritev(kk, fd, bytes, offset) : Keeps(kk, r)
<1>1. \A r \in EBADF(kk) : Keeps(kk, r)
  BY DEF EBADF, Out, Keeps
<1>2. ASSUME NEW total \in Nat, NEW r \in ReadAt(kk, offset, total) PROVE Keeps(kk, r)
  BY ReadAtOutcome DEF SameKernel, Keeps
<1>3. ASSUME NEW bytes \in Seq({Hole, 1}), NEW r \in WriteAt(kk, offset, bytes)
      PROVE  Keeps(kk, r)
  BY WriteAtOutcome
<1> QED
  BY <1>1, <1>2, <1>3 DEF preadv, pwritev

-----------------------------------------------------------------------------
(* Who owns which descriptor.                                               *)

\* own gives every owner its descriptor, tab is the kernel's table.
OwnersOK(tab, own) ==
  /\ \A fd \in Fds : tab[fd] # None <=> \E o \in Owners : own[o] = fd
  /\ \A o, p \in Owners : own[o] = own[p] /\ own[o] # None => o = p

Tables == [Fds -> Fds \cup {None}]
Holdings == [Owners -> Fds \cup {None}]

\* An owner closes its descriptor.
LEMMA OwnerCloses ==
  ASSUME NEW tab \in Tables, NEW own \in Holdings, OwnersOK(tab, own),
         NEW o \in Owners, own[o] \in Fds
  PROVE  OwnersOK([tab EXCEPT ![own[o]] = None], [own EXCEPT ![o] = None])
<1> DEFINE fd == own[o]
           tab2 == [tab EXCEPT ![fd] = None]
           own2 == [own EXCEPT ![o] = None]
<1>1. /\ \A f \in Fds : tab2[f] = IF f = fd THEN None ELSE tab[f]
      /\ \A p \in Owners : own2[p] = IF p = o THEN None ELSE own[p]
  BY DEF Tables, Holdings
<1>2. /\ \A f \in Fds : tab[f] # None <=> \E p \in Owners : own[p] = f
      /\ \A p, q \in Owners : own[p] = own[q] /\ own[p] # None => p = q
  BY DEF OwnersOK
<1> HIDE DEF tab2, own2
<1>3. \A f \in Fds : tab2[f] # None <=> \E p \in Owners : own2[p] = f
  BY <1>1, <1>2, Constants
<1>4. \A p, q \in Owners : own2[p] = own2[q] /\ own2[p] # None => p = q
  BY <1>1, <1>2
<1> QED
  BY <1>3, <1>4 DEF OwnersOK, tab2, own2

\* An owner that holds nothing receives a new descriptor.
LEMMA OwnerOpens ==
  ASSUME NEW tab \in Tables, NEW own \in Holdings, OwnersOK(tab, own),
         NEW o \in Owners, own[o] = None, NEW fd \in Fds, tab[fd] = None, NEW d \in Fds
  PROVE  OwnersOK([tab EXCEPT ![fd] = d], [own EXCEPT ![o] = fd])
<1> DEFINE tab2 == [tab EXCEPT ![fd] = d]
           own2 == [own EXCEPT ![o] = fd]
<1>1. /\ \A f \in Fds : tab2[f] = IF f = fd THEN d ELSE tab[f]
      /\ \A p \in Owners : own2[p] = IF p = o THEN fd ELSE own[p]
  BY DEF Tables, Holdings
<1>2. /\ \A f \in Fds : tab[f] # None <=> \E p \in Owners : own[p] = f
      /\ \A p, q \in Owners : own[p] = own[q] /\ own[p] # None => p = q
  BY DEF OwnersOK
<1> HIDE DEF tab2, own2
<1>3. \A f \in Fds : tab2[f] # None <=> \E p \in Owners : own2[p] = f
  BY <1>1, <1>2, Constants
<1>4. \A p, q \in Owners : own2[p] = own2[q] /\ own2[p] # None => p = q
  BY <1>1, <1>2
<1> QED
  BY <1>3, <1>4 DEF OwnersOK, tab2, own2

\* p's descriptor moves to o, which holds nothing.
LEMMA OwnerMoves ==
  ASSUME NEW tab \in Tables, NEW own \in Holdings, OwnersOK(tab, own),
         NEW o \in Owners, NEW p \in Owners, o # p, own[o] = None
  PROVE  OwnersOK(tab, [own EXCEPT ![o] = own[p], ![p] = None])
<1> DEFINE own2 == [own EXCEPT ![o] = own[p], ![p] = None]
<1>1. \A q \in Owners : own2[q] = IF q = p THEN None ELSE IF q = o THEN own[p] ELSE own[q]
  BY DEF Holdings
<1>2. /\ \A f \in Fds : tab[f] # None <=> \E q \in Owners : own[q] = f
      /\ \A q, r \in Owners : own[q] = own[r] /\ own[q] # None => q = r
  BY DEF OwnersOK
<1> HIDE DEF own2
<1>3. \A f \in Fds : tab[f] # None <=> \E q \in Owners : own2[q] = f
  BY <1>1, <1>2, Constants
<1>4. \A q, r \in Owners : own2[q] = own2[r] /\ own2[q] # None => q = r
  BY <1>1, <1>2
<1> QED
  BY <1>3, <1>4 DEF OwnersOK, own2

-----------------------------------------------------------------------------
(* Calls of read_file and write_file.                                       *)

\* What is known of a call at each of its steps, whatever others do.
CallOK(c) ==
  /\ c.pc \in {"idle", "open", "done"} => c.fd = None /\ c.from = None
  /\ c.pc \in {"size", "read", "write", "close"} => (c.fd = None) = (c.from # None)
  /\ c.pc \in {"write", "close"} => c.from = None
  /\ c.pc \in {"open", "size"} => c.bytes = <<>>
  /\ c.pc = "open" => (c.op = "read_file" <=> c.want = 0) /\ c.op # "none"
  /\ c.pc = "size" => c.want = 0 /\ c.op = "read_file"
  /\ c.pc = "read" => c.op \in {"read_file", "read_buffers"}
  /\ c.pc = "write" => c.op = "write_file"
  /\ c.pc \in {"read", "write"} => Len(c.bytes) <= c.want
  /\ c.pc \in {"close", "done"} /\ c.ec = "ok" => Len(c.bytes) = c.want

\* The descriptor a call uses, given the objects' handles.
UsedBy(h, c) == IF c.from = None THEN c.fd ELSE h[c.from]

Starts(b, data) == Len(b) <= Len(data) /\ \A i \in 1 .. Len(b) : b[i] = data[i]
Ones(n) == [i \in 1 .. n |-> 1]

\* How far a call has come with the file, and with its position in it, while
\* nobody else touches either.
Exact(kk, u, c) == c.alone =>
  /\ c.pc = "size" => PosOf(kk, u) = 0
  /\ c.pc = "read" => /\ PosOf(kk, u) = Len(c.bytes) /\ Starts(c.bytes, kk.data)
                      /\ c.op = "read_file" => c.want = Len(kk.data)
  /\ c.pc = "write" => PosOf(kk, u) = Len(c.bytes) /\ kk.data = Ones(Len(c.bytes))
  /\ c.pc \in {"close", "done"} /\ c.ec = "ok" =>
       IF c.op = "write_file" THEN kk.data = Ones(c.want)
       ELSE Starts(c.bytes, kk.data) /\ (c.op = "read_file" => c.want = Len(kk.data))

OwnOf(h, c) == [o \in Owners |-> IF o \in Callers THEN c[o].fd ELSE h[o]]

\* An object that is lent out keeps its descriptor.
Lending(h, c) == \A t \in Callers : c[t].from # None => h[c[t].from] # None

Inv ==
  /\ TypeOK
  /\ OwnersOK(k.fd, OwnOf(handle, call))
  /\ Lending(handle, call)
  /\ \A t \in Callers : CallOK(call[t])
  /\ \A t \in Callers : Exact(k, UsedBy(handle, call[t]), call[t])

LEMMA CallFields ==
  ASSUME NEW c \in Call
  PROVE  /\ c.fd \in Fds \cup {None} /\ c.from \in Objects \cup {None}
         /\ c.want \in 0 .. SizeMax
         /\ c.bytes \in Seq({Hole, 1}) /\ Len(c.bytes) \in 0 .. SizeMax
         /\ c.alone \in BOOLEAN
<1>1. c.bytes \in BoundedSeq({Hole, 1}, SizeMax)
  BY DEF Call
<1>2. c.bytes \in Seq({Hole, 1}) /\ Len(c.bytes) <= SizeMax
  BY <1>1, BoundedSeqs, Constants
<1>3. Len(c.bytes) \in Nat
  BY <1>2, LenProperties
<1>4. c.alone \in BOOLEAN
  BY DEF Call
<1> QED
  BY <1>2, <1>3, <1>4, Constants DEF Call

LEMMA BlurredBytes ==
  ASSUME NEW b \in Seq({Hole, 1})
  PROVE  Blurred(b) \in Seq({Hole, 1}) /\ Len(Blurred(b)) = Len(b)
<1>1. Len(b) \in Nat /\ DOMAIN b = 1 .. Len(b)
  BY LenProperties
<1>2. Blurred(b) \in [1 .. Len(b) -> {Hole, 1}]
  BY <1>1 DEF Blurred
<1> QED
  BY <1>1, <1>2, BytesOf

\* A caller that notices something forgets what it read, not how much.
LEMMA NoticedCall ==
  ASSUME NEW c \in Call, CallOK(c), NEW kk
  PROVE  /\ Noticed(c, kk) \in Call /\ CallOK(Noticed(c, kk))
         /\ Noticed(c, kk).fd = c.fd /\ Noticed(c, kk).from = c.from
         /\ Noticed(c, kk).pc = c.pc
         /\ Noticed(c, kk).alone =>
              /\ Noticed(c, kk) = c
              /\ c.pc = "idle" \/ Seen(kk, UsedBy(handle, c)) = Seen(k, UsedBy(handle, c))
<1> DEFINE b == Blurred(c.bytes)
           d == [c EXCEPT !.alone = FALSE, !.bytes = b]
<1>1. Noticed(c, kk) \in {c, d}
  BY DEF Noticed
<1>2. b \in Seq({Hole, 1}) /\ Len(b) = Len(c.bytes) /\ Len(b) \in 0 .. SizeMax
  BY BlurredBytes, CallFields
<1>3. b \in BoundedSeq({Hole, 1}, SizeMax)
  BY <1>2, BoundedSeqs, Constants
<1>4. c.bytes = <<>> => b = <<>>
  BY <1>2, CallFields, EmptySeq
<1> HIDE DEF b
<1>5. d \in Call
  BY <1>3 DEF Call
<1>6. /\ d.pc = c.pc /\ d.fd = c.fd /\ d.from = c.from /\ d.want = c.want /\ d.op = c.op
      /\ d.ec = c.ec /\ d.alone = FALSE /\ d.bytes = b
  BY DEF Call
<1> HIDE DEF d
<1>7. CallOK(d)
  BY <1>2, <1>4, <1>6 DEF CallOK
<1>8. Noticed(c, kk) = c \/ (Noticed(c, kk) = d /\ ~d.alone)
  BY <1>1, <1>6
<1>9. CASE c.pc = "idle" \/ Seen(kk, UsedBy(handle, c)) = Seen(k, UsedBy(handle, c))
  BY <1>9 DEF Noticed, UsedBy
<1>10. CASE ~(c.pc = "idle" \/ Seen(kk, UsedBy(handle, c)) = Seen(k, UsedBy(handle, c)))
  <2>1. Noticed(c, kk) = d
    BY <1>10 DEF Noticed, UsedBy, b, d
  <2> QED
    BY <1>5, <1>6, <1>7, <2>1
<1> QED
  BY <1>9, <1>10

LEMMA OwnType ==
  ASSUME TypeOK, NEW h \in [Objects -> Fds \cup {None}]
  PROVE  OwnOf(h, call) \in Holdings
<1>1. \A t \in Callers : call[t].fd \in Fds \cup {None}
  BY CallFields DEF TypeOK
<1>2. \A o \in Owners \ Callers : o \in Objects
  BY DEF Owners
<1> QED
  BY <1>1, <1>2 DEF OwnOf, Holdings

\* The descriptor that a call uses is open.
LEMMA UsedIsOpen ==
  ASSUME Inv, NEW t \in Callers, call[t].pc \in {"size", "read", "write", "close"}
  PROVE  UsedBy(handle, call[t]) \in Fds /\ k.fd[UsedBy(handle, call[t])] # None
<1> DEFINE c == call[t]
           own == OwnOf(handle, call)
<1>1. c \in Call /\ CallOK(c) /\ handle \in [Objects -> Fds \cup {None}]
  BY DEF Inv, TypeOK
<1>2. \A fd \in Fds : k.fd[fd] # None <=> \E o \in Owners : own[o] = fd
  BY DEF Inv, OwnersOK
<1>3. CASE c.from = None
  <2>1. c.fd \in Fds /\ t \in Owners /\ own[t] = c.fd
    BY <1>1, <1>3, CallFields DEF CallOK, OwnOf, Owners
  <2> QED
    BY <1>2, <1>3, <2>1 DEF UsedBy
<1>4. CASE c.from # None
  <2>1. c.from \in Objects /\ c.from \in Owners /\ c.from \notin Callers
    BY <1>1, <1>4, CallFields, ObjectsAssumption DEF Owners
  <2>2. handle[c.from] \in Fds
    BY <1>1, <1>4, <2>1 DEF Inv, Lending
  <2>3. own[c.from] = handle[c.from]
    BY <2>1 DEF OwnOf
  <2> QED
    BY <1>2, <1>4, <2>1, <2>2, <2>3 DEF UsedBy
<1> QED
  BY <1>3, <1>4

\* Others see a caller's file and position unchanged, or it notices.
LEMMA NoticedExact ==
  ASSUME Inv, NEW t \in Callers, NEW kk \in Kernel,
         UsedBy(handle, call[t]) \in Fds => 
           (k.fd[UsedBy(handle, call[t])] # None => kk.fd[UsedBy(handle, call[t])] # None)
  PROVE  Exact(kk, UsedBy(handle, call[t]), Noticed(call[t], kk))
<1> DEFINE c == call[t]
           u == UsedBy(handle, c)
<1>1. c \in Call /\ CallOK(c) /\ Exact(k, u, c)
  BY DEF Inv, TypeOK
<1>2. SUFFICES ASSUME Noticed(c, kk).alone PROVE Exact(kk, u, Noticed(c, kk))
  BY DEF Exact
<1>3. Noticed(c, kk) = c /\ (c.pc = "idle" \/ Seen(kk, u) = Seen(k, u))
  BY <1>1, <1>2, NoticedCall
<1>4. CASE c.pc = "idle"
  BY <1>3, <1>4 DEF Exact
<1>5. CASE c.pc \in {"open", "done"} /\ Seen(kk, u) = Seen(k, u)
  <2>1. kk.data = k.data
    BY <1>5 DEF Seen
  <2> QED
    BY <1>1, <1>3, <1>5, <2>1 DEF Exact
<1>6. CASE c.pc \in {"size", "read", "write", "close"} /\ Seen(kk, u) = Seen(k, u)
  <2>1. u \in Fds /\ k.fd[u] # None /\ kk.fd[u] # None
    BY <1>6, UsedIsOpen
  <2>2. kk.data = k.data /\ PosOf(kk, u) = PosOf(k, u)
    BY <1>6, <2>1 DEF Seen, PosOf
  <2> QED
    BY <1>1, <1>3, <2>2 DEF Exact
<1>7. c.pc \in {"idle", "open", "size", "read", "write", "close", "done"}
  BY <1>1 DEF Call
<1> QED
  BY <1>3, <1>4, <1>5, <1>6, <1>7

\* A step of the program's thread.
LEMMA ProgramStep ==
  ASSUME Inv, NEW h \in [Objects -> Fds \cup {None}], handle' = h, k' \in Kernel,
         call' = [t \in Callers |-> Noticed(call[t], k')],
         OwnersOK(k'.fd, OwnOf(h, call)),
         \A o \in Objects : Lent(o) => h[o] = handle[o]
  PROVE  Inv'
<1>1. \A t \in Callers : /\ call[t] \in Call /\ CallOK(call[t])
                         /\ call'[t] = Noticed(call[t], k')
  BY DEF Inv, TypeOK
<1>2. \A t \in Callers : /\ call'[t] \in Call /\ CallOK(call'[t])
                         /\ call'[t].fd = call[t].fd /\ call'[t].from = call[t].from
  BY <1>1, NoticedCall
<1>3. TypeOK'
  <2>1. call' \in [Callers -> Call]
    BY <1>2
  <2> QED
    BY <2>1 DEF TypeOK
<1>4. OwnOf(handle', call') = OwnOf(h, call)
  BY <1>2 DEF OwnOf
<1>5. \A t \in Callers : call[t].from # None =>
        /\ call[t].from \in Objects /\ Lent(call[t].from)
        /\ h[call[t].from] = handle[call[t].from]
  BY <1>1, CallFields DEF Lent
<1>6. Lending(handle', call')
  BY <1>2, <1>5 DEF Inv, Lending
<1>7. \A t \in Callers : UsedBy(handle', call'[t]) = UsedBy(handle, call[t])
  BY <1>2, <1>5 DEF UsedBy
<1>8. ASSUME NEW t \in Callers PROVE Exact(k', UsedBy(handle', call'[t]), call'[t])
  <2> DEFINE u == UsedBy(handle, call[t])
             own == OwnOf(h, call)
  <2>1. CASE u \in Fds /\ k.fd[u] # None
    <3>1. \E o \in Owners : own[o] = u
      <4>1. CASE call[t].from = None
        BY <2>1, <4>1 DEF UsedBy, OwnOf, Owners
      <4>2. CASE call[t].from # None
        <5>1. call[t].from \in Owners \ Callers
          BY <1>5, <4>2, ObjectsAssumption DEF Owners
        <5> QED
          BY <1>5, <4>2, <5>1 DEF UsedBy, OwnOf
      <4> QED
        BY <4>1, <4>2
    <3>2. k'.fd[u] # None
      BY <2>1, <3>1 DEF OwnersOK
    <3> QED
      BY <1>1, <1>7, <3>2, NoticedExact
  <2>2. CASE ~(u \in Fds /\ k.fd[u] # None)
    BY <1>1, <1>7, <2>2, NoticedExact
  <2> QED
    BY <2>1, <2>2
<1> QED
  BY <1>2, <1>3, <1>4, <1>6, <1>8 DEF Inv

\* A step of the caller t, which has become c.
LEMMA CallerStep ==
  ASSUME Inv, NEW t \in Callers, NEW c \in Call, CallOK(c), handle' = handle, k' \in Kernel,
         call' = [u \in Callers |-> IF u # t THEN Noticed(call[u], k') ELSE c],
         OwnersOK(k'.fd, [OwnOf(handle, call) EXCEPT ![t] = c.fd]),
         c.from # None => handle[c.from] # None,
         Exact(k', UsedBy(handle, c), c)
  PROVE  Inv'
<1>1. /\ \A u \in Callers : call[u] \in Call /\ CallOK(call[u])
      /\ \A u \in Callers \ {t} : call'[u] = Noticed(call[u], k')
      /\ call'[t] = c
  BY DEF Inv, TypeOK
<1>2. \A u \in Callers : call'[u] \in Call /\ CallOK(call'[u])
  BY <1>1, NoticedCall
<1>3. \A u \in Callers \ {t} : call'[u].fd = call[u].fd /\ call'[u].from = call[u].from
  BY <1>1, NoticedCall
<1>4. TypeOK'
  <2>1. call' \in [Callers -> Call]
    BY <1>2
  <2> QED
    BY <2>1 DEF Inv, TypeOK
<1> DEFINE own == [OwnOf(handle, call) EXCEPT ![t] = c.fd]
<1>5. OwnOf(handle', call') = own
  <2>1. \A o \in Owners : OwnOf(handle', call')[o] = own[o]
    BY <1>1, <1>3 DEF OwnOf, Owners
  <2> QED
    BY <2>1 DEF OwnOf
<1>6. Lending(handle', call')
  BY <1>1, <1>3 DEF Inv, Lending
<1>7. \A u \in Callers \ {t} : UsedBy(handle', call'[u]) = UsedBy(handle, call[u])
  BY <1>3 DEF UsedBy
<1>8. ASSUME NEW u \in Callers \ {t} PROVE Exact(k', UsedBy(handle', call'[u]), call'[u])
  <2> DEFINE fd == UsedBy(handle, call[u])
  <2>1. CASE fd \in Fds /\ k.fd[fd] # None
    <3>1. \E o \in Owners : o # t /\ own[o] = fd
      <4>1. CASE call[u].from = None
        BY <2>1, <4>1 DEF UsedBy, OwnOf, Owners
      <4>2. CASE call[u].from # None
        <5>1. call[u].from \in Owners \ Callers
          BY <1>1, <4>2, CallFields, ObjectsAssumption DEF Owners
        <5> QED
          BY <4>2, <5>1 DEF UsedBy, OwnOf
      <4> QED
        BY <4>1, <4>2
    <3>2. k'.fd[fd] # None
      BY <2>1, <3>1 DEF OwnersOK
    <3> QED
      BY <1>1, <1>7, <3>2, NoticedExact
  <2>2. CASE ~(fd \in Fds /\ k.fd[fd] # None)
    BY <1>1, <1>7, <2>2, NoticedExact
  <2> QED
    BY <2>1, <2>2
<1>9. Exact(k', UsedBy(handle', call'[t]), call'[t])
  BY <1>1
<1> QED
  BY <1>2, <1>4, <1>5, <1>6, <1>8, <1>9 DEF Inv

-----------------------------------------------------------------------------
(* The program's thread.                                                    *)

\* What Inv says of the table and the holdings.
LEMMA InvTables ==
  ASSUME Inv
  PROVE  /\ k \in Kernel /\ k.fd \in Tables
         /\ handle \in [Objects -> Fds \cup {None}]
         /\ OwnOf(handle, call) \in Holdings
         /\ OwnersOK(k.fd, OwnOf(handle, call))
         /\ \A o \in Objects : OwnOf(handle, call)[o] = handle[o]
         /\ \A o \in Objects : handle[o] # None => handle[o] \in Fds /\ k.fd[handle[o]] # None
<1>1. k \in Kernel /\ handle \in [Objects -> Fds \cup {None}] /\ TypeOK
  BY DEF Inv, TypeOK
<1>2. \A o \in Objects : o \in Owners /\ OwnOf(handle, call)[o] = handle[o]
  BY ObjectsAssumption DEF Owners, OwnOf
<1>3. OwnersOK(k.fd, OwnOf(handle, call))
  BY DEF Inv
<1>4. \A o \in Objects : handle[o] # None => handle[o] \in Fds /\ k.fd[handle[o]] # None
  BY <1>1, <1>2, <1>3 DEF OwnersOK
<1> QED
  BY <1>1, <1>2, <1>3, <1>4, OwnType, KernelFields DEF Tables

\* The holdings when an object gets another descriptor.
LEMMA OwnExcept ==
  ASSUME NEW h \in [Objects -> Fds \cup {None}], NEW o \in Objects, NEW x
  PROVE  OwnOf([h EXCEPT ![o] = x], call) = [OwnOf(h, call) EXCEPT ![o] = x]
<1>1. o \in Owners \ Callers
  BY ObjectsAssumption DEF Owners
<1> QED
  BY <1>1 DEF OwnOf, Owners

\* position, seek, size, truncate, reads and writes.
LEMMA SyncStep ==
  ASSUME Inv, NEW o, NEW R, Sync(o, R), \A r \in R : Keeps(k, r)
  PROVE  Inv'
<1>1. PICK r \in R : /\ k' = r.k
                     /\ call' = [t \in Callers |-> Noticed(call[t], r.k)]
  BY DEF Sync, Done
<1>2. k' \in Kernel /\ k'.fd = k.fd /\ handle' = handle
  BY <1>1 DEF Keeps, Sync
<1> QED
  BY <1>1, <1>2, InvTables, ProgramStep

LEMMA PositionStep ==
  ASSUME Inv, NEW o \in Objects,
         position(o) \/ Seek(o) \/ Size(o) \/ truncate(o)
  PROVE  Inv'
<1> DEFINE h == handle[o]
<1>0. k \in Kernel
  BY InvTables
<1>1. CASE position(o)
  <2>1. Sync(o, seek(k, h, "from_current", 0))
    BY <1>1 DEF position, ByLayer, file_position, service_position, unique_position,
                handle_position
  <2>2. \A r \in seek(k, h, "from_current", 0) : Keeps(k, r)
    BY <1>0, SeekOutcome
  <2> QED
    BY <2>1, <2>2, SyncStep
<1>2. CASE Seek(o)
  <2>1. PICK s \in Seeks : Sync(o, seek(k, h, s[1], s[2]))
    BY <1>2 DEF Seek, ByLayer, file_seek, service_seek, unique_seek, handle_seek
  <2>2. s[1] \in {"from_begin", "from_current", "from_end"} /\ s[2] \in Int
    BY DEF Seeks
  <2>3. \A r \in seek(k, h, s[1], s[2]) : Keeps(k, r)
    BY <1>0, <2>2, SeekOutcome
  <2> QED
    BY <2>1, <2>3, SyncStep
<1>3. CASE Size(o)
  <2>1. Sync(o, size(k, h))
    BY <1>3 DEF Size, ByLayer, file_size, service_size, unique_size, handle_size
  <2>2. \A r \in size(k, h) : Keeps(k, r)
    BY <1>0, SizeOutcome DEF SameKernel, Keeps
  <2> QED
    BY <2>1, <2>2, SyncStep
<1>4. CASE truncate(o)
  <2>1. Sync(o, set_size(k, h, 1))
    BY <1>4 DEF truncate, ByLayer, file_truncate, service_truncate, unique_truncate,
                handle_truncate
  <2>2. \A r \in set_size(k, h, 1) : Keeps(k, r)
    BY <1>0, SetSizeOutcome, Constants
  <2> QED
    BY <2>1, <2>2, SyncStep
<1> QED
  BY <1>1, <1>2, <1>3, <1>4

LEMMA TransferStep ==
  ASSUME Inv, NEW o \in Objects,
         read_some(o) \/ write_some(o) \/ read_some_at(o) \/ write_some_at(o)
  PROVE  Inv'
<1> DEFINE h == handle[o]
<1>0. k \in Kernel
  BY InvTables
<1>1. CASE read_some(o)
  <2>1. PICK total \in Sizes : Sync(o, readv(k, h, total))
    BY <1>1 DEF read_some, ByLayer, file_read_some, service_read_some, unique_read_some,
                handle_read_some
  <2>2. total \in Nat
    BY Constants DEF Sizes
  <2>3. \A r \in readv(k, h, total) : Keeps(k, r)
    BY <1>0, <2>2, ReadvOutcome
  <2> QED
    BY <2>1, <2>3, SyncStep
<1>2. CASE write_some(o)
  <2>1. PICK b \in Buffers : Sync(o, writev(k, h, b))
    BY <1>2 DEF write_some, ByLayer, file_write_some, service_write_some,
                unique_write_some, handle_write_some
  <2>2. b \in Seq({Hole, 1})
    <3>1. PICK n \in Sizes : b = [i \in 1 .. n |-> 1]
      BY DEF Buffers
    <3>2. n \in Nat /\ b \in [1 .. n -> {Hole, 1}]
      BY <3>1, Constants DEF Sizes
    <3> QED
      BY <3>2, BytesOf
  <2>3. \A r \in writev(k, h, b) : Keeps(k, r)
    BY <1>0, <2>2, WritevOutcome
  <2> QED
    BY <2>1, <2>3, SyncStep
<1>3. CASE read_some_at(o)
  <2>1. Sync(o, preadv(k, h, SizeMax, 1))
    BY <1>3 DEF read_some_at, ByLayer, file_read_some_at, service_read_some_at,
                unique_read_some_at, handle_read_some_at
  <2>2. \A r \in preadv(k, h, SizeMax, 1) : Keeps(k, r)
    BY <1>0, AtOutcomes, Constants
  <2> QED
    BY <2>1, <2>2, SyncStep
<1>4. CASE write_some_at(o)
  <2>1. Sync(o, pwritev(k, h, <<1>>, 1))
    BY <1>4 DEF write_some_at, ByLayer, file_write_some_at, service_write_some_at,
                unique_write_some_at, handle_write_some_at
  <2>2. <<1>> \in Seq({Hole, 1})
    OBVIOUS
  <2>3. \A r \in pwritev(k, h, <<1>>, 1) : Keeps(k, r)
    BY <1>0, <2>2, AtOutcomes
  <2> QED
    BY <2>1, <2>3, SyncStep
<1> QED
  BY <1>1, <1>2, <1>3, <1>4

\* Closing what an object holds, if it holds anything.
LEMMA HandleClose ==
  ASSUME Inv, NEW o \in Objects, NEW s \in handle_close(handle[o])
  PROVE  /\ s.k \in Kernel
         /\ OwnersOK(s.k.fd, OwnOf([handle EXCEPT ![o] = None], call))
<1> DEFINE own == OwnOf(handle, call)
           fd == handle[o]
<1>1. OwnOf([handle EXCEPT ![o] = None], call) = [own EXCEPT ![o] = None]
  BY InvTables, OwnExcept
<1>2. own[o] = fd /\ o \in Owners /\ own \in Holdings /\ OwnersOK(k.fd, own)
      /\ k \in Kernel /\ k.fd \in Tables
  BY InvTables DEF Owners
<1>3. CASE fd = None
  <2>1. s.k = k
    BY <1>3 DEF handle_close, Out
  <2>2. [own EXCEPT ![o] = None] = own
    BY <1>2, <1>3 DEF Holdings
  <2> QED
    BY <1>1, <1>2, <2>1, <2>2
<1>4. CASE fd # None
  <2>1. fd \in Fds /\ k.fd[fd] # None
    BY <1>4, InvTables
  <2>2. s \in close(k, fd)
    BY <1>4 DEF handle_close
  <2>3. SameKernel(Unlinked(k, fd), s.k) /\ Unlinked(k, fd).fd = [k.fd EXCEPT ![fd] = None]
    BY <1>2, <2>1, <2>2, CloseKernel, UnlinkedKernel
  <2>4. s.k \in Kernel /\ s.k.fd = [k.fd EXCEPT ![own[o]] = None]
    BY <1>2, <2>3 DEF SameKernel
  <2>5. OwnersOK([k.fd EXCEPT ![own[o]] = None], [own EXCEPT ![o] = None])
    BY <1>2, <2>1, OwnerCloses
  <2> QED
    BY <1>1, <2>4, <2>5
<1> QED
  BY <1>3, <1>4

LEMMA CloseStep ==
  ASSUME Inv, NEW o \in Objects, Close(o)
  PROVE  Inv'
<1> DEFINE h == [handle EXCEPT ![o] = None]
<1>1. PICK s \in handle_close(handle[o]) :
        k' = s.k /\ call' = [t \in Callers |-> Noticed(call[t], s.k)]
  BY DEF Close, Done, ByLayer, file_close, service_close, unique_close
<1>2. s.k \in Kernel /\ OwnersOK(s.k.fd, OwnOf(h, call))
  BY HandleClose
<1>3. h \in [Objects -> Fds \cup {None}] /\ \A p \in Objects : Lent(p) => h[p] = handle[p]
  BY InvTables DEF Close
<1>4. handle' = h
  BY DEF Close
<1> HIDE DEF h
<1> QED
  BY <1>1, <1>2, <1>3, <1>4, ProgramStep

\* A call that was to make a descriptor made one, or failed and left none behind.
MayCreate(kk, r) == \/ Creates(kk, r)
                    \/ r.ret = None /\ r.k \in Kernel /\ r.k.fd = kk.fd

\* Objects other than lent ones change hands.
LEMMA NotLent ==
  ASSUME Inv, NEW o \in Objects, handle[o] = None
  PROVE  ~Lent(o)
  BY ObjectsAssumption DEF Inv, Lending, Lent

LEMMA SameCalls ==
  ASSUME Inv
  PROVE  call = [t \in Callers |-> Noticed(call[t], k)]
<1>1. \A t \in Callers : Noticed(call[t], k) = call[t]
  BY DEF Noticed
<1> QED
  BY <1>1 DEF Inv, TypeOK

LEMMA AssignedTable ==
  ASSUME NEW kk \in Kernel, NEW r, MayCreate(kk, r), NEW old \in Fds, kk.fd[old] # None
  PROVE  r.k \in Kernel /\ r.k.fd[old] # None /\ r.ret # old
<1>1. CASE Creates(kk, r)
  BY <1>1, KernelFields DEF Creates
<1>2. CASE r.ret = None /\ r.k \in Kernel /\ r.k.fd = kk.fd
  BY <1>2, Constants
<1> QED
  BY <1>1, <1>2 DEF MayCreate

\* The new descriptor is u's, or nobody's because it is closed again.
LEMMA AssignedOwners ==
  ASSUME Inv, NEW u \in Uniques, NEW r, MayCreate(k, r), Assigned(u, r)
  PROVE  /\ k' \in Kernel
         /\ \E x \in Fds \cup {None} :
              /\ handle' = [handle EXCEPT ![u] = x]
              /\ OwnersOK(k'.fd, [OwnOf(handle, call) EXCEPT ![u] = x])
<1> DEFINE own == OwnOf(handle, call)
           old == handle[u]
           own1 == [own EXCEPT ![u] = None]
<1>1. /\ own \in Holdings /\ OwnersOK(k.fd, own) /\ k \in Kernel /\ k.fd \in Tables
      /\ u \in Owners /\ u \in Objects /\ own[u] = old /\ old \in Fds \cup {None}
  BY InvTables DEF Owners, Objects
<1>2. r.ret \in Fds \cup {None} /\ r.k \in Kernel
  BY DEF MayCreate, Creates
<1>3. ASSUME NEW tab \in Tables, OwnersOK(tab, own1),
             NEW nn \in Kernel,
             nn.fd = IF r.ret = None THEN tab ELSE [tab EXCEPT ![r.ret] = r.k.fd[r.ret]],
             r.ret # None => tab[r.ret] = None
      PROVE  OwnersOK(nn.fd, [own EXCEPT ![u] = r.ret])
  <2>1. own1 \in Holdings /\ own1[u] = None /\ [own1 EXCEPT ![u] = r.ret] = [own EXCEPT ![u] = r.ret]
    BY <1>1 DEF Holdings
  <2>2. CASE r.ret = None
    BY <1>3, <2>2
  <2>3. CASE r.ret # None
    <3>0. PICK d \in Fds : r.k.fd = [k.fd EXCEPT ![r.ret] = d]
      BY <2>3 DEF MayCreate, Creates
    <3>1. r.ret \in Fds /\ r.k.fd[r.ret] \in Fds /\ tab[r.ret] = None
      BY <1>1, <1>2, <1>3, <2>3, <3>0 DEF Tables
    <3> HIDE DEF own1
    <3>2. OwnersOK([tab EXCEPT ![r.ret] = r.k.fd[r.ret]], [own1 EXCEPT ![u] = r.ret])
      BY <1>1, <1>3, <2>1, <3>1, OwnerOpens
    <3> QED
      BY <1>3, <2>1, <2>3, <3>2
  <2> QED
    BY <2>2, <2>3
<1>4. CASE old = None
  <2>1. own1 = own
    BY <1>1, <1>4 DEF Holdings
  <2>2. k' = r.k /\ handle' = [handle EXCEPT ![u] = r.ret]
    BY <1>4 DEF Assigned, Out
  <2>3. /\ r.k.fd = IF r.ret = None THEN k.fd ELSE [k.fd EXCEPT ![r.ret] = r.k.fd[r.ret]]
        /\ r.ret # None => k.fd[r.ret] = None
    BY <1>1, KernelFields, Constants DEF MayCreate, Creates
  <2>4. OwnersOK(r.k.fd, [own EXCEPT ![u] = r.ret])
    BY <1>1, <1>2, <1>3, <2>1, <2>3
  <2> QED
    BY <1>2, <2>2, <2>4
<1>5. CASE old # None
  <2> DEFINE tab == [k.fd EXCEPT ![old] = None]
  <2>1. old \in Fds /\ k.fd[old] # None
    BY <1>1, <1>5, InvTables
  <2>2. r.k.fd[old] # None /\ r.ret # old
    BY <1>1, <2>1, AssignedTable
  <2>3. PICK s \in close(r.k, old) :
          \/ s.ec = "ok" /\ k' = s.k /\ handle' = [handle EXCEPT ![u] = r.ret]
          \/ /\ s.ec # "ok"
             /\ k' = IF r.ret = None THEN s.k ELSE Unlinked(s.k, r.ret)
             /\ handle' = [handle EXCEPT ![u] = None]
    BY <1>5 DEF Assigned
  <2>4. s.k \in Kernel /\ s.k.fd = [r.k.fd EXCEPT ![old] = None]
    <3>1. SameKernel(Unlinked(r.k, old), s.k)
      BY <1>2, <2>1, <2>2, CloseKernel
    <3>2. Unlinked(r.k, old).fd = [r.k.fd EXCEPT ![old] = None]
      BY <1>2, <2>1, <2>2, UnlinkedKernel
    <3> QED
      BY <3>1, <3>2 DEF SameKernel
  <2>5. tab \in Tables /\ OwnersOK(tab, own1)
    <3>1. OwnersOK([k.fd EXCEPT ![own[u]] = None], [own EXCEPT ![u] = None])
      BY <1>1, <2>1, OwnerCloses
    <3> QED
      BY <1>1, <3>1 DEF Tables
  <2>6. /\ s.k.fd = IF r.ret = None THEN tab ELSE [tab EXCEPT ![r.ret] = r.k.fd[r.ret]]
        /\ r.ret # None => tab[r.ret] = None
    <3>1. CASE Creates(k, r)
      <4>1. PICK d \in Fds : r.k.fd = [k.fd EXCEPT ![r.ret] = d]
        BY <3>1 DEF Creates
      <4>2. r.ret \in Fds /\ k.fd[r.ret] = None /\ r.ret # None
        BY <3>1, Constants DEF Creates
      <4>3. k.fd \in [Fds -> Fds \cup {None}]
        BY <1>1 DEF Tables
      <4>4. r.k.fd[r.ret] = d
        BY <4>1, <4>2, <4>3
      <4>5. [r.k.fd EXCEPT ![old] = None] = [tab EXCEPT ![r.ret] = d]
        BY <2>1, <2>2, <4>1, <4>2, <4>3
      <4>6. tab[r.ret] = None
        BY <2>1, <4>2, <4>3
      <4> QED
        BY <2>4, <4>2, <4>4, <4>5, <4>6
    <3>2. CASE r.ret = None /\ r.k.fd = k.fd
      BY <2>4, <3>2
    <3> QED
      BY <3>1, <3>2 DEF MayCreate
  <2> HIDE DEF tab, own1
  <2>7. CASE k' = s.k /\ handle' = [handle EXCEPT ![u] = r.ret]
    <3>1. OwnersOK(s.k.fd, [own EXCEPT ![u] = r.ret])
      BY <1>3, <2>4, <2>5, <2>6
    <3> QED
      BY <1>2, <2>4, <2>7, <3>1
  <2>8. CASE /\ k' = IF r.ret = None THEN s.k ELSE Unlinked(s.k, r.ret)
             /\ handle' = [handle EXCEPT ![u] = None]
    <3>1. CASE r.ret = None
      <4>1. k' = s.k /\ s.k.fd = tab
        BY <2>6, <2>8, <3>1
      <4> QED
        BY <2>4, <2>5, <2>8, <4>1 DEF own1
    <3>2. CASE r.ret # None
      <4>1. r.ret \in Fds /\ r.k.fd[r.ret] \in Fds /\ tab[r.ret] = None
        BY <1>1, <1>2, <2>6, <3>2, KernelFields DEF MayCreate, Creates
      <4>2. s.k.fd[r.ret] # None /\ s.k.fd = [tab EXCEPT ![r.ret] = r.k.fd[r.ret]]
        BY <2>5, <2>6, <3>2, <4>1, Constants DEF Tables
      <4>3. k' \in Kernel /\ k'.fd = [s.k.fd EXCEPT ![r.ret] = None]
        BY <2>4, <2>8, <3>2, <4>1, <4>2, UnlinkedKernel
      <4>4. k'.fd = tab
        BY <2>5, <4>1, <4>2, <4>3 DEF Tables
      <4> QED
        BY <2>5, <2>8, <4>3, <4>4 DEF own1
    <3> QED
      BY <3>1, <3>2
  <2> QED
    BY <2>3, <2>7, <2>8
<1> QED
  BY <1>1, <1>4, <1>5

LEMMA AssignedStep ==
  ASSUME Inv, NEW u \in Uniques, ~Lent(u), NEW r, MayCreate(k, r), Assigned(u, r),
         call' = [t \in Callers |-> Noticed(call[t], k')]
  PROVE  Inv'
<1>1. k' \in Kernel
  BY AssignedOwners
<1>2. PICK x \in Fds \cup {None} :
        /\ handle' = [handle EXCEPT ![u] = x]
        /\ OwnersOK(k'.fd, [OwnOf(handle, call) EXCEPT ![u] = x])
  BY AssignedOwners
<1> DEFINE h == [handle EXCEPT ![u] = x]
<1>3. u \in Objects /\ h \in [Objects -> Fds \cup {None}]
  BY InvTables DEF Objects
<1>4. OwnersOK(k'.fd, OwnOf(h, call))
  <2>1. OwnOf([handle EXCEPT ![u] = x], call) = [OwnOf(handle, call) EXCEPT ![u] = x]
    BY <1>3, InvTables, OwnExcept
  <2> QED
    BY <1>2, <2>1
<1>5. \A o \in Objects : Lent(o) => h[o] = handle[o]
  BY InvTables
<1>6. handle' = h
  BY <1>2
<1> HIDE DEF h
<1> QED
  BY <1>1, <1>3, <1>4, <1>5, <1>6, ProgramStep

\* asioext::open with any arguments the program uses.
LEMMA OpenArgsForm ==
  ASSUME NEW args \in OpenArgs
  PROVE  \E flags : \E attrs \in BOOLEAN : args = open_args(flags, attrs)
  BY DEF OpenArgs

LEMMA OpenMayCreate ==
  ASSUME NEW kk \in Kernel, NEW args \in OpenArgs, NEW r \in open(kk, args), r.ec # "again"
  PROVE  MayCreate(kk, r)
<1>1. PICK flags : \E attrs \in BOOLEAN : args = open_args(flags, attrs)
  BY OpenArgsForm
<1>2. PICK attrs \in BOOLEAN : args = open_args(flags, attrs)
  BY <1>1
<1> QED
  BY <1>2, OpenOutcome DEF MayCreate

LEMMA DupStep ==
  ASSUME Inv, NEW u \in Uniques, NEW o \in Objects, Dup(u, o)
  PROVE  Inv'
<1>1. PICK r \in duplicate(k, handle[o]) : Assigned(u, r)
  BY DEF Dup
<1>2. MayCreate(k, r)
  BY InvTables, DuplicateOutcome DEF MayCreate
<1> QED
  BY <1>1, <1>2, AssignedStep DEF Dup

LEMMA OpenUniqueStep ==
  ASSUME Inv, NEW u \in Uniques, NEW args \in OpenArgs, OpenUnique(u, args)
  PROVE  Inv'
<1>1. PICK r \in open(k, args) : r.ec # "again" /\ Assigned(u, r)
  BY DEF OpenUnique
<1>2. MayCreate(k, r)
  BY <1>1, InvTables, OpenMayCreate
<1> QED
  BY <1>1, <1>2, AssignedStep DEF OpenUnique

LEMMA OpenFileStep ==
  ASSUME Inv, NEW f \in Files, NEW args \in OpenArgs, OpenFile(f, args)
  PROVE  Inv'
<1> DEFINE own == OwnOf(handle, call)
<1>1. PICK r \in open(k, args) :
        /\ r.ec # "again" /\ k' = r.k
        /\ handle' = [handle EXCEPT ![f] = r.ret]
        /\ call' = [t \in Callers |-> Noticed(call[t], r.k)]
  BY DEF OpenFile
<1>2. MayCreate(k, r)
  BY <1>1, InvTables, OpenMayCreate
<1>3. /\ own \in Holdings /\ OwnersOK(k.fd, own) /\ k \in Kernel /\ k.fd \in Tables
      /\ f \in Owners /\ f \in Objects /\ own[f] = None /\ handle[f] = None
  BY InvTables DEF Owners, Objects, OpenFile
<1>4. OwnersOK(r.k.fd, [own EXCEPT ![f] = r.ret])
  <2>1. CASE Creates(k, r)
    BY <1>3, <2>1, OwnerOpens DEF Creates
  <2>2. CASE r.ret = None /\ r.k.fd = k.fd
    <3>1. [own EXCEPT ![f] = r.ret] = own
      BY <1>3, <2>2 DEF Holdings
    <3> QED
      BY <1>3, <2>2, <3>1
  <2> QED
    BY <1>2, <2>1, <2>2 DEF MayCreate
<1> DEFINE h == [handle EXCEPT ![f] = r.ret]
<1>5. r.ret \in Fds \cup {None} /\ r.k \in Kernel
  BY <1>2 DEF MayCreate, Creates
<1>6. h \in [Objects -> Fds \cup {None}] /\ \A o \in Objects : Lent(o) => h[o] = handle[o]
  BY <1>5, InvTables DEF OpenFile
<1>7. OwnersOK(r.k.fd, OwnOf(h, call))
  <2> DEFINE x == r.ret
  <2>1. OwnOf([handle EXCEPT ![f] = x], call) = [OwnOf(handle, call) EXCEPT ![f] = x]
    <3>1. handle \in [Objects -> Fds \cup {None}] /\ f \in Objects
      BY <1>3, InvTables
    <3> HIDE DEF x
    <3> QED
      BY <3>1, OwnExcept
  <2> QED
    BY <1>4, <2>1
<1>8. handle' = h
  BY <1>1
<1> HIDE DEF h
<1> QED
  BY <1>1, <1>5, <1>6, <1>7, <1>8, ProgramStep

\* o's descriptor, if it has one, is closed and p's moves into o.
LEMMA MoveInto ==
  ASSUME Inv, NEW o \in Objects, NEW p \in Objects, ~Lent(o), ~Lent(p), o # p,
         NEW s \in handle_close(handle[o]), k' = s.k,
         handle' = [handle EXCEPT ![o] = handle[p], ![p] = None],
         call' = [t \in Callers |-> Noticed(call[t], s.k)]
  PROVE  Inv'
<1> DEFINE h1 == [handle EXCEPT ![o] = None]
           h2 == [h1 EXCEPT ![o] = h1[p], ![p] = None]
           own1 == OwnOf(h1, call)
<1>1. s.k \in Kernel /\ OwnersOK(s.k.fd, own1)
  BY HandleClose
<1>2. handle \in [Objects -> Fds \cup {None}] /\ TypeOK
  BY DEF Inv, TypeOK
<1>3. h1 \in [Objects -> Fds \cup {None}] /\ h1[o] = None /\ h1[p] = handle[p]
  BY <1>2
<1>4. h2 = [handle EXCEPT ![o] = handle[p], ![p] = None]
  BY <1>2, <1>3
<1>5. own1 \in Holdings
  BY <1>2, <1>3, OwnType
<1>6. o \in Owners /\ p \in Owners /\ own1[o] = None /\ own1[p] = h1[p]
  BY <1>3, ObjectsAssumption DEF Owners, OwnOf
<1>7. s.k.fd \in Tables
  BY <1>1, KernelFields DEF Tables
<1> HIDE DEF own1
<1>8. OwnersOK(s.k.fd, [own1 EXCEPT ![o] = own1[p], ![p] = None])
  BY <1>1, <1>5, <1>6, <1>7, OwnerMoves
<1>9. [own1 EXCEPT ![o] = own1[p], ![p] = None] = OwnOf(h2, call)
  <2> DEFINE x == h1[p]
             h3 == [h1 EXCEPT ![o] = x]
  <2>1. OwnOf([h1 EXCEPT ![o] = x], call) = [OwnOf(h1, call) EXCEPT ![o] = x]
    <3>1. h1 \in [Objects -> Fds \cup {None}]
      BY <1>3
    <3> HIDE DEF h1, x
    <3> QED
      BY <3>1, OwnExcept
  <2>2. [h1 EXCEPT ![o] = h1[p]] \in [Objects -> Fds \cup {None}]
    BY <1>3
  <2>3. OwnOf([h3 EXCEPT ![p] = None], call) = [OwnOf(h3, call) EXCEPT ![p] = None]
    <3> HIDE DEF h3
    <3> DEFINE n == None
    <3>1. h3 \in [Objects -> Fds \cup {n}]
      BY <2>2 DEF h3
    <3> HIDE DEF n
    <3> QED
      BY <3>1, OwnExcept DEF n
  <2> QED
    BY <1>6, <2>1, <2>3 DEF own1
<1>10. h2 \in [Objects -> Fds \cup {None}] /\ \A q \in Objects : Lent(q) => h2[q] = handle[q]
  BY <1>2, <1>3
<1> HIDE DEF h2, h1
<1> QED
  BY <1>1, <1>4, <1>8, <1>9, <1>10, ProgramStep

\* What a close that failed, or a move to itself, leaves.
LEMMA Emptied ==
  ASSUME Inv, NEW o \in Objects, ~Lent(o), NEW s \in handle_close(handle[o]), k' = s.k,
         handle' = [handle EXCEPT ![o] = None],
         call' = [t \in Callers |-> Noticed(call[t], s.k)]
  PROVE  Inv'
<1> DEFINE h == [handle EXCEPT ![o] = None]
<1>1. s.k \in Kernel /\ OwnersOK(s.k.fd, OwnOf(h, call))
  BY HandleClose
<1>2. h \in [Objects -> Fds \cup {None}] /\ \A p \in Objects : Lent(p) => h[p] = handle[p]
  BY InvTables
<1>3. handle' = h
  OBVIOUS
<1> HIDE DEF h
<1> QED
  BY <1>1, <1>2, <1>3, ProgramStep

LEMMA MoveStep ==
  ASSUME Inv, NEW u \in Uniques, NEW v \in Uniques, move(u, v)
  PROVE  Inv'
<1>1. PICK s \in handle_close(handle[u]) :
       /\ k' = s.k
       /\ handle' = IF s.ec # "ok" THEN [handle EXCEPT ![u] = None]
                    ELSE [handle EXCEPT ![u] = IF u = v THEN None ELSE handle[v],
                                        ![v] = None]
       /\ call' = [t \in Callers |-> Noticed(call[t], s.k)]
  BY DEF move, unique_close
<1>2. u \in Objects /\ v \in Objects /\ ~Lent(u) /\ ~Lent(v)
  BY DEF Objects, move
<1>3. CASE s.ec # "ok"
  <2>1. handle' = [handle EXCEPT ![u] = None]
    BY <1>1, <1>3
  <2> QED
    BY <1>1, <1>2, <2>1, Emptied
<1>4. CASE s.ec = "ok" /\ u = v
  <2>1. handle' = [handle EXCEPT ![u] = None]
    BY <1>1, <1>4, InvTables
  <2> QED
    BY <1>1, <1>2, <2>1, Emptied
<1>5. CASE s.ec = "ok" /\ u # v
  <2>1. handle' = [handle EXCEPT ![u] = handle[v], ![v] = None]
    BY <1>1, <1>5
  <2> QED
    BY <1>1, <1>2, <1>5, <2>1, MoveInto
<1> QED
  BY <1>3, <1>4, <1>5

LEMMA ReleaseStep ==
  ASSUME Inv, NEW u \in Uniques, NEW h \in Raws, release(u, h)
  PROVE  Inv'
<1>1. u \in Objects /\ h \in Objects /\ u # h
  BY ObjectsAssumption DEF Objects
<1>2. ~Lent(u) /\ ~Lent(h) /\ handle[h] = None
  BY <1>1, NotLent DEF release
<1>3. k' = k /\ call' = call /\ handle' = [handle EXCEPT ![u] = None, ![h] = handle[u]]
  BY DEF release
<1>4. Out(k, "ok", 0) \in handle_close(handle[h]) /\ Out(k, "ok", 0).k = k
  BY <1>2 DEF handle_close, Out
<1>5. call' = [t \in Callers |-> Noticed(call[t], Out(k, "ok", 0).k)]
  BY <1>3, <1>4, SameCalls
<1>6. handle' = [handle EXCEPT ![h] = handle[u], ![u] = None]
  BY <1>1, <1>3, InvTables
<1> QED
  BY <1>1, <1>2, <1>3, <1>4, <1>5, <1>6, MoveInto

LEMMA ResetStep ==
  ASSUME Inv, NEW u \in Uniques, NEW h \in Raws, reset(u, h)
  PROVE  Inv'
<1>1. u \in Objects /\ h \in Objects /\ u # h /\ ~Lent(u) /\ ~Lent(h)
  BY ObjectsAssumption DEF Objects, reset
<1>2. PICK s \in handle_close(handle[u]) :
       /\ k' = s.k
       /\ handle' = IF s.ec = "ok" THEN [handle EXCEPT ![u] = handle[h], ![h] = None]
                    ELSE [handle EXCEPT ![u] = None]
       /\ call' = [t \in Callers |-> Noticed(call[t], s.k)]
  BY DEF reset, unique_close
<1>3. CASE s.ec = "ok"
  BY <1>1, <1>2, <1>3, MoveInto
<1>4. CASE s.ec # "ok"
  BY <1>1, <1>2, <1>4, Emptied
<1> QED
  BY <1>3, <1>4

LEMMA AssignStep ==
  ASSUME Inv, NEW f \in Files, NEW h \in Raws, assign(f, h)
  PROVE  Inv'
<1>1. f \in Objects /\ h \in Objects /\ f # h
  BY ObjectsAssumption DEF Objects
<1>2. ~Lent(f) /\ ~Lent(h) /\ handle[f] = None
  BY <1>1, NotLent DEF assign
<1>3. k' = k /\ call' = call /\ handle' = [handle EXCEPT ![f] = handle[h], ![h] = None]
  BY DEF assign
<1>4. Out(k, "ok", 0) \in handle_close(handle[f]) /\ Out(k, "ok", 0).k = k
  BY <1>2 DEF handle_close, Out
<1>5. call' = [t \in Callers |-> Noticed(call[t], Out(k, "ok", 0).k)]
  BY <1>3, <1>4, SameCalls
<1> QED
  BY <1>1, <1>2, <1>3, <1>4, <1>5, MoveInto

LEMMA ProgramInv ==
  ASSUME Inv, Program
  PROVE  Inv'
  BY PositionStep, TransferStep, CloseStep, DupStep, OpenUniqueStep, OpenFileStep, MoveStep,
     ReleaseStep, ResetStep, AssignStep DEF Program

-----------------------------------------------------------------------------
(* The callers.                                                             *)

Errors == {"ok", "EIO", "eof", "EBADF", "EMFILE", "ENOENT", "ENOSPC", "message_size"}

LEMMA NoBytes == <<>> \in BoundedSeq({Hole, 1}, SizeMax) /\ Ones(0) = <<>> /\ Len(<<>>) = 0
<1>1. <<>> \in Seq({Hole, 1}) /\ Len(<<>>) = 0 /\ Len(<<>>) <= SizeMax
  BY Constants
<1>2. <<>> \in BoundedSeq({Hole, 1}, SizeMax)
  <2> DEFINE e == <<>>
             S == {Hole, 1}
  <2>1. e \in Seq(S) /\ Len(e) <= SizeMax /\ SizeMax \in Nat
    BY <1>1, Constants
  <2> HIDE DEF e, S
  <2>2. e \in BoundedSeq(S, SizeMax)
    BY <2>1, BoundedSeqs
  <2> QED
    BY <2>2 DEF e, S
<1>3. Ones(0) \in [1 .. 0 -> {Hole, 1}]
  BY DEF Ones
<1>4. Ones(0) \in Seq({Hole, 1}) /\ Len(Ones(0)) = 0
  BY <1>3, BytesOf
<1>5. Ones(0) = <<>>
  BY <1>4, EmptySeq
<1> QED
  BY <1>1, <1>2, <1>5

LEMMA IdleCall ==
  /\ Idle \in Call /\ Idle.op = "none" /\ Idle.pc = "idle" /\ Idle.fd = None
  /\ Idle.from = None /\ Idle.want = 0 /\ Idle.bytes = <<>> /\ Idle.ec = "ok"
  BY NoBytes, Constants DEF Idle, Call

LEMMA ByNameCall ==
  /\ ByName \in Call /\ ByName.op = "read_file" /\ ByName.pc = "open" /\ ByName.fd = None
  /\ ByName.from = None /\ ByName.want = 0 /\ ByName.bytes = <<>>
<1>1. ByName = [Idle EXCEPT !.op = "read_file", !.pc = "open"]
  BY DEF ByName
<1> QED
  BY <1>1, IdleCall DEF Call

\* A caller that has no descriptor of its own begins or returns.
LEMMA BeginStep ==
  ASSUME Inv, NEW t \in Callers, call[t].fd = None, NEW c \in Call, CallOK(c), c.fd = None,
         c.from # None => handle[c.from] # None,
         Exact(k, UsedBy(handle, c), c),
         k' = k, handle' = handle, call' = [call EXCEPT ![t] = c]
  PROVE  Inv'
<1> DEFINE own == OwnOf(handle, call)
<1>1. \A u \in Callers : Noticed(call[u], k) = call[u]
  BY DEF Noticed
<1>2. call' = [u \in Callers |-> IF u # t THEN Noticed(call[u], k') ELSE c]
  BY <1>1 DEF Inv, TypeOK
<1>3. [own EXCEPT ![t] = c.fd] = own
  <2>1. t \in Owners /\ own[t] = c.fd /\ own \in Holdings
    BY InvTables DEF OwnOf, Owners
  <2> QED
    BY <2>1 DEF Holdings
<1>4. k' \in Kernel /\ OwnersOK(k'.fd, [own EXCEPT ![t] = c.fd])
  BY <1>3, InvTables
<1> QED
  BY <1>2, <1>4, CallerStep

LEMMA BeginCall ==
  ASSUME Inv, NEW t \in Callers,
         \/ read_file(t) \/ read_file_buffers(t) \/ read_file_handle(t)
         \/ read_file_handle_buffers(t) \/ write_file(t)
  PROVE  Inv'
<1>1. ASSUME NEW c \in Call, CallOK(c), c.fd = None, c.from # None => handle[c.from] # None,
             Exact(k, UsedBy(handle, c), c), Begin(t, c)
      PROVE  Inv'
  <2>1. call[t].pc = "idle" /\ CallOK(call[t])
    BY <1>1 DEF Begin, Inv
  <2>2. call[t].fd = None
    BY <2>1 DEF CallOK
  <2> QED
    BY <1>1, <2>2, BeginStep DEF Begin
<1>2. ASSUME NEW c \in Call, c.pc = "open", c.fd = None, c.from = None, c.bytes = <<>>,
             c.op # "none", c.op = "read_file" <=> c.want = 0, Begin(t, c)
      PROVE  Inv'
  <2>1. CallOK(c) /\ Exact(k, UsedBy(handle, c), c)
    BY <1>2 DEF CallOK, Exact
  <2> QED
    BY <1>1, <1>2, <2>1
<1>3. CASE read_file(t)
  BY <1>2, <1>3, ByNameCall DEF read_file
<1>4. CASE read_file_buffers(t)
  <2> DEFINE c == [ByName EXCEPT !.op = "read_buffers", !.want = 1]
  <2>1. 1 \in 0 .. SizeMax
    BY Constants
  <2>2. /\ c \in Call /\ c.pc = "open" /\ c.fd = None /\ c.from = None /\ c.bytes = <<>>
        /\ c.op = "read_buffers" /\ c.want = 1
    BY <2>1, ByNameCall DEF Call
  <2>3. Begin(t, c)
    BY <1>4 DEF read_file_buffers
  <2> HIDE DEF c
  <2> QED
    BY <1>2, <2>2, <2>3
<1>5. CASE write_file(t)
  <2>1. PICK n \in 1 .. SizeMax : Begin(t, [ByName EXCEPT !.op = "write_file", !.want = n])
    BY <1>5 DEF write_file
  <2> DEFINE c == [ByName EXCEPT !.op = "write_file", !.want = n]
  <2>2. n \in 0 .. SizeMax /\ n # 0
    BY Constants
  <2>3. /\ c \in Call /\ c.pc = "open" /\ c.fd = None /\ c.from = None /\ c.bytes = <<>>
        /\ c.op = "write_file" /\ c.want # 0
    BY <2>2, ByNameCall DEF Call
  <2>4. Begin(t, c)
    BY <2>1
  <2> HIDE DEF c
  <2> QED
    BY <1>2, <2>3, <2>4
<1>6. CASE read_file_handle(t)
  <2>1. PICK o \in Uniques : AtStart(o) /\ Begin(t, [ByName EXCEPT !.pc = "size", !.from = o])
    BY <1>6 DEF read_file_handle
  <2> DEFINE c == [ByName EXCEPT !.pc = "size", !.from = o]
  <2>2. Begin(t, c)
    BY <2>1
  <2>3. o \in Objects /\ o # None /\ handle[o] # None /\ PosOf(k, handle[o]) = 0
    BY <2>1, ObjectsAssumption DEF Objects, AtStart, PosOf
  <2>4. c \in Call
    BY <2>3, ByNameCall DEF Call
  <2>5. /\ c.fd = None /\ c.from = o /\ c.pc = "size" /\ c.op = "read_file" /\ c.want = 0
        /\ c.bytes = <<>>
    BY ByNameCall DEF Call
  <2> HIDE DEF c
  <2>6. CallOK(c)
    BY <2>3, <2>5 DEF CallOK
  <2>7. Exact(k, UsedBy(handle, c), c)
    BY <2>3, <2>5 DEF Exact, UsedBy
  <2> QED
    BY <1>1, <2>1, <2>2, <2>3, <2>4, <2>5, <2>6, <2>7
<1>7. CASE read_file_handle_buffers(t)
  <2>1. PICK o \in Raws : AtStart(o) /\ Begin(t, [ByName EXCEPT !.op = "read_buffers",
                            !.pc = "read", !.from = o, !.want = SizeMax])
    BY <1>7 DEF read_file_handle_buffers
  <2> DEFINE c == [ByName EXCEPT !.op = "read_buffers", !.pc = "read", !.from = o,
                                 !.want = SizeMax]
  <2>2. Begin(t, c)
    BY <2>1
  <2>3. o \in Objects /\ o # None /\ handle[o] # None /\ PosOf(k, handle[o]) = 0
    BY <2>1, ObjectsAssumption DEF Objects, AtStart, PosOf
  <2>0. SizeMax \in 0 .. SizeMax
    BY Constants
  <2>4. c \in Call
    BY <2>0, <2>3, ByNameCall DEF Call
  <2>5. /\ c.fd = None /\ c.from = o /\ c.pc = "read" /\ c.op = "read_buffers"
        /\ c.want = SizeMax /\ c.bytes = <<>> /\ Len(c.bytes) = 0
    BY NoBytes, ByNameCall DEF Call
  <2> HIDE DEF c
  <2>6. CallOK(c)
    BY <2>3, <2>5, Constants DEF CallOK
  <2>7. Len(k.data) \in Nat
    BY InvTables, KernelFields
  <2>8. Starts(c.bytes, k.data)
    BY <2>5, <2>7 DEF Starts
  <2>9. Exact(k, UsedBy(handle, c), c)
    BY <2>3, <2>5, <2>8 DEF Exact, UsedBy
  <2> QED
    BY <1>1, <2>1, <2>2, <2>3, <2>4, <2>5, <2>6, <2>9
<1> QED
  BY <1>3, <1>4, <1>5, <1>6, <1>7

LEMMA ReturnStep ==
  ASSUME Inv, NEW t \in Callers, Return(t)
  PROVE  Inv'
<1>1. call[t].pc = "done" /\ CallOK(call[t])
  BY DEF Return, Inv
<1>2. call[t].fd = None
  BY <1>1 DEF CallOK
<1>5. CallOK(Idle) /\ Idle.fd = None /\ Idle.from = None /\ Exact(k, UsedBy(handle, Idle), Idle)
  BY IdleCall DEF CallOK, Exact
<1> QED
  BY <1>2, <1>5, IdleCall, BeginStep DEF Return

\* The holdings while t keeps what it has.
LEMMA OwnKept ==
  ASSUME Inv, NEW t \in Callers
  PROVE  /\ [OwnOf(handle, call) EXCEPT ![t] = call[t].fd] = OwnOf(handle, call)
         /\ OwnersOK(k.fd, [OwnOf(handle, call) EXCEPT ![t] = call[t].fd])
         /\ OwnOf(handle, call)[t] = call[t].fd /\ t \in Owners
         /\ call[t] \in Call /\ CallOK(call[t])
         /\ Exact(k, UsedBy(handle, call[t]), call[t])
         /\ call[t].from # None => handle[call[t].from] # None
<1> DEFINE own == OwnOf(handle, call)
<1>1. t \in Owners /\ own[t] = call[t].fd /\ own \in Holdings /\ OwnersOK(k.fd, own)
  BY InvTables DEF OwnOf, Owners
<1>2. [own EXCEPT ![t] = call[t].fd] = own
  BY <1>1 DEF Holdings
<1>3. /\ call[t] \in Call /\ CallOK(call[t]) /\ Exact(k, UsedBy(handle, call[t]), call[t])
      /\ call[t].from # None => handle[call[t].from] # None
  BY DEF Inv, TypeOK, Lending
<1> HIDE DEF own
<1>4. OwnersOK(k.fd, [own EXCEPT ![t] = call[t].fd])
  BY <1>1, <1>2
<1> QED
  BY <1>1, <1>2, <1>3, <1>4 DEF own

\* Exact looks at the table, the positions and the data only.
LEMMA ExactSame ==
  ASSUME NEW kk, NEW nn, nn.fd = kk.fd, nn.desc = kk.desc, nn.data = kk.data, NEW u, NEW c,
         Exact(kk, u, c)
  PROVE  Exact(nn, u, c)
  BY DEF Exact, PosOf

\* A system call that was interrupted is made again.
LEMMA AgainStep ==
  ASSUME Inv, NEW t \in Callers, SameKernel(k, k'), handle' = handle,
         call' = [u \in Callers |-> IF u # t THEN Noticed(call[u], k') ELSE call[t]]
  PROVE  Inv'
<1>1. k' \in Kernel /\ k'.fd = k.fd /\ k'.desc = k.desc /\ k'.data = k.data
  BY DEF SameKernel
<1>2. Exact(k', UsedBy(handle, call[t]), call[t])
  BY <1>1, OwnKept, ExactSame
<1>3. OwnersOK(k'.fd, [OwnOf(handle, call) EXCEPT ![t] = call[t].fd])
  BY <1>1, OwnKept
<1> QED
  BY <1>1, <1>2, <1>3, OwnKept, CallerStep

\* What a call that reports success has done to the file.
Complete(kk, c) ==
  IF c.op = "write_file" THEN kk.data = Ones(c.want)
  ELSE Starts(c.bytes, kk.data) /\ (c.op = "read_file" => c.want = Len(kk.data))

LEMMA EndedCall ==
  ASSUME NEW kk, NEW u, NEW c \in Call, NEW ec \in Errors,
         ec = "ok" => Len(c.bytes) = c.want /\ (c.alone => Complete(kk, c))
  PROVE  /\ Ended(c, ec) \in Call /\ CallOK(Ended(c, ec)) /\ Exact(kk, u, Ended(c, ec))
         /\ Ended(c, ec).fd = None /\ Ended(c, ec).from = None
<1>1. CASE ec = "ok"
  <2> DEFINE e == [c EXCEPT !.pc = "done", !.fd = None, !.from = None]
  <2>1. Ended(c, ec) = e
    BY <1>1 DEF Ended
  <2>2. e \in Call
    BY DEF Call
  <2>3. /\ e.pc = "done" /\ e.fd = None /\ e.from = None /\ e.op = c.op /\ e.want = c.want
        /\ e.bytes = c.bytes /\ e.alone = c.alone
    BY DEF Call
  <2> HIDE DEF e
  <2>4. CallOK(e)
    BY <1>1, <2>3 DEF CallOK
  <2>5. Exact(kk, u, e)
    BY <1>1, <2>3 DEF Exact, Complete
  <2> QED
    BY <2>1, <2>2, <2>3, <2>4, <2>5
<1>2. CASE ec # "ok"
  <2> DEFINE e == [Idle EXCEPT !.pc = "done", !.ec = ec]
  <2>1. Ended(c, ec) = e
    BY <1>2 DEF Ended
  <2>4. e \in Call
    <3> DEFINE i == Idle
    <3>1. i \in Call
      BY IdleCall
    <3>2. e = [i EXCEPT !.pc = "done", !.ec = ec]
      OBVIOUS
    <3> HIDE DEF i, e
    <3> QED
      BY <3>1, <3>2 DEF Call, Errors
  <2>5. e.pc = "done" /\ e.fd = None /\ e.from = None /\ e.ec = ec
    BY IdleCall DEF Call
  <2> HIDE DEF e
  <2>6. CallOK(e) /\ Exact(kk, u, e)
    BY <1>2, <2>5 DEF CallOK, Exact
  <2> QED
    BY <2>1, <2>4, <2>5, <2>6
<1> QED
  BY <1>1, <1>2

\* The reading or writing is over: the call closes its descriptor, if it is its own.
LEMMA FinishStep ==
  ASSUME Inv, NEW t \in Callers, NEW c \in Call,
         c.fd = call[t].fd, c.from = call[t].from, (c.fd = None) = (c.from # None),
         NEW ec \in Errors,
         ec = "ok" => Len(c.bytes) = c.want /\ (c.alone => Complete(k', c)),
         k' \in Kernel, k'.fd = k.fd, handle' = handle,
         call' = [u \in Callers |-> IF u # t THEN Noticed(call[u], k') ELSE Finish(c, ec)]
  PROVE  Inv'
<1>1. OwnersOK(k'.fd, [OwnOf(handle, call) EXCEPT ![t] = c.fd])
  BY OwnKept
<1>2. CASE c.fd = None
  <2> DEFINE e == Ended(c, ec)
  <2>1. Finish(c, ec) = e
    BY <1>2 DEF Finish
  <2>2. e \in Call /\ CallOK(e) /\ Exact(k', UsedBy(handle, e), e) /\ e.fd = None /\ e.from = None
    BY EndedCall
  <2> HIDE DEF e
  <2>3. OwnersOK(k'.fd, [OwnOf(handle, call) EXCEPT ![t] = e.fd])
    BY <1>1, <1>2, <2>2
  <2> QED
    BY <2>1, <2>2, <2>3, CallerStep
<1>3. CASE c.fd # None
  <2> DEFINE e == [c EXCEPT !.ec = ec, !.pc = "close"]
  <2>1. Finish(c, ec) = e
    BY <1>3 DEF Finish
  <2>2. e \in Call
    BY DEF Call, Errors
  <2>3. /\ e.pc = "close" /\ e.fd = c.fd /\ e.from = c.from /\ e.op = c.op /\ e.want = c.want
        /\ e.bytes = c.bytes /\ e.alone = c.alone /\ e.ec = ec
    BY DEF Call
  <2> HIDE DEF e
  <2>4. CallOK(e)
    BY <1>3, <2>3 DEF CallOK
  <2>5. Exact(k', UsedBy(handle, e), e)
    BY <2>3 DEF Exact, Complete
  <2>6. OwnersOK(k'.fd, [OwnOf(handle, call) EXCEPT ![t] = e.fd]) /\ e.from = None
    BY <1>1, <1>3, <2>3
  <2> QED
    BY <2>1, <2>2, <2>4, <2>5, <2>6, CallerStep
<1> QED
  BY <1>2, <1>3

\* asio::read and asio::write go on, or are done.
LEMMA ProgressStep ==
  ASSUME Inv, NEW t \in Callers, call[t].pc \in {"read", "write"}, NEW bytes \in Seq({Hole, 1}),
         Len(call[t].bytes) + Len(bytes) <= call[t].want,
         k' \in Kernel, k'.fd = k.fd, handle' = handle,
         call[t].alone =>
           /\ PosOf(k', UsedBy(handle, call[t])) = Len(call[t].bytes) + Len(bytes)
           /\ call[t].pc = "read" =>
                /\ Starts(call[t].bytes \o bytes, k'.data)
                /\ call[t].op = "read_file" => call[t].want = Len(k'.data)
           /\ call[t].pc = "write" => k'.data = Ones(Len(call[t].bytes) + Len(bytes)),
         call' = [u \in Callers |-> IF u # t THEN Noticed(call[u], k') ELSE Progress(call[t], bytes)]
  PROVE  Inv'
<1> DEFINE c == call[t]
           b == c.bytes \o (IF c.alone THEN bytes ELSE Blurred(bytes))
           e == [c EXCEPT !.bytes = b]
<1>1. /\ c \in Call /\ CallOK(c) /\ c.bytes \in Seq({Hole, 1}) /\ c.want \in 0 .. SizeMax
      /\ Len(c.bytes) \in Nat /\ Len(bytes) \in Nat
  BY OwnKept, CallFields, LenProperties
<1>2. /\ b \in Seq({Hole, 1}) /\ Len(b) = Len(c.bytes) + Len(bytes)
      /\ c.alone => b = c.bytes \o bytes
  <2> DEFINE x == IF c.alone THEN bytes ELSE Blurred(bytes)
  <2>1. x \in Seq({Hole, 1}) /\ Len(x) = Len(bytes)
    BY BlurredBytes
  <2>2. c.alone => x = bytes
    OBVIOUS
  <2> HIDE DEF x
  <2> DEFINE a == c.bytes
  <2>3. a \o x \in Seq({Hole, 1}) /\ Len(a \o x) = Len(a) + Len(x)
    <3>1. a \in Seq({Hole, 1})
      BY <1>1
    <3> HIDE DEF a
    <3> QED
      BY <2>1, <3>1, ConcatProperties
  <2> QED
    BY <2>1, <2>2, <2>3 DEF x
<1>3. b \in BoundedSeq({Hole, 1}, SizeMax) /\ Len(b) <= c.want
  <2> HIDE DEF b
  <2>1. Len(b) <= c.want /\ Len(b) <= SizeMax
    BY <1>1, <1>2, Constants
  <2> QED
    BY <1>2, <2>1, BoundedSeqs, Constants
<1> HIDE DEF b
<1>4. /\ e \in Call /\ e.bytes = b /\ e.pc = c.pc /\ e.fd = c.fd /\ e.from = c.from
      /\ e.op = c.op /\ e.want = c.want /\ e.alone = c.alone
  BY <1>1, <1>3 DEF Call
<1>5. Progress(c, bytes) = IF Len(b) = c.want THEN Finish(e, "ok") ELSE e
  BY DEF Progress, b
<1> HIDE DEF e
<1>6. (c.fd = None) = (c.from # None)
  BY <1>1 DEF CallOK
<1>7. CASE Len(b) = c.want
  <2>1. e.alone => Complete(k', e)
    <3>1. CASE c.pc = "read"
      <4>1. e.op # "write_file"
        BY <1>1, <1>4, <3>1 DEF CallOK
      <4> QED
        BY <1>2, <1>4, <1>7, <3>1, <4>1 DEF Complete
    <3>2. CASE c.pc = "write"
      <4>1. e.op = "write_file"
        BY <1>1, <1>4, <3>2 DEF CallOK
      <4> QED
        BY <1>2, <1>4, <1>7, <3>2, <4>1 DEF Complete
    <3> QED
      BY <3>1, <3>2
  <2>2. "ok" \in Errors /\ Progress(c, bytes) = Finish(e, "ok")
    BY <1>5, <1>7 DEF Errors
  <2>3. call' = [u \in Callers |-> IF u # t THEN Noticed(call[u], k') ELSE Finish(e, "ok")]
    BY <2>2
  <2> QED
    BY <1>4, <1>6, <1>7, <2>1, <2>2, <2>3, FinishStep
<1>8. CASE Len(b) # c.want
  <2>1. Progress(c, bytes) = e
    BY <1>5, <1>8
  <2>2. CallOK(e)
    BY <1>1, <1>3, <1>4 DEF CallOK
  <2>3. UsedBy(handle, e) = UsedBy(handle, c)
    BY <1>4 DEF UsedBy
  <2>4. Exact(k', UsedBy(handle, e), e)
    BY <1>2, <1>4, <2>3 DEF Exact
  <2>5. OwnersOK(k'.fd, [OwnOf(handle, call) EXCEPT ![t] = e.fd])
    BY <1>4, OwnKept
  <2>6. call' = [u \in Callers |-> IF u # t THEN Noticed(call[u], k') ELSE e]
    BY <2>1
  <2>7. e.from # None => handle[e.from] # None
    BY <1>4, OwnKept
  <2> QED
    BY <1>4, <2>2, <2>4, <2>5, <2>6, <2>7, CallerStep
<1> QED
  BY <1>7, <1>8

\* The flags read_file and write_file open with are valid, and open fails with them
\* for want of a file or of a descriptor only.
LEMMA CallOpens ==
  ASSUME NEW kk \in Kernel, NEW c, NEW r \in open(kk, open_args(CallFlags(c), FALSE))
  PROVE  /\ r.ec \in {"ok", "again", "ENOENT", "EMFILE"}
         /\ c.op = "write_file" => /\ "O_TRUNC" \in parse_open_flags(CallFlags(c)).native
                                   /\ "access_write" \in parse_open_flags(CallFlags(c)).access
<1> DEFINE flags == CallFlags(c)
           args == open_args(flags, FALSE)
           p == parse_open_flags(flags)
<1>1. \/ flags = {"access_write", "create_always"} /\ c.op = "write_file"
      \/ flags = {"access_read", "open_existing"} /\ c.op # "write_file"
  BY DEF CallFlags
<1>2. is_valid(flags)
  <2>1. \E x : flags \cap CreationFlags = {x}
    BY <1>1 DEF CreationFlags
  <2>2. Cardinality(flags \cap CreationFlags) = 1
    BY <2>1, FS_Singleton
  <2> QED
    BY <2>2 DEF is_valid
<1>0. r \in open(kk, args)
  OBVIOUS
<1>3. CASE flags = {"access_write", "create_always"} /\ c.op = "write_file"
  <2>1. p.native = {"O_CREAT", "O_TRUNC"} /\ "access_write" \in p.access
    BY <1>3 DEF parse_open_flags, Access
  <2> HIDE DEF p, flags
  <2>2. args.valid /\ args.flags = p /\ args.attrs = FALSE
    BY <1>2 DEF open_args, p
  <2> HIDE DEF args
  <2>3. r \in {Out(kk, "EMFILE", None)} \cup {Out(n, "ok", LeastOf(FreeFds(kk))) : n \in Opened(kk, p)}
               \cup interrupted(kk)
    BY <1>0, <2>1, <2>2 DEF open
  <2>4. r.ec \in {"ok", "again", "EMFILE"}
    <3>1. ASSUME NEW q \in interrupted(kk) PROVE q.ec = "again"
      BY FailedCall
    <3>2. \A n : Out(n, "ok", LeastOf(FreeFds(kk))).ec = "ok"
      BY DEF Out
    <3>3. Out(kk, "EMFILE", None).ec = "EMFILE"
      BY DEF Out
    <3> QED
      BY <2>3, <3>1, <3>2, <3>3
  <2> QED
    BY <2>1, <2>4 DEF p, flags
<1>4. CASE flags = {"access_read", "open_existing"} /\ c.op # "write_file"
  <2>1. p.native = {}
    BY <1>4 DEF parse_open_flags
  <2> HIDE DEF p, flags
  <2>2. args.valid /\ args.flags = p /\ args.attrs = FALSE
    BY <1>2 DEF open_args, p
  <2> HIDE DEF args
  <2>3. r \in {Out(kk, "ENOENT", None), Out(kk, "EMFILE", None)}
               \cup {Out(n, "ok", LeastOf(FreeFds(kk))) : n \in Opened(kk, p)} \cup interrupted(kk)
    BY <1>0, <2>1, <2>2 DEF open
  <2>4. r.ec \in {"ok", "again", "ENOENT", "EMFILE"}
    <3>1. ASSUME NEW q \in interrupted(kk) PROVE q.ec = "again"
      BY FailedCall
    <3>2. \A n : Out(n, "ok", LeastOf(FreeFds(kk))).ec = "ok"
      BY DEF Out
    <3>3. Out(kk, "EMFILE", None).ec = "EMFILE" /\ Out(kk, "ENOENT", None).ec = "ENOENT"
      BY DEF Out
    <3> QED
      BY <2>3, <3>1, <3>2, <3>3
  <2> QED
    BY <1>4, <2>4
<1> QED
  BY <1>1, <1>3, <1>4

LEMMA CallOpenStep ==
  ASSUME Inv, NEW t \in Callers, call_open(t)
  PROVE  Inv'
<1> DEFINE c == call[t]
           own == OwnOf(handle, call)
           flags == CallFlags(c)
<1>1. /\ c.pc = "open" /\ handle' = handle
      /\ \E r \in open(k, open_args(flags, FALSE)) :
           /\ k' = r.k
           /\ call' = [u \in Callers |-> IF u # t THEN Noticed(call[u], r.k)
                                         ELSE IF r.ec = "again" THEN c ELSE AfterOpen(c, r)]
  BY DEF call_open, Step
<1>2. PICK r \in open(k, open_args(flags, FALSE)) :
        /\ k' = r.k
        /\ call' = [u \in Callers |-> IF u # t THEN Noticed(call[u], r.k)
                                      ELSE IF r.ec = "again" THEN c ELSE AfterOpen(c, r)]
  BY <1>1
<1>3. c \in Call /\ CallOK(c) /\ c.fd = None /\ c.from = None /\ c.bytes = <<>> /\ k \in Kernel
  BY <1>1, OwnKept, InvTables DEF CallOK
<1>4. /\ r.ec \in {"ok", "again", "ENOENT", "EMFILE"}
      /\ c.op = "write_file" => /\ "O_TRUNC" \in parse_open_flags(flags).native
                                /\ "access_write" \in parse_open_flags(flags).access
  BY <1>3, CallOpens
<1>5. \/ /\ r.ec = "ok" /\ Creates(k, r)
         /\ r.ret = LeastOf(FreeFds(k)) /\ FreeFds(k) # {}
         /\ OpenKernel(k, parse_open_flags(flags), r.k)
      \/ r.ec \notin {"ok", "again"} /\ r.ret = None /\ r.k \in Kernel /\ r.k.fd = k.fd
      \/ r.ec = "again" /\ SameKernel(k, r.k)
  BY <1>3, OpenOutcome
<1>6. CASE r.ec = "again"
  BY <1>1, <1>2, <1>5, <1>6, AgainStep
<1>7. CASE r.ec \notin {"ok", "again"}
  <2> DEFINE e == Ended(c, r.ec)
  <2>1. AfterOpen(c, r) = e
    BY <1>7 DEF AfterOpen
  <2>2. r.ec \in Errors
    BY <1>4, <1>7 DEF Errors
  <2>3. e \in Call /\ CallOK(e) /\ Exact(k', UsedBy(handle, e), e) /\ e.fd = None /\ e.from = None
    BY <1>3, <1>7, <2>2, EndedCall
  <2>4. call' = [u \in Callers |-> IF u # t THEN Noticed(call[u], k') ELSE e]
    BY <1>2, <1>7, <2>1
  <2> HIDE DEF e
  <2>5. k' \in Kernel /\ OwnersOK(k'.fd, [own EXCEPT ![t] = e.fd])
    BY <1>2, <1>3, <1>5, <1>7, <2>3, OwnKept
  <2> QED
    BY <1>1, <2>3, <2>4, <2>5, CallerStep
<1>8. CASE r.ec = "ok"
  <2> DEFINE pc == IF c.op = "write_file" THEN "write" ELSE IF c.want = 0 THEN "size" ELSE "read"
             e == [c EXCEPT !.fd = r.ret, !.pc = pc]
  <2>1. AfterOpen(c, r) = e
    BY <1>8 DEF AfterOpen
  <2>2. Creates(k, r) /\ OpenKernel(k, parse_open_flags(flags), r.k)
        /\ r.ret = LeastOf(FreeFds(k)) /\ FreeFds(k) # {}
    BY <1>5, <1>8
  <2>3. r.ret \in Fds /\ r.k \in Kernel /\ k.fd[r.ret] = None /\ r.ret # None
    BY <2>2, Constants DEF Creates
  <2>4. /\ e \in Call /\ e.fd = r.ret /\ e.from = None /\ e.bytes = <<>> /\ e.pc = pc
        /\ e.op = c.op /\ e.want = c.want
    BY <1>3, <2>3 DEF Call
  <2>5. c.want \in 0 .. SizeMax /\ Len(<<>>) = 0
    BY <1>3, CallFields
  <2> HIDE DEF e
  <2>6. CallOK(e)
    <3>1. c.op # "none" /\ (c.op = "read_file" <=> c.want = 0)
          /\ c.op \in {"none", "read_file", "read_buffers", "write_file"}
      BY <1>1, <1>3 DEF CallOK, Call
    <3>2. CASE pc = "write"
      BY <2>3, <2>4, <2>5, <3>1, <3>2 DEF CallOK
    <3>3. CASE pc = "size"
      BY <2>3, <2>4, <2>5, <3>1, <3>3 DEF CallOK
    <3>4. CASE pc = "read"
      BY <2>3, <2>4, <2>5, <3>1, <3>4 DEF CallOK
    <3> QED
      BY <3>2, <3>3, <3>4
  <2>7. PosOf(r.k, r.ret) = 0 /\ (c.op = "write_file" => r.k.data = <<>>)
    <3> DEFINE d == FreeDesc(k)
               p == parse_open_flags(flags)
    <3>1. d \in Fds
      BY <1>3, <2>2, FreeDescFree, KernelFields
    <3>2. /\ r.k.fd = [k.fd EXCEPT ![r.ret] = d]
          /\ r.k.desc = [k.desc EXCEPT ![d] = [pos |-> 0, access |-> p.access]]
          /\ "O_TRUNC" \in p.native /\ "access_write" \in p.access => r.k.data = <<>>
      BY <2>2 DEF OpenKernel
    <3> HIDE DEF d, p
    <3>3. r.k.fd[r.ret] = d
      BY <1>3, <2>3, <3>2, KernelFields
    <3>4. r.k.desc[d].pos = 0
      BY <1>3, <3>1, <3>2, KernelFields
    <3> QED
      BY <1>4, <3>2, <3>3, <3>4 DEF PosOf, p
  <2>8. Exact(r.k, UsedBy(handle, e), e)
    <3>1. UsedBy(handle, e) = r.ret /\ Len(e.bytes) = 0
      BY <2>4, <2>5 DEF UsedBy
    <3>2. Starts(e.bytes, r.k.data)
      BY <2>3, <3>1, KernelFields DEF Starts
    <3>3. e.pc = "write" => e.op = "write_file"
      BY <2>4
    <3>4. e.pc = "read" => e.op # "read_file"
      BY <1>1, <1>3, <2>4 DEF CallOK
    <3>5. e.pc \notin {"close", "done"}
      BY <2>4
    <3> HIDE DEF pc
    <3> QED
      BY <2>4, <2>7, <3>1, <3>2, <3>3, <3>4, <3>5, NoBytes DEF Exact
  <2>9. OwnersOK(r.k.fd, [own EXCEPT ![t] = e.fd])
    <3>1. PICK d \in Fds : r.k.fd = [k.fd EXCEPT ![r.ret] = d]
      BY <2>2 DEF Creates
    <3>2. own \in Holdings /\ OwnersOK(k.fd, own) /\ k.fd \in Tables
      BY InvTables
    <3>3. t \in Owners /\ own[t] = None
      BY <1>3, OwnKept
    <3> DEFINE fd == r.ret
    <3>4. fd \in Fds /\ k.fd[fd] = None
      BY <2>3
    <3> HIDE DEF own, fd
    <3>5. OwnersOK([k.fd EXCEPT ![fd] = d], [own EXCEPT ![t] = fd])
      BY <3>2, <3>3, <3>4, OwnerOpens
    <3> QED
      BY <2>4, <3>1, <3>5 DEF fd
  <2>10. call' = [u \in Callers |-> IF u # t THEN Noticed(call[u], k') ELSE e]
    BY <1>2, <1>8, <2>1
  <2> QED
    BY <1>1, <1>2, <2>3, <2>4, <2>6, <2>8, <2>9, <2>10, CallerStep
<1> QED
  BY <1>4, <1>6, <1>7, <1>8

\* A call fails.
LEMMA FailStep ==
  ASSUME Inv, NEW t \in Callers, call[t].pc \in {"size", "read", "write"},
         NEW ec \in Errors \ {"ok"}, k' \in Kernel, k'.fd = k.fd, handle' = handle,
         call' = [u \in Callers |-> IF u # t THEN Noticed(call[u], k') ELSE Finish(call[t], ec)]
  PROVE  Inv'
<1>1. call[t] \in Call /\ (call[t].fd = None) = (call[t].from # None)
  BY OwnKept DEF CallOK
<1> QED
  BY <1>1, FinishStep

LEMMA CallSizeStep ==
  ASSUME Inv, NEW t \in Callers, call_size(t)
  PROVE  Inv'
<1> DEFINE c == call[t]
           h == Using(t)
<1>1. /\ c.pc = "size" /\ handle' = handle
      /\ \E r \in SizeForContainer(h) :
           /\ k' = r.k
           /\ call' = [u \in Callers |-> IF u # t THEN Noticed(call[u], r.k)
                                         ELSE IF r.ec = "again" THEN c ELSE AfterSize(c, r)]
  BY DEF call_size, Step
<1>2. PICK r \in SizeForContainer(h) :
        /\ k' = r.k
        /\ call' = [u \in Callers |-> IF u # t THEN Noticed(call[u], r.k)
                                      ELSE IF r.ec = "again" THEN c ELSE AfterSize(c, r)]
  BY <1>1
<1>3. /\ c \in Call /\ CallOK(c) /\ c.bytes = <<>> /\ c.want = 0 /\ c.op = "read_file"
      /\ k \in Kernel /\ Exact(k, UsedBy(handle, c), c)
      /\ (c.fd = None) = (c.from # None)
  BY <1>1, OwnKept, InvTables DEF CallOK
<1>4. /\ SameKernel(k, r.k) /\ r.ec \in {"ok", "EIO", "EBADF", "message_size"}
      /\ r.ec = "ok" => r.ret = Len(k.data)
  <2>1. CASE r \in size(k, h)
    BY <1>3, <2>1, SizeOutcome
  <2>2. CASE r = Out(k, "message_size", 0)
    BY <1>3, <2>2, KernelFields DEF Out
  <2> QED
    BY <2>1, <2>2 DEF SizeForContainer, handle_size
<1>5. k' \in Kernel /\ k'.fd = k.fd /\ k'.desc = k.desc /\ k'.data = k.data
  BY <1>2, <1>4 DEF SameKernel
<1>6. call' = [u \in Callers |-> IF u # t THEN Noticed(call[u], k') ELSE AfterSize(c, r)]
  BY <1>2, <1>4
<1>7. Len(k'.data) \in 0 .. SizeMax /\ Len(<<>>) = 0
  BY <1>5, KernelFields
<1>8. CASE r.ec # "ok"
  <2>1. r.ec \in Errors \ {"ok"}
    BY <1>4, <1>8 DEF Errors
  <2>2. AfterSize(c, r) = Finish(c, r.ec)
    BY <1>8 DEF AfterSize
  <2>3. call' = [u \in Callers |-> IF u # t THEN Noticed(call[u], k') ELSE Finish(call[t], r.ec)]
    BY <1>6, <2>2
  <2> QED
    BY <1>1, <1>5, <2>1, <2>3, FailStep
<1>9. CASE r.ec = "ok" /\ r.ret = 0
  <2>1. AfterSize(c, r) = Finish(c, "ok") /\ "ok" \in Errors
    BY <1>9 DEF AfterSize, Errors
  <2>2. Starts(c.bytes, k'.data)
    BY <1>3, <1>7 DEF Starts
  <2>3. Complete(k', c)
    BY <1>3, <1>4, <1>5, <1>9, <2>2 DEF Complete
  <2>4. call' = [u \in Callers |-> IF u # t THEN Noticed(call[u], k') ELSE Finish(c, "ok")]
    BY <1>6, <2>1
  <2>5. Len(c.bytes) = c.want
    BY <1>3, <1>7
  <2> QED
    BY <1>1, <1>3, <1>5, <2>1, <2>3, <2>4, <2>5, FinishStep
<1>10. CASE r.ec = "ok" /\ r.ret # 0
  <2> DEFINE e == [c EXCEPT !.want = r.ret, !.pc = "read"]
  <2>1. AfterSize(c, r) = e
    BY <1>10 DEF AfterSize
  <2>2. r.ret = Len(k'.data)
    BY <1>4, <1>5, <1>10
  <2>3. r.ret \in 0 .. SizeMax
    BY <1>7, <2>2
  <2>4. /\ e \in Call /\ e.fd = c.fd /\ e.from = c.from /\ e.bytes = <<>> /\ e.pc = "read"
        /\ e.op = "read_file" /\ e.want = r.ret /\ e.alone = c.alone
    BY <1>3, <2>3 DEF Call
  <2> HIDE DEF e
  <2>5. CallOK(e)
    BY <1>3, <1>7, <2>3, <2>4 DEF CallOK
  <2>6. UsedBy(handle, e) = UsedBy(handle, c)
    BY <2>4 DEF UsedBy
  <2>7. c.alone => PosOf(k', UsedBy(handle, c)) = 0
    BY <1>1, <1>3, <1>5 DEF Exact, PosOf
  <2>8. Starts(e.bytes, k'.data) /\ Len(e.bytes) = 0
    BY <1>7, <2>4 DEF Starts
  <2>9. Exact(k', UsedBy(handle, e), e)
    BY <2>2, <2>4, <2>6, <2>7, <2>8 DEF Exact
  <2>10. OwnersOK(k'.fd, [OwnOf(handle, call) EXCEPT ![t] = e.fd])
    BY <1>5, <2>4, OwnKept
  <2>11. e.from # None => handle[e.from] # None
    BY <2>4, OwnKept
  <2>12. call' = [u \in Callers |-> IF u # t THEN Noticed(call[u], k') ELSE e]
    BY <1>6, <2>1
  <2> QED
    BY <1>1, <1>5, <2>4, <2>5, <2>9, <2>10, <2>11, <2>12, CallerStep
<1> QED
  BY <1>8, <1>9, <1>10

LEMMA MovedPos ==
  ASSUME NEW kk \in Kernel, NEW fd \in Fds, kk.fd[fd] # None, NEW p, NEW nn, MovedTo(kk, fd, p, nn)
  PROVE  PosOf(nn, fd) = p
<1>1. kk.fd[fd] \in Fds
  BY KernelFields
<1>2. nn.fd = kk.fd /\ nn.desc = [kk.desc EXCEPT ![kk.fd[fd]].pos = p]
  BY DEF MovedTo
<1>3. kk.desc[kk.fd[fd]] \in [pos : 0 .. SizeMax, access : SUBSET Access]
  BY <1>1, KernelFields
<1>4. nn.desc[kk.fd[fd]] = [kk.desc[kk.fd[fd]] EXCEPT !.pos = p]
  BY <1>1, <1>2, KernelFields
<1> QED
  BY <1>2, <1>3, <1>4 DEF PosOf

\* The bytes read go on where the ones before them ended.
LEMMA StartsGrows ==
  ASSUME NEW a \in Seq({Hole, 1}), NEW b \in Seq({Hole, 1}), NEW data \in Seq({Hole, 1}),
         Starts(a, data), Len(b) # 0 => Len(a) + Len(b) <= Len(data),
         \A i \in 1 .. Len(b) : b[i] = data[Len(a) + i]
  PROVE  Starts(a \o b, data)
<1>1. Len(a) \in Nat /\ Len(b) \in Nat /\ Len(data) \in Nat
  BY LenProperties
<1>2. /\ Len(a \o b) = Len(a) + Len(b)
      /\ \A i \in 1 .. Len(a) + Len(b) :
           (a \o b)[i] = IF i <= Len(a) THEN a[i] ELSE b[i - Len(a)]
  BY ConcatProperties
<1>3. Len(a) <= Len(data) /\ \A i \in 1 .. Len(a) : a[i] = data[i]
  BY DEF Starts
<1>4. Len(a \o b) <= Len(data)
  BY <1>1, <1>2, <1>3
<1>5. ASSUME NEW i \in 1 .. Len(a) + Len(b) PROVE (a \o b)[i] = data[i]
  <2>1. CASE i <= Len(a)
    BY <1>1, <1>2, <1>3, <2>1
  <2>2. CASE i > Len(a)
    <3>1. i - Len(a) \in 1 .. Len(b) /\ Len(a) + (i - Len(a)) = i
      BY <1>1, <2>2
    <3>2. (a \o b)[i] = b[i - Len(a)]
      BY <1>1, <1>2, <2>2
    <3>3. b[i - Len(a)] = data[Len(a) + (i - Len(a))]
      BY <3>1
    <3> QED
      BY <3>1, <3>2, <3>3
  <2> QED
    BY <1>1, <2>1, <2>2
<1> QED
  BY <1>2, <1>4, <1>5 DEF Starts

LEMMA CallReadStep ==
  ASSUME Inv, NEW t \in Callers, call_read(t)
  PROVE  Inv'
<1> DEFINE c == call[t]
           h == UsedBy(handle, c)
           total == c.want - Len(c.bytes)
<1>1. /\ c.pc = "read" /\ handle' = handle
      /\ \E r \in readv(k, h, total) :
           /\ k' = r.k
           /\ call' = [u \in Callers |-> IF u # t THEN Noticed(call[u], r.k)
                                         ELSE IF r.ec = "again" THEN c ELSE AfterRead(c, r)]
  BY DEF call_read, Step, handle_read_some, Using, UsedBy
<1>2. PICK r \in readv(k, h, total) :
        /\ k' = r.k
        /\ call' = [u \in Callers |-> IF u # t THEN Noticed(call[u], r.k)
                                      ELSE IF r.ec = "again" THEN c ELSE AfterRead(c, r)]
  BY <1>1
<1>3. /\ c \in Call /\ CallOK(c) /\ k \in Kernel /\ Exact(k, h, c)
  BY OwnKept, InvTables
<1>4. /\ total \in Nat /\ c.bytes \in Seq({Hole, 1}) /\ Len(c.bytes) \in Nat
      /\ c.want \in 0 .. SizeMax
  BY <1>1, <1>3, CallFields, Constants DEF CallOK
<1> HIDE DEF total
<1>5. /\ Keeps(k, r) /\ r.ec \in {"ok", "eof", "EIO", "again", "EBADF"}
      /\ r.ec # "ok" => SameKernel(k, r.k)
      /\ r.ec = "ok" =>
           /\ h \in Fds /\ k.fd[h] # None
           /\ MovedTo(k, h, PosOf(k, h) + Len(r.ret), r.k) /\ r.k.data = k.data
           /\ r.ret \in Seq({Hole, 1}) /\ Len(r.ret) \in 0 .. total
           /\ Len(r.ret) # 0 => PosOf(k, h) + Len(r.ret) <= Len(k.data)
           /\ \A i \in 1 .. Len(r.ret) : r.ret[i] = k.data[PosOf(k, h) + i]
  <2> HIDE DEF h
  <2> QED
    BY <1>3, <1>4, ReadvOutcome
<1>6. k' \in Kernel /\ k'.fd = k.fd
  BY <1>2, <1>5 DEF Keeps
<1>7. CASE r.ec = "again"
  BY <1>1, <1>2, <1>5, <1>7, AgainStep
<1>8. CASE r.ec \notin {"ok", "again"}
  <2>1. r.ec \in Errors \ {"ok"} /\ AfterRead(c, r) = Finish(c, r.ec)
    BY <1>5, <1>8 DEF Errors, AfterRead
  <2>2. call' = [u \in Callers |-> IF u # t THEN Noticed(call[u], k') ELSE Finish(call[t], r.ec)]
    BY <1>2, <1>8, <2>1
  <2> QED
    BY <1>1, <1>6, <2>1, <2>2, FailStep
<1>9. CASE r.ec = "ok"
  <2> DEFINE b == r.ret
  <2>1. b \in Seq({Hole, 1}) /\ Len(b) \in 0 .. total /\ k'.data = k.data
    BY <1>2, <1>5, <1>9
  <2>2. Len(c.bytes) + Len(b) <= c.want
    <3> HIDE DEF b
    <3> QED
      BY <1>4, <2>1 DEF total
  <2>3. PosOf(k', h) = PosOf(k, h) + Len(b)
    <3> HIDE DEF h, b
    <3>1. h \in Fds /\ k.fd[h] # None /\ MovedTo(k, h, PosOf(k, h) + Len(b), k')
      BY <1>2, <1>5, <1>9 DEF b
    <3> QED
      BY <1>3, <3>1, MovedPos
  <2>4. ASSUME c.alone
        PROVE  /\ PosOf(k', h) = Len(c.bytes) + Len(b)
               /\ Starts(c.bytes \o b, k'.data)
               /\ c.op = "read_file" => c.want = Len(k'.data)
    <3>1. PosOf(k, h) = Len(c.bytes) /\ Starts(c.bytes, k.data)
          /\ (c.op = "read_file" => c.want = Len(k.data))
      BY <1>1, <1>3, <2>4 DEF Exact
    <3>2. /\ Len(b) # 0 => Len(c.bytes) + Len(b) <= Len(k.data)
          /\ \A i \in 1 .. Len(b) : b[i] = k.data[Len(c.bytes) + i]
      BY <1>5, <1>9, <3>1
    <3>3. k.data \in Seq({Hole, 1})
      BY <1>3, KernelFields
    <3> HIDE DEF b
    <3>4. Starts(c.bytes \o b, k.data)
      BY <1>4, <2>1, <3>1, <3>2, <3>3, StartsGrows
    <3> QED
      BY <2>1, <2>3, <3>1, <3>4
  <2>5. AfterRead(c, r) = Progress(c, b)
    BY <1>9 DEF AfterRead
  <2>6. call' = [u \in Callers |-> IF u # t THEN Noticed(call[u], k') ELSE Progress(call[t], b)]
    BY <1>2, <1>9, <2>5
  <2> HIDE DEF b
  <2>7. call[t].alone =>
           /\ PosOf(k', UsedBy(handle, call[t])) = Len(call[t].bytes) + Len(b)
           /\ call[t].pc = "read" =>
                /\ Starts(call[t].bytes \o b, k'.data)
                /\ call[t].op = "read_file" => call[t].want = Len(k'.data)
           /\ call[t].pc = "write" => k'.data = Ones(Len(call[t].bytes) + Len(b))
    BY <1>1, <2>4
  <2> QED
    BY <1>1, <1>6, <2>1, <2>2, <2>6, <2>7, ProgressStep
<1> QED
  BY <1>7, <1>8, <1>9

LEMMA OnesSeq ==
  ASSUME NEW n \in Nat
  PROVE  Ones(n) \in Seq({Hole, 1}) /\ Len(Ones(n)) = n /\ \A i \in 1 .. n : Ones(n)[i] = 1
<1>1. Ones(n) \in [1 .. n -> {Hole, 1}] /\ \A i \in 1 .. n : Ones(n)[i] = 1
  BY DEF Ones
<1> QED
  BY <1>1, BytesOf

\* Writing on at the end of what was written.
LEMMA OnesGrow ==
  ASSUME NEW m \in Nat, NEW n \in Nat, NEW r \in 1 .. n
  PROVE  Overwritten(Ones(m), m, r, Ones(n)) = Ones(m + r)
<1>1. Len(Ones(m)) = m /\ Len(Ones(n)) = n /\ Ones(m) \in Seq({Hole, 1}) /\ Ones(n) \in Seq({Hole, 1})
  BY OnesSeq
<1>2. \A i \in 1 .. n : Ones(n)[i] = 1
  BY OnesSeq
<1>3. \A i \in 1 .. m : Ones(m)[i] = 1
  BY OnesSeq
<1>4. Overwritten(Ones(m), m, r, Ones(n)) =
        [i \in 1 .. (m + r) |-> IF i \in (m + 1) .. (m + r) THEN Ones(n)[i - m]
                                ELSE IF i <= m THEN Ones(m)[i] ELSE Hole]
  BY <1>1 DEF Overwritten
<1>5. \A i \in 1 .. (m + r) :
        (IF i \in (m + 1) .. (m + r) THEN Ones(n)[i - m] ELSE IF i <= m THEN Ones(m)[i] ELSE Hole)
          = 1
  BY <1>2, <1>3
<1> QED
  BY <1>4, <1>5 DEF Ones

LEMMA CallWriteStep ==
  ASSUME Inv, NEW t \in Callers, call_write(t)
  PROVE  Inv'
<1> DEFINE c == call[t]
           h == c.fd
           total == c.want - Len(c.bytes)
<1>1. /\ c.pc = "write" /\ handle' = handle
      /\ \E r \in writev(k, h, Ones(total)) :
           /\ k' = r.k
           /\ call' = [u \in Callers |-> IF u # t THEN Noticed(call[u], r.k)
                                         ELSE IF r.ec = "again" THEN c ELSE AfterWrite(c, r)]
  BY DEF call_write, Step, unique_write_some, handle_write_some, Ones
<1>2. PICK r \in writev(k, h, Ones(total)) :
        /\ k' = r.k
        /\ call' = [u \in Callers |-> IF u # t THEN Noticed(call[u], r.k)
                                      ELSE IF r.ec = "again" THEN c ELSE AfterWrite(c, r)]
  BY <1>1
<1>3. /\ c \in Call /\ CallOK(c) /\ k \in Kernel /\ Exact(k, UsedBy(handle, c), c)
  BY OwnKept, InvTables
<1>4. /\ total \in Nat /\ c.bytes \in Seq({Hole, 1}) /\ Len(c.bytes) \in Nat
      /\ c.want \in 0 .. SizeMax
  BY <1>1, <1>3, CallFields, Constants DEF CallOK
<1>5. UsedBy(handle, c) = h
  BY <1>1, <1>3 DEF CallOK, UsedBy
<1> HIDE DEF total
<1>6. Ones(total) \in Seq({Hole, 1}) /\ Len(Ones(total)) = total
  BY <1>4, OnesSeq
<1>7. /\ Keeps(k, r) /\ r.ec \in {"ok", "ENOSPC", "EIO", "again", "EBADF"}
      /\ r.ec # "ok" => SameKernel(k, r.k)
      /\ r.ec = "ok" =>
           /\ h \in Fds /\ k.fd[h] # None
           /\ r.ret \in 0 .. total
           /\ MovedTo(k, h, PosOf(k, h) + r.ret, r.k)
           /\ r.ret = 0 => r.k.data = k.data
           /\ r.ret # 0 => r.k.data = Overwritten(k.data, PosOf(k, h), r.ret, Ones(total))
  <2> HIDE DEF h
  <2> QED
    BY <1>3, <1>6, WritevOutcome
<1>8. k' \in Kernel /\ k'.fd = k.fd
  BY <1>2, <1>7 DEF Keeps
<1>9. CASE r.ec = "again"
  BY <1>1, <1>2, <1>7, <1>9, AgainStep
<1>10. CASE r.ec \notin {"ok", "again"}
  <2>1. r.ec \in Errors \ {"ok"} /\ AfterWrite(c, r) = Finish(c, r.ec)
    BY <1>7, <1>10 DEF Errors, AfterWrite
  <2>2. call' = [u \in Callers |-> IF u # t THEN Noticed(call[u], k') ELSE Finish(call[t], r.ec)]
    BY <1>2, <1>10, <2>1
  <2> QED
    BY <1>1, <1>8, <2>1, <2>2, FailStep
<1>11. CASE r.ec = "ok"
  <2> DEFINE n == r.ret
             b == Ones(n)
  <2>1. n \in 0 .. total /\ n \in Nat
    BY <1>4, <1>7, <1>11
  <2>2. b \in Seq({Hole, 1}) /\ Len(b) = n
    <3> HIDE DEF n
    <3> QED
      BY <2>1, OnesSeq
  <2>3. Len(c.bytes) + Len(b) <= c.want
    <3> HIDE DEF n, b
    <3> QED
      BY <1>4, <2>1, <2>2 DEF total
  <2>4. PosOf(k', h) = PosOf(k, h) + n
    <3> HIDE DEF h, n
    <3>1. h \in Fds /\ k.fd[h] # None /\ MovedTo(k, h, PosOf(k, h) + n, k')
      BY <1>2, <1>7, <1>11 DEF n
    <3> QED
      BY <1>3, <3>1, MovedPos
  <2>5. ASSUME c.alone
        PROVE  PosOf(k', h) = Len(c.bytes) + Len(b) /\ k'.data = Ones(Len(c.bytes) + Len(b))
    <3>1. PosOf(k, h) = Len(c.bytes) /\ k.data = Ones(Len(c.bytes))
      BY <1>1, <1>3, <1>5, <2>5 DEF Exact
    <3>2. CASE n = 0
      <4>1. k'.data = k.data /\ Len(c.bytes) + Len(b) = Len(c.bytes)
        BY <1>2, <1>4, <1>7, <1>11, <2>2, <3>2
      <4> QED
        BY <1>4, <2>2, <2>4, <3>1, <4>1
    <3>3. CASE n # 0
      <4>1. k'.data = Overwritten(Ones(Len(c.bytes)), Len(c.bytes), n, Ones(total))
        BY <1>2, <1>7, <1>11, <3>1, <3>3
      <4> DEFINE m == Len(c.bytes)
      <4>2. n \in 1 .. total /\ m \in Nat
        BY <1>4, <2>1, <3>3
      <4> HIDE DEF n, m
      <4>3. Overwritten(Ones(m), m, n, Ones(total)) = Ones(m + n)
        BY <1>4, <4>2, OnesGrow
      <4> QED
        BY <2>2, <2>4, <3>1, <4>1, <4>3 DEF m
    <3> QED
      BY <3>2, <3>3
  <2>6. AfterWrite(c, r) = Progress(c, b)
    BY <1>11 DEF AfterWrite, Ones
  <2>7. call' = [u \in Callers |-> IF u # t THEN Noticed(call[u], k') ELSE Progress(call[t], b)]
    BY <1>2, <1>11, <2>6
  <2> HIDE DEF b, n
  <2>8. call[t].alone =>
           /\ PosOf(k', UsedBy(handle, call[t])) = Len(call[t].bytes) + Len(b)
           /\ call[t].pc = "read" =>
                /\ Starts(call[t].bytes \o b, k'.data)
                /\ call[t].op = "read_file" => call[t].want = Len(k'.data)
           /\ call[t].pc = "write" => k'.data = Ones(Len(call[t].bytes) + Len(b))
    BY <1>1, <1>5, <2>5
  <2> QED
    BY <1>1, <1>8, <2>2, <2>3, <2>7, <2>8, ProgressStep
<1> QED
  BY <1>9, <1>10, <1>11

LEMMA CallCloseStep ==
  ASSUME Inv, NEW t \in Callers, call_close(t)
  PROVE  Inv'
<1> DEFINE c == call[t]
           own == OwnOf(handle, call)
           fd == c.fd
           e == Ended(c, c.ec)
<1>1. /\ c.pc = "close" /\ handle' = handle
      /\ \E r \in handle_close(fd) :
           /\ k' = r.k
           /\ call' = [u \in Callers |-> IF u # t THEN Noticed(call[u], r.k)
                                         ELSE IF r.ec = "again" THEN c ELSE e]
  BY DEF call_close, Step, unique_close
<1>2. PICK r \in handle_close(fd) :
        /\ k' = r.k
        /\ call' = [u \in Callers |-> IF u # t THEN Noticed(call[u], r.k)
                                      ELSE IF r.ec = "again" THEN c ELSE e]
  BY <1>1
<1>3. /\ c \in Call /\ CallOK(c) /\ k \in Kernel /\ Exact(k, UsedBy(handle, c), c)
      /\ own[t] = fd /\ t \in Owners
  BY OwnKept, InvTables
<1>4. c.from = None /\ fd \in Fds /\ fd # None
  BY <1>1, <1>3, CallFields, Constants DEF CallOK
<1>5. k.fd[fd] # None
  BY <1>1, <1>4, UsedIsOpen DEF UsedBy
<1>6. r \in close(k, fd)
  BY <1>4 DEF handle_close
<1>7. /\ SameKernel(Unlinked(k, fd), r.k) /\ r.ec # "again"
      /\ Unlinked(k, fd).fd = [k.fd EXCEPT ![fd] = None] /\ Unlinked(k, fd).data = k.data
  <2> HIDE DEF fd
  <2>1. SameKernel(Unlinked(k, fd), r.k) /\ r.ec \in {"ok", "EIO"}
    BY <1>3, <1>4, <1>5, <1>6, CloseKernel
  <2>2. Unlinked(k, fd).fd = [k.fd EXCEPT ![fd] = None] /\ Unlinked(k, fd).data = k.data
    BY <1>3, <1>4, <1>5, UnlinkedKernel
  <2> QED
    BY <2>1, <2>2
<1>8. k' \in Kernel /\ k'.fd = [k.fd EXCEPT ![fd] = None] /\ k'.data = k.data
  BY <1>2, <1>7 DEF SameKernel
<1>9. c.ec \in Errors /\ (c.ec = "ok" => Len(c.bytes) = c.want /\ (c.alone => Complete(k', c)))
  <2>1. c.ec \in Errors
    BY <1>3 DEF Call, Errors
  <2>2. c.ec = "ok" => Len(c.bytes) = c.want
    BY <1>1, <1>3 DEF CallOK
  <2>3. c.ec = "ok" /\ c.alone => Complete(k', c)
    BY <1>1, <1>3, <1>8 DEF Exact, Complete
  <2> QED
    BY <2>1, <2>2, <2>3
<1>10. e \in Call /\ CallOK(e) /\ Exact(k', UsedBy(handle, e), e) /\ e.fd = None /\ e.from = None
  BY <1>3, <1>9, EndedCall
<1>11. call' = [u \in Callers |-> IF u # t THEN Noticed(call[u], k') ELSE e]
  BY <1>2, <1>7
<1> HIDE DEF e
<1>12. OwnersOK(k'.fd, [own EXCEPT ![t] = e.fd])
  <2>1. own \in Holdings /\ OwnersOK(k.fd, own) /\ k.fd \in Tables
    BY InvTables
  <2> HIDE DEF own, fd
  <2>2. OwnersOK([k.fd EXCEPT ![own[t]] = None], [own EXCEPT ![t] = None])
    BY <1>3, <1>4, <2>1, OwnerCloses
  <2> QED
    BY <1>3, <1>8, <1>10, <2>2
<1> QED
  BY <1>1, <1>8, <1>10, <1>11, <1>12, CallerStep

-----------------------------------------------------------------------------
(* The invariant and what it gives.                                         *)

LEMMA InitInv == Init => Inv
<1> SUFFICES ASSUME Init PROVE Inv
  OBVIOUS
<1>1. /\ k = Booted /\ \A o \in Objects : handle[o] = None /\ handle = [p \in Objects |-> None]
      /\ call = [t \in Callers |-> Idle]
  BY DEF Init
<1>2. /\ k.fd = [f \in Fds |-> None]
      /\ k.desc = [d \in Fds |-> [pos |-> 0, access |-> {}]]
      /\ k.exists = FALSE /\ k.data = <<>> /\ k.trouble = MaxTrouble
  BY <1>1 DEF Booted
<1>3. k \in Kernel
  <2>1. 0 \in 0 .. SizeMax /\ MaxTrouble \in 0 .. MaxTrouble
    BY Constants
  <2>2. [pos |-> 0, access |-> {}] \in [pos : 0 .. SizeMax, access : SUBSET Access]
    BY <2>1
  <2> QED
    BY <1>1, <2>1, <2>2, NoBytes DEF Booted, Kernel
<1>4. handle \in [Objects -> Fds \cup {None}]
  BY DEF Init
<1>5. call \in [Callers -> Call]
  BY <1>1, IdleCall
<1>6. \A t \in Callers : call[t] = Idle
  BY <1>1
<1>7. \A o \in Owners : OwnOf(handle, call)[o] = None
  BY <1>1, <1>6, IdleCall DEF OwnOf, Owners
<1>8. OwnersOK(k.fd, OwnOf(handle, call))
  BY <1>2, <1>7, Constants DEF OwnersOK
<1>9. CallOK(Idle) /\ Exact(k, UsedBy(handle, Idle), Idle)
  BY IdleCall DEF CallOK, Exact
<1>10. Lending(handle, call)
  BY <1>6, IdleCall DEF Lending
<1> QED
  BY <1>3, <1>4, <1>5, <1>6, <1>8, <1>9, <1>10 DEF Inv, TypeOK

LEMMA StutterInv ==
  ASSUME Inv, UNCHANGED vars
  PROVE  Inv'
<1>1. k' = k /\ handle' = handle /\ call' = call
  BY DEF vars
<1>2. call' = [t \in Callers |-> Noticed(call[t], k')]
  BY <1>1, SameCalls
<1>3. k' \in Kernel /\ OwnersOK(k'.fd, OwnOf(handle, call))
  BY <1>1, InvTables
<1> QED
  BY <1>1, <1>2, <1>3, InvTables, ProgramStep

LEMMA NextInv == Inv /\ [Next]_vars => Inv'
<1> SUFFICES ASSUME Inv, [Next]_vars PROVE Inv'
  OBVIOUS
<1>1. CASE Program
  BY <1>1, ProgramInv
<1>2. ASSUME NEW t \in Callers,
             \/ read_file(t) \/ read_file_buffers(t) \/ read_file_handle(t)
             \/ read_file_handle_buffers(t) \/ write_file(t)
      PROVE  Inv'
  BY <1>2, BeginCall
<1>3. ASSUME NEW t \in Callers, CallStep(t)
      PROVE  Inv'
  BY <1>3, CallOpenStep, CallSizeStep, CallReadStep, CallWriteStep, CallCloseStep DEF CallStep
<1>4. ASSUME NEW t \in Callers, Return(t)
      PROVE  Inv'
  BY <1>4, ReturnStep
<1>5. CASE UNCHANGED vars
  BY <1>5, StutterInv
<1> QED
  BY <1>1, <1>2, <1>3, <1>4, <1>5 DEF Next

\* Inv is inductive.
LEMMA InvHolds == Spec => []Inv
  BY InitInv, NextInv, PTL DEF Spec

\* Whatever fails in open, duplicate, move, release, reset, assign and close, and
\* however read_file and write_file run beside them, every open descriptor has
\* exactly one owner and no owner holds a closed one.
THEOREM OwnedOnceInvariant == Spec => []OwnedOnce
<1>1. ASSUME Inv PROVE OwnedOnce
  <2>1. \A o \in Owners : OwnOf(handle, call)[o] = Owned(o)
    BY DEF OwnOf, Owned
  <2>2. /\ \A fd \in Fds : k.fd[fd] # None <=> \E o \in Owners : Owned(o) = fd
        /\ \A o, p \in Owners : Owned(o) = Owned(p) /\ Owned(o) # None => o = p
    BY <1>1, <2>1 DEF Inv, OwnersOK
  <2> QED
    BY <1>1, <2>2 DEF OwnedOnce, Inv
<1> QED
  BY <1>1, InvHolds, PTL

\* A read_file that reports success has filled all of its buffers, also when the
\* file shrinks while it reads.
THEOREM NothingUninitialisedInvariant == Spec => []NothingUninitialised
<1>1. ASSUME Inv PROVE NothingUninitialised
  BY <1>1 DEF Inv, CallOK, NothingUninitialised
<1> QED
  BY <1>1, InvHolds, PTL

\* A read_file or write_file that reports success, and that nobody disturbed, has
\* returned the file's bytes or left exactly its own in the file, however its
\* reads and writes were split and interrupted.
THEOREM CallsExactInvariant == Spec => []CallsExact
<1>1. ASSUME Inv PROVE CallsExact
  <2> SUFFICES ASSUME NEW t \in Callers, call[t].pc = "done", call[t].ec = "ok", call[t].alone
               PROVE  LET c == call[t] IN
                      IF c.op = "write_file" THEN k.data = [i \in 1 .. c.want |-> 1]
                      ELSE IsPrefix(c.bytes, k.data) /\ (c.op = "read_file" => c.bytes = k.data)
    BY DEF CallsExact
  <2> DEFINE c == call[t]
             b == c.bytes
             d == k.data
  <2>1. /\ c \in Call /\ CallOK(c) /\ Exact(k, UsedBy(handle, c), c) /\ k \in Kernel
    BY <1>1, OwnKept, InvTables
  <2>2. Len(b) = c.want /\ b \in Seq({Hole, 1}) /\ d \in Seq({Hole, 1}) /\ Len(b) \in Nat
        /\ Len(d) \in Nat
    BY <2>1, CallFields, KernelFields DEF CallOK
  <2>3. CASE c.op = "write_file"
    BY <2>1, <2>3 DEF Exact, Ones
  <2>4. CASE c.op # "write_file"
    <3>1. Starts(b, d) /\ (c.op = "read_file" => Len(b) = Len(d))
      BY <2>1, <2>2, <2>4 DEF Exact
    <3> HIDE DEF b, d
    <3>2. Len(b) <= Len(d) /\ \A i \in 1 .. Len(b) : b[i] = d[i]
      BY <3>1 DEF Starts
    <3>3. b = SubSeq(d, 1, Len(b))
      <4> DEFINE s == SubSeq(d, 1, Len(b))
      <4>1. \A i \in 1 .. Len(b) : d[i] \in {Hole, 1}
        BY <2>2, <3>2, ElementOfSeq
      <4>2. /\ s \in Seq({Hole, 1})
            /\ Len(s) = IF 1 <= Len(b) THEN Len(b) - 1 + 1 ELSE 0
            /\ \A i \in 1 .. Len(b) - 1 + 1 : s[i] = d[1 + i - 1]
        <5> DEFINE n == Len(b)
        <5>1. n \in Int /\ \A i \in 1 .. n : d[i] \in {Hole, 1}
          BY <2>2, <4>1
        <5> HIDE DEF n
        <5> QED
          BY <5>1, SubSeqProperties DEF n
      <4> HIDE DEF s
      <4>3. Len(s) = Len(b) /\ \A i \in 1 .. Len(b) : s[i] = b[i]
        BY <2>2, <3>2, <4>2
      <4>4. s = b
        BY <2>2, <4>2, <4>3, SeqEqual
      <4> QED
        BY <4>4 DEF s
    <3>4. IsPrefix(b, d)
      BY <3>2, <3>3 DEF IsPrefix
    <3>5. c.op = "read_file" => b = d
      BY <2>2, <3>1, <3>2, SeqEqual
    <3> QED
      BY <2>4, <3>4, <3>5 DEF b, d
  <2> QED
    BY <2>3, <2>4
<1> QED
  BY <1>1, InvHolds, PTL

-----------------------------------------------------------------------------
(***************************************************************************)
(* Chrono and FileMetadata, for any number of threads, any width of the     *)
(* representation and any number of ticks in a second and a microsecond.    *)
(* MetadataInv says of a call under way that what its fstat has told are    *)
(* bits it may give back to the file, and what the file still has if nobody *)
(* interfered; and of one that ended, that it did what it was asked to.     *)
(***************************************************************************)

(* Division, and the split of a time.                                       *)

LEMMA DivMod ==
  ASSUME NEW a \in Int, NEW b \in Nat \ {0}
  PROVE  /\ a \div b \in Int /\ a % b \in 0 .. b - 1
         /\ a = b * (a \div b) + (a % b)
  OBVIOUS

\* A multiple of b that differs from another one differs by b at least.
LEMMA Multiples ==
  ASSUME NEW b \in Nat \ {0}, NEW p \in Int, NEW q \in Int, p < q
  PROVE  b * p + b <= b * q
  OBVIOUS

\* Quotient and remainder are unique.
LEMMA DivUnique ==
  ASSUME NEW b \in Nat \ {0}, NEW p \in Int, NEW q \in Int,
         NEW x \in 0 .. b - 1, NEW y \in 0 .. b - 1, b * p + x = b * q + y
  PROVE  p = q /\ x = y
<1>1. ~(p < q)
  BY Multiples
<1>2. ~(q < p)
  BY Multiples
<1> QED  BY <1>1, <1>2

LEMMA Scaled ==
  ASSUME NEW b \in Nat, b >= 2, NEW q \in Nat
  PROVE  q <= b * q /\ 2 * q <= b * q
  OBVIOUS

\* What C++ division leaves has the sign of the dividend.
LEMMA QuotRest ==
  ASSUME NEW a \in Int, NEW b \in Nat \ {0}
  PROVE  /\ Quot(a, b) \in Int
         /\ a >= 0 => Quot(a, b) >= 0 /\ a - b * Quot(a, b) \in 0 .. b - 1
         /\ a < 0 => Quot(a, b) <= 0 /\ b * Quot(a, b) - a \in 0 .. b - 1
<1>1. CASE a >= 0
  <2>1. a \div b \in Int /\ a % b \in 0 .. b - 1 /\ a = b * (a \div b) + (a % b)
    BY DivMod
  <2>2. a \div b >= 0
    BY <1>1, <2>1, Multiples
  <2> QED  BY <1>1, <2>1, <2>2 DEF Quot
<1>2. CASE a < 0
  <2>1. (-a) \div b \in Int /\ (-a) % b \in 0 .. b - 1 /\ -a = b * ((-a) \div b) + ((-a) % b)
    <3>1. -a \in Int
      OBVIOUS
    <3> QED  BY <3>1, DivMod
  <2>2. (-a) \div b >= 0
    BY <1>2, <2>1, Multiples
  <2>3. b * (-((-a) \div b)) = -(b * ((-a) \div b))
    BY <2>1
  <2> QED  BY <1>2, <2>1, <2>2, <2>3 DEF Quot
<1> QED  BY <1>1, <1>2

LEMMA RepBounds ==
  /\ RepMax \in Nat /\ RepMin \in Int /\ RepMin < 0 /\ RepMin = -RepMax - 1
  /\ Hz \in Nat \ {0} /\ Hz >= 2 /\ Hz <= RepMax
  BY RepAssumption DEF RepMin

\* The least pair has a negative number of seconds, and not RepMin of them.
LEMMA MinFirst ==
  /\ min_first \in Int /\ min_first <= 0 /\ RepMin < min_first
  /\ Hz * min_first - RepMin \in 0 .. Hz - 1
<1>1. /\ min_first \in Int /\ min_first <= 0
      /\ Hz * min_first - RepMin \in 0 .. Hz - 1
  BY RepBounds, QuotRest DEF min_first
<1>2. -min_first \in Nat /\ Hz * (-min_first) = -(Hz * min_first)
  BY <1>1, RepBounds
<1>3. 2 * (-min_first) <= Hz * (-min_first)
  BY <1>2, Scaled, RepBounds
<1> QED  BY <1>1, <1>2, <1>3, RepBounds

\* decompose_time never fails: seconds and ticks are those of the time, also
\* before the epoch and at both ends of the range.
LEMMA DecomposeExact ==
  ASSUME NEW t \in Rep
  PROVE  /\ decompose_time(t) = Is(<<t \div Hz, t % Hz>>)
         /\ <<t \div Hz, t % Hz>> \in Pairs
<1> DEFINE f == Quot(t, Hz)
           r == t - Hz * f
<1>0. t \in Int /\ RepMin <= t /\ t <= RepMax
  BY RepBounds DEF Rep
<1>1. /\ f \in Int
      /\ t >= 0 => f >= 0 /\ r \in 0 .. Hz - 1
      /\ t < 0 => f <= 0 /\ -r \in 0 .. Hz - 1
  BY <1>0, QuotRest, RepBounds
<1>2. r \in Int /\ t = Hz * f + r /\ t - f * Hz = r
  BY <1>0, <1>1, RepBounds
<1> HIDE DEF f, r
<1>3. f \in Rep
  <2>1. CASE t >= 0
    BY <1>0, <1>1, <1>2, <2>1, Scaled, RepBounds DEF Rep
  <2>2. CASE t < 0
    <3>1. -f \in Nat /\ Hz * (-f) = -(Hz * f)
      BY <1>1, <2>2, RepBounds
    <3>2. -f <= Hz * (-f)
      BY <3>1, Scaled, RepBounds
    <3> QED  BY <1>0, <1>1, <1>2, <2>2, <3>1, <3>2, RepBounds DEF Rep
  <2> QED  BY <1>0, <2>1, <2>2
<1>4. safe_duration_cast(t, 1, Hz).v = f
  BY <1>3, RepBounds DEF safe_duration_cast, InRep, Is, f
<1>5. t \div Hz \in Int /\ t % Hz \in 0 .. Hz - 1 /\ t = Hz * (t \div Hz) + (t % Hz)
  BY <1>0, DivMod, RepBounds
<1>6. CASE r >= 0
  <2>1. t \div Hz = f /\ t % Hz = r
    <3>1. r \in 0 .. Hz - 1
      BY <1>0, <1>1, <1>2, <1>6, RepBounds
    <3> QED  BY <1>1, <1>2, <1>5, <3>1, DivUnique, RepBounds
  <2>2. decompose_time(t) = Is(<<f, r>>)
    BY <1>0, <1>2, <1>4, <1>6 DEF decompose_time
  <2> QED  BY <1>3, <1>5, <2>1, <2>2 DEF Pairs, Rep
<1>7. CASE r < 0
  <2>1. t < 0 /\ -r \in 1 .. Hz - 1 /\ f - 1 \in Int /\ Hz * (f - 1) = Hz * f - Hz
    BY <1>0, <1>1, <1>2, <1>7, RepBounds
  <2>2. t \div Hz = f - 1 /\ t % Hz = r + Hz
    <3> DEFINE p == t \div Hz
               x == t % Hz
               q == f - 1
               y == r + Hz
    <3>1. /\ p \in Int /\ q \in Int /\ x \in 0 .. Hz - 1 /\ y \in 0 .. Hz - 1
          /\ Hz * p + x = Hz * q + y
      BY <1>1, <1>2, <1>5, <2>1, RepBounds
    <3> HIDE DEF p, x, q, y
    <3>2. p = q /\ x = y
      BY <3>1, DivUnique, RepBounds
    <3> QED  BY <3>2 DEF p, x, q, y
  <2>3. f >= min_first
    <3>1. ~(f < min_first)
      BY <1>0, <1>1, <1>2, <2>1, MinFirst, RepBounds, Multiples
    <3> QED  BY <1>1, <3>1, MinFirst
  <2>4. decompose_time(t) = Is(<<f - 1, r + Hz>>)
    BY <1>0, <1>1, <1>2, <1>4, <1>7, <2>3, MinFirst, RepBounds DEF decompose_time
  <2>5. f - 1 \in Rep
    BY <1>1, <1>3, <2>1, <2>3, MinFirst, RepBounds DEF Rep
  <2> QED  BY <1>5, <2>2, <2>4, <2>5 DEF Pairs, Rep
<1> QED  BY <1>2, <1>6, <1>7

\* A number that fits is not changed by arithmetic modulo 2^w.
LEMMA WrapFits ==
  ASSUME NEW x \in Rep
  PROVE  Wrap(x) = x
<1> DEFINE n == x - RepMin
           m == RepMax - RepMin + 1
<1>1. n \in Int /\ m \in Nat \ {0} /\ n \in 0 .. m - 1 /\ n + RepMin = x
  BY RepBounds DEF Rep
<1> HIDE DEF n, m
<1>2. n \div m \in Int /\ n % m \in 0 .. m - 1 /\ n = m * (n \div m) + (n % m)
  BY <1>1, DivMod
<1>3. m * 0 + n = n
  BY <1>1
<1> DEFINE q == n \div m
           y == n % m
<1> HIDE DEF q, y
<1>4. q \in Int /\ y \in 0 .. m - 1 /\ m * 0 + n = m * q + y
  BY <1>2, <1>3 DEF q, y
<1>5. n = y
  BY <1>1, <1>4, DivUnique
<1> QED  BY <1>1, <1>5 DEF Wrap, n, m, y

\* What compose_time returns is the time and has not wrapped around.
LEMMA ComposeExact ==
  ASSUME NEW p \in Pairs, compose_time(p[1], p[2]).ok
  PROVE  compose_time(p[1], p[2]).v = Ticks(p)
<1> DEFINE a == p[1]
           b == p[2]
<1>1. a \in Int /\ RepMin <= a /\ a <= RepMax /\ b \in 0 .. Hz - 1
  BY RepBounds DEF Pairs
<1>2. Ticks(p) = a * Hz + b /\ a * Hz = Hz * a /\ a * Hz + b \in Int
  BY <1>1, RepBounds DEF Ticks
<1> HIDE DEF a, b
<1>3. CASE a >= 0
  <2>1. a < max_first \/ (a = max_first /\ b <= max_second)
    BY <1>3 DEF compose_time, Failed, a, b
  <2>2. compose_time(a, b) = Is(Wrap(a * Hz + b))
    BY <1>3, <2>1 DEF compose_time
  <2>3. max_first \in Int /\ RepMax - Hz * max_first \in 0 .. Hz - 1
    <3>1. RepMax \in Int /\ RepMax >= 0 /\ Hz \in Nat \ {0}
      BY RepBounds
    <3> QED  BY <3>1, QuotRest DEF max_first
  <2>4. max_second = RepMax - Hz * max_first
    BY <2>3, RepBounds DEF max_second
  <2>5. a * Hz + b <= RepMax
    BY <1>1, <1>2, <2>1, <2>3, <2>4, Multiples, RepBounds
  <2>6. Hz * a >= 0
    BY <1>1, <1>3, RepBounds
  <2>7. a * Hz + b \in Rep
    BY <1>1, <1>2, <2>5, <2>6, RepBounds DEF Rep
  <2> QED  BY <1>2, <2>2, <2>7, WrapFits DEF Is, a, b
<1>4. CASE a < 0
  <2>1. min_second = RepMin - Hz * min_first + Hz /\ min_second \in 1 .. Hz
    BY MinFirst, RepBounds DEF min_second
  <2>2. a = min_first - 1 /\ b >= min_second
    BY <1>1, <1>4, <2>1, MinFirst, RepBounds DEF compose_time, Failed, a, b
  <2>3. Hz * a = Hz * min_first - Hz
    BY <2>2, MinFirst, RepBounds
  <2>4. a * Hz + b \in Rep
    BY <1>1, <1>2, <2>1, <2>2, <2>3, MinFirst, RepBounds DEF Rep
  <2>5. (a + 1) * Hz - (Hz - b) = a * Hz + b
    BY <1>1, RepBounds
  <2>6. b # 0
    BY <1>1, <2>1, <2>2, RepBounds
  <2>7. compose_time(a, b) = Is(Wrap((a + 1) * Hz - (Hz - b)))
    BY <1>1, <1>4, <2>1, <2>2, <2>6, MinFirst, RepBounds DEF compose_time
  <2> QED  BY <1>2, <2>4, <2>5, <2>7, WrapFits DEF Is, a, b
<1> QED  BY <1>1, <1>3, <1>4

\* Cutting a time down to microseconds twice is cutting it down once.
LEMMA UsecTwice ==
  ASSUME NEW p \in Pairs
  PROVE  ToUsec(p) \in Pairs /\ ToUsec(ToUsec(p)) = ToUsec(p)
<1> DEFINE b == p[2]
           q == b \div Usec
           cut == Usec * q
<1>1. p[1] \in RepMin .. RepMax /\ b \in 0 .. Hz - 1 /\ b \in Int /\ b >= 0
  BY RepBounds DEF Pairs
<1> HIDE DEF b
<1>2. q \in Int /\ b % Usec \in 0 .. Usec - 1 /\ b = cut + (b % Usec)
  BY <1>1, DivMod, UsecAssumption
<1> HIDE DEF q
<1>3. q >= 0
  <2>1. q < 0 => Usec * q + Usec <= Usec * 0
    BY <1>2, Multiples, UsecAssumption
  <2> QED  BY <1>1, <1>2, <2>1, UsecAssumption
<1>4. cut \in 0 .. Hz - 1 /\ cut \in Int /\ cut >= 0
  BY <1>1, <1>2, <1>3, UsecAssumption, RepBounds
<1>5. cut \div Usec = q
  <2> DEFINE x == cut \div Usec
             y == cut % Usec
  <2>1. cut = Usec * q + 0
    BY <1>4
  <2> HIDE DEF cut
  <2>2. x \in Int /\ y \in 0 .. Usec - 1 /\ cut = Usec * x + y
    BY <1>4, DivMod, UsecAssumption
  <2> HIDE DEF x, y
  <2>3. x = q
    BY <1>2, <2>1, <2>2, DivUnique, UsecAssumption
  <2> QED  BY <2>3 DEF x
<1>6. Quot(b, Usec) * Usec = cut /\ Quot(cut, Usec) * Usec = cut
  <2>1. Quot(b, Usec) = q /\ Quot(cut, Usec) = q
    BY <1>1, <1>4, <1>5 DEF Quot, q
  <2> QED  BY <1>2, <2>1, UsecAssumption
<1>7. ToUsec(p) = <<p[1], cut>> /\ ToUsec(<<p[1], cut>>) = <<p[1], cut>>
  BY <1>6 DEF ToUsec, b
<1> QED  BY <1>1, <1>4, <1>7 DEF Pairs

-----------------------------------------------------------------------------
(* The inductive invariant.                                                 *)

Fields == {"op", "pc", "arg", "opts", "st", "old", "touched", "got", "ec"}
CallRecord(c) == DOMAIN c = Fields

\* A change of bits under way, now at bits: what its fstat has said is a set of
\* bits that may be given back to the file, and still true of the bits that no
\* other call has changed.
BitsPending(c, bits, may) ==
  /\ c.opts \in Options
  /\ c.pc = "apply" /\ TwoCalls(c.opts) =>
       c.st \subseteq may /\ \A bit \in may \ c.touched : bit \in c.st <=> bit \in bits

\* A change of times under way.
TimesPending(c) ==
  /\ c.arg \in Rep \X Rep /\ c.st \in Pairs \X Pairs
  /\ "atime" \notin c.touched => c.st[1] = inode.atime
  /\ "mtime" \notin c.touched => c.st[2] = inode.mtime

Pending(c) ==
  /\ c.op \in {"perms", "attrs", "times"}
  /\ c.op = "perms" => BitsPending(c, inode.mode, All \cup Special)
  /\ c.op = "attrs" => c.arg \subseteq Attrs /\ BitsPending(c, inode.flags, Native)
  /\ c.op = "times" => TimesPending(c)

\* What BitsExact and TimesExact say of one call that left n behind.
ChangeExact(c, n) ==
  /\ c.op = "perms" =>
       \A bit \in All \cup (Special \ c.arg) : AsDocumented(bit, n.mode, c)
  /\ c.op = "attrs" /\ run.flags => \A bit \in Native : AsDocumented(bit, n.flags, c)
  /\ c.op = "times" => /\ TimeExact(n.atime, c.arg[1], "atime", c.old[1], c)
                       /\ TimeExact(n.mtime, c.arg[2], "mtime", c.old[2], c)
MetadataExact(c) ==
  /\ c.op = "get_times" => c.got = <<Ticks(inode.atime), Ticks(inode.mtime)>>
  /\ ChangeExact(c, inode)

MetadataCallOK(c) ==
  /\ CallRecord(c)
  /\ c.pc \in {"idle", "stat", "apply", "done"}
  /\ c.ec \in {"ok", "EPERM", "value_too_large"}
  /\ c.pc \in {"stat", "apply"} => Pending(c)
  /\ c.pc = "done" /\ c.ec = "ok" => MetadataExact(c)

MetadataOK ==
  /\ inode \in [mode : SUBSET (All \cup Special), flags : SUBSET Native,
                atime : Pairs, mtime : Pairs]
  /\ run.futimens \in BOOLEAN /\ run.flags \in BOOLEAN

\* A call under way knows bits that the file had, or has, and nothing of what
\* a change that ended has done is lost before its caller sees it.
MetadataInv ==
  /\ MetadataOK
  /\ doing = [t \in Threads |-> doing[t]]
  /\ \A t \in Threads : MetadataCallOK(doing[t])

LEMMA MetadataInvImplies == MetadataInv => BitsExact /\ TimesExact
<1> SUFFICES ASSUME MetadataInv  PROVE BitsExact /\ TimesExact
  OBVIOUS
<1>1. MetadataTypeOK
  BY DEF MetadataInv, MetadataOK, MetadataCallOK, MetadataTypeOK
<1>2. BitsExact
  BY <1>1 DEF MetadataInv, MetadataCallOK, MetadataExact, ChangeExact, BitsExact
<1>3. TimesExact
  BY DEF MetadataInv, MetadataCallOK, MetadataExact, ChangeExact, TimesExact
<1> QED  BY <1>2, <1>3

LEMMA NoCallOK == MetadataCallOK(NoCall)
  BY DEF MetadataCallOK, CallRecord, Fields, NoCall

LEMMA EpochFits == <<0, 1>> \in Pairs /\ <<max_first, max_second + 1>> \in Pairs
<1> DEFINE n == RepMax + 1
<1>1. /\ RepMax \in Int /\ RepMax >= 0 /\ Hz \in Nat \ {0}
      /\ n \in Int /\ n = RepMax + 1 /\ n % Hz # 0
  BY RepBounds, RepAssumption
<1>2. /\ max_first \in Int /\ max_first >= 0
      /\ RepMax - Hz * max_first \in 0 .. Hz - 1
  BY <1>1, QuotRest DEF max_first
<1>3. max_second = RepMax - Hz * max_first
  BY <1>2, RepBounds DEF max_second
<1> HIDE DEF n
<1>4. max_second + 1 # Hz
  <2> SUFFICES ASSUME max_second + 1 = Hz  PROVE FALSE
    OBVIOUS
  <2> DEFINE x == n \div Hz
             y == n % Hz
             q == max_first + 1
  <2>1. q \in Int /\ n = Hz * q + 0
    BY <1>1, <1>2, <1>3
  <2>2. x \in Int /\ y \in 0 .. Hz - 1 /\ n = Hz * x + y
    BY <1>1, DivMod
  <2> HIDE DEF x, y, q
  <2>3. 0 \in 0 .. Hz - 1 /\ Hz * x + y = Hz * q + 0
    BY <1>1, <2>1, <2>2
  <2>4. \A z \in 0 .. Hz - 1 : Hz * x + y = Hz * q + z => y = z
    BY <1>1, <2>1, <2>2, DivUnique
  <2> QED  BY <1>1, <2>3, <2>4 DEF y
<1>5. max_first <= RepMax
  BY <1>2, Scaled, RepBounds
<1> QED  BY <1>2, <1>3, <1>4, <1>5, RepBounds DEF Pairs

LEMMA MetadataInvInit == MetadataInit => MetadataInv
<1> SUFFICES ASSUME MetadataInit  PROVE MetadataInv
  OBVIOUS
<1>1. run.futimens \in BOOLEAN /\ run.flags \in BOOLEAN
  BY DEF MetadataInit
<1>2. inode \in [mode : SUBSET (All \cup Special), flags : SUBSET Native,
                 atime : Pairs, mtime : Pairs]
  BY EpochFits DEF MetadataInit, All, Native
<1> QED  BY <1>1, <1>2, NoCallOK DEF MetadataInit, MetadataInv, MetadataOK

-----------------------------------------------------------------------------
(* The steps.                                                               *)

\* A step that changes one call and nothing else.
LEMMA OneMetadataCall ==
  ASSUME MetadataInv, UNCHANGED <<inode, run>>, NEW t \in Threads, NEW c, MetadataCallOK(c),
         doing' = [doing EXCEPT ![t] = c]
  PROVE  MetadataInv'
<1>1. MetadataOK'
  BY DEF MetadataInv, MetadataOK
<1>2. ASSUME NEW d, MetadataCallOK(d)  PROVE MetadataCallOK(d)'
  BY <1>2 DEF MetadataCallOK, CallRecord, Pending, BitsPending,
              TimesPending, MetadataExact, ChangeExact, AsDocumented, TimeExact,
              Near, Ticks, Given
<1>3. \A u \in Threads : MetadataCallOK(doing'[u])
  BY DEF MetadataInv
<1>4. ASSUME NEW u \in Threads  PROVE MetadataCallOK(doing[u])'
  BY <1>2, <1>3
<1> QED  BY <1>1, <1>4 DEF MetadataInv

LEMMA MetadataReturnStep ==
  ASSUME MetadataInv, NEW t \in Threads, MetadataReturn(t)
  PROVE  MetadataInv'
  BY NoCallOK, OneMetadataCall DEF MetadataReturn

\* A getter reads the inode; the two that a property is about read the time
\* that is there, or fail.
LEMMA MetadataGetStep ==
  ASSUME MetadataInv, NEW t \in Threads, permissions(t) \/ attributes(t) \/ get_times(t)
  PROVE  MetadataInv'
<1>1. ASSUME NEW op \in {"get_perms", "get_attrs", "get_times"}, NEW got,
             NEW ec \in {"ok", "value_too_large"}, Get(t, op, got, ec),
             op = "get_times" /\ ec = "ok" => got = <<Ticks(inode.atime), Ticks(inode.mtime)>>
      PROVE  MetadataInv'
  <2> DEFINE c == MetadataEnded([NoCall EXCEPT !.op = op], got, ec)
  <2>1. MetadataCallOK(c)
    BY <1>1 DEF MetadataEnded, NoCall, MetadataCallOK, CallRecord, Fields, MetadataExact,
                ChangeExact
  <2> QED  BY <1>1, <2>1, OneMetadataCall DEF Get
<1>2. CASE permissions(t) \/ attributes(t)
  BY <1>1, <1>2 DEF permissions, attributes
<1>3. CASE get_times(t)
  <2> DEFINE r == stat_to_times(inode)
             a == compose_time(inode.atime[1], inode.atime[2])
             m == compose_time(inode.mtime[1], inode.mtime[2])
  <2>1. inode.atime \in Pairs /\ inode.mtime \in Pairs
    BY DEF MetadataInv, MetadataOK
  <2>2. a.ok => a.v = Ticks(inode.atime)
    BY <2>1, ComposeExact
  <2>3. m.ok => m.v = Ticks(inode.mtime)
    BY <2>1, ComposeExact
  <2> HIDE DEF a, m
  <2>4. r = IF a.ok /\ m.ok THEN Is(<<a.v, m.v>>) ELSE Failed
    BY DEF stat_to_times, a, m
  <2>5. r.ok => r.v = <<Ticks(inode.atime), Ticks(inode.mtime)>>
    BY <2>2, <2>3, <2>4 DEF Is, Failed
  <2>6. Get(t, "get_times", r.v, IF r.ok THEN "ok" ELSE "value_too_large")
    BY <1>3 DEF get_times
  <2> HIDE DEF r
  <2> QED  BY <1>1, <2>5, <2>6
<1> QED  BY <1>2, <1>3

\* A change begins, or is ignored by a build without file flags.
LEMMA BitsBegin ==
  ASSUME MetadataInv, NEW t \in Threads, NEW arg, NEW o \in Options,
         set_permissions(t, arg, o) \/ (arg \subseteq Attrs /\ set_attributes(t, arg, o))
  PROVE  MetadataInv'
<1>1. ASSUME NEW op \in {"perms", "attrs"}, op = "attrs" => arg \subseteq Attrs,
             MetadataBegin(t, [NoCall EXCEPT !.op = op, !.arg = arg, !.opts = o,
                                             !.pc = IF TwoCalls(o) THEN "stat" ELSE "apply"])
      PROVE  MetadataInv'
  <2> DEFINE c == [NoCall EXCEPT !.op = op, !.arg = arg, !.opts = o,
                     !.pc = IF TwoCalls(o) THEN "stat" ELSE "apply"]
  <2>1. /\ CallRecord(c) /\ c.op = op /\ c.arg = arg /\ c.opts = o /\ c.ec = "ok"
        /\ c.pc = IF TwoCalls(o) THEN "stat" ELSE "apply"
    BY DEF CallRecord, Fields, NoCall
  <2>2. MetadataBegin(t, c)
    BY <1>1
  <2> HIDE DEF c
  <2>3. Pending(c)
    BY <1>1, <2>1 DEF Pending, BitsPending
  <2>4. MetadataCallOK(c)
    BY <2>1, <2>3 DEF MetadataCallOK
  <2> QED  BY <2>2, <2>4, OneMetadataCall DEF MetadataBegin
<1>2. CASE set_permissions(t, arg, o)
  BY <1>1, <1>2 DEF set_permissions
<1>3. CASE arg \subseteq Attrs /\ set_attributes(t, arg, o) /\ run.flags
  BY <1>1, <1>3 DEF set_attributes
<1>4. CASE set_attributes(t, arg, o) /\ ~run.flags
  <2> DEFINE c == MetadataEnded([NoCall EXCEPT !.op = "attrs"], 0, "ok")
  <2>1. MetadataCallOK(c)
    BY <1>4 DEF MetadataEnded, NoCall, MetadataCallOK, CallRecord, Fields, MetadataExact,
                ChangeExact
  <2> QED  BY <1>4, <2>1, OneMetadataCall DEF set_attributes, Get
<1> QED  BY <1>2, <1>3, <1>4

LEMMA TimesBegin ==
  ASSUME MetadataInv, NEW t \in Threads, NEW a \in Rep, NEW m \in Rep, set_times(t, a, m)
  PROVE  MetadataInv'
<1> DEFINE now == <<inode.atime, inode.mtime>>
           c == [NoCall EXCEPT !.op = "times", !.arg = <<a, m>>,
                   !.pc = IF ~run.futimens /\ (a = 0 \/ m = 0) THEN "stat" ELSE "apply",
                   !.st = now]
<1>1. MetadataBegin(t, c)
  BY DEF set_times
<1>2. /\ CallRecord(c) /\ c.op = "times" /\ c.arg = <<a, m>> /\ c.st = now
      /\ c.ec = "ok" /\ c.pc \in {"stat", "apply"}
  BY DEF CallRecord, Fields, NoCall
<1> HIDE DEF c
<1>3. MetadataCallOK(c)
  BY <1>2 DEF MetadataInv, MetadataOK, MetadataCallOK, Pending, TimesPending
<1> QED  BY <1>1, <1>3, OneMetadataCall DEF MetadataBegin

\* The times a program sets fit.
LEMMA TimesFit == Times \cup {0, 1} \subseteq Rep
<1>1. Hz \div 2 \in Int /\ Hz \div 2 >= 0 /\ Hz \div 2 <= Hz
  BY RepBounds
<1> QED  BY <1>1, RepBounds DEF Times, Rep

LEMMA MetadataBeginsStep ==
  ASSUME MetadataInv, NEW t \in Threads, Begins(t)
  PROVE  MetadataInv'
<1> USE DEF file_permissions, unique_permissions, file_set_permissions,
            unique_set_permissions, file_attributes, unique_attributes, file_set_attributes,
            unique_set_attributes, file_times, unique_times, file_set_times,
            unique_set_times, service_permissions, service_set_permissions,
            service_attributes, service_set_attributes, service_times, service_set_times,
            handle_permissions, handle_set_permissions, handle_attributes,
            handle_set_attributes, handle_times, handle_set_times
<1>1. CASE permissions(t) \/ attributes(t) \/ get_times(t)
  BY <1>1, MetadataGetStep
<1>2. ASSUME NEW arg, NEW o \in Options,
             set_permissions(t, arg, o) \/ (arg \subseteq Attrs /\ set_attributes(t, arg, o))
      PROVE  MetadataInv'
  BY <1>2, BitsBegin
<1>3. ASSUME NEW a \in Times, NEW m \in {0, 1}, set_times(t, a, m)
      PROVE  MetadataInv'
  BY <1>3, TimesBegin, TimesFit
<1> QED  BY <1>1, <1>2, <1>3 DEF Begins

\* fstat: what it says is what the file has.
LEMMA MetadataStatStep ==
  ASSUME MetadataInv, NEW t \in Threads, stat(t) \/ stat_fails(t)
  PROVE  MetadataInv'
<1>1. CASE stat_fails(t)
  <2>1. MetadataCallOK(MetadataEnded(NoCall, 0, "EPERM"))
    BY DEF MetadataEnded, NoCall, MetadataCallOK, CallRecord, Fields
  <2> QED  BY <1>1, <2>1, OneMetadataCall DEF stat_fails
<1>2. CASE stat(t)
  <2> DEFINE new == Part(doing[t].op, inode)
             c == [doing[t] EXCEPT !.pc = "apply", !.st = new]
  <2>1. MetadataCallOK(doing[t]) /\ Pending(doing[t]) /\ doing[t].pc = "stat" /\ MetadataOK
    BY <1>2 DEF stat, MetadataInv, MetadataCallOK
  <2>2. doing' = [doing EXCEPT ![t] = c]
    BY <1>2 DEF stat, MetadataInv
  <2>3. /\ CallRecord(c) /\ c.op = doing[t].op /\ c.arg = doing[t].arg /\ c.opts = doing[t].opts
        /\ c.touched = doing[t].touched /\ c.ec = doing[t].ec
        /\ c.pc = "apply" /\ c.st = new
    BY <2>1 DEF MetadataCallOK, CallRecord, Fields
  <2> HIDE DEF c
  <2>4. Pending(c)
    BY <2>1, <2>3 DEF Pending, BitsPending, TimesPending, MetadataOK, Part
  <2>5. MetadataCallOK(c)
    BY <2>1, <2>3, <2>4 DEF MetadataCallOK
  <2> QED  BY <1>2, <2>2, <2>5, OneMetadataCall DEF stat
<1> QED  BY <1>1, <1>2

LEMMA MetadataApplyFails ==
  ASSUME MetadataInv, NEW t \in Threads, apply_fails(t)
  PROVE  MetadataInv'
<1> DEFINE ec == IF Applied(t).ok THEN "EPERM" ELSE "value_too_large"
<1>1. MetadataCallOK(MetadataEnded(NoCall, 0, ec))
  BY DEF MetadataEnded, NoCall, MetadataCallOK, CallRecord, Fields
<1> QED  BY <1>1, OneMetadataCall DEF apply_fails

-----------------------------------------------------------------------------
(* The change itself.                                                       *)

\* A change of bits makes what its options are documented to make of the bits
\* before it, when fstat has told the truth of those nobody touched.  The bits
\* handed to the system are real, which may lack some of the argument.
LEMMA ChangedAsDocumented ==
  ASSUME NEW c, NEW bits, NEW real, NEW may, BitsPending(c, bits, may), c.pc = "apply",
         real \subseteq may, NEW d,
         d.arg = c.arg, d.opts = c.opts, d.touched = c.touched, d.old = bits
  PROVE  /\ Changed(c.st, real, c.opts) \subseteq may
         /\ \A bit \in may : (bit \in real <=> bit \in c.arg) =>
              AsDocumented(bit, Changed(c.st, real, c.opts), d)
<1> DEFINE st == c.st
           opts == c.opts
<1>1. /\ opts \in Options
      /\ TwoCalls(opts) =>
           st \subseteq may /\ \A bit \in may \ c.touched : bit \in st <=> bit \in bits
  BY DEF BitsPending
<1>2. /\ d.opts = opts /\ d.old = bits
      /\ \A bit : (bit \in d.arg <=> bit \in c.arg) /\ (bit \in d.touched <=> bit \in c.touched)
  OBVIOUS
<1> HIDE DEF st, opts
<1>3. /\ Changed(st, real, opts) \subseteq may
      /\ \A bit \in may : (bit \in real <=> bit \in c.arg) =>
           AsDocumented(bit, Changed(st, real, opts), d)
  <2>1. CASE opts = {"replace"}
    BY <1>1, <1>2, <2>1 DEF Changed, AsDocumented, TwoCalls
  <2>2. CASE opts = {"add"}
    BY <1>1, <1>2, <2>2 DEF Changed, AsDocumented, TwoCalls
  <2>3. CASE opts = {"remove"}
    BY <1>1, <1>2, <2>3 DEF Changed, AsDocumented, TwoCalls
  <2>4. CASE opts = {"add", "remove"}
    BY <1>1, <1>2, <2>4 DEF Changed, AsDocumented, TwoCalls
  <2> QED  BY <1>1, <2>1, <2>2, <2>3, <2>4 DEF Options
<1> QED  BY <1>3 DEF st, opts

\* set_times writes a time that the file system can hold: the one meant.
LEMMA NewTimeNear ==
  ASSUME MetadataInv, NEW t \in Rep, NEW old \in Pairs
  PROVE  /\ NewTime(t, old).ok /\ NewTime(t, old).v \in Pairs
         /\ Near(NewTime(t, old).v, IF t = 0 THEN old ELSE Given(t))
<1>1. run.futimens \in BOOLEAN
  BY DEF MetadataInv, MetadataOK
<1>2. CASE t = 0
  BY <1>1, <1>2, UsecTwice DEF NewTime, Is, Near
<1>3. CASE t # 0
  <2> DEFINE d == <<t \div Hz, t % Hz>>
  <2>1. decompose_time(t) = Is(d) /\ d \in Pairs /\ Given(t) = d
    BY <1>3, DecomposeExact DEF Given
  <2> HIDE DEF d
  <2>2. NewTime(t, old) = IF run.futimens THEN Is(d) ELSE Is(ToUsec(d))
    BY <1>3, <2>1 DEF NewTime, to_timespec, to_timeval, Is
  <2> QED  BY <1>1, <1>3, <2>1, <2>2, UsecTwice DEF Is, Near
<1> QED  BY <1>2, <1>3

\* What apply() does to the inode, for each kind of change; d is the call after it.
LEMMA AppliedOK ==
  ASSUME MetadataInv, NEW t \in Threads, doing[t].pc = "apply", NEW n, n = Applied(t).v, NEW d,
         d.op = doing[t].op, d.arg = doing[t].arg, d.opts = doing[t].opts,
         d.touched = doing[t].touched, d.old = Part(doing[t].op, inode)
  PROVE  /\ Applied(t).ok
         /\ n \in [mode : SUBSET (All \cup Special), flags : SUBSET Native,
                   atime : Pairs, mtime : Pairs]
         /\ ChangeExact(d, n)
<1> DEFINE c == doing[t]
<1>1. Pending(c) /\ c.pc = "apply" /\ MetadataOK
  BY DEF MetadataInv, MetadataCallOK
<1>2. /\ inode \in [mode : SUBSET (All \cup Special), flags : SUBSET Native,
                    atime : Pairs, mtime : Pairs]
      /\ run.futimens \in BOOLEAN
  BY <1>1 DEF MetadataOK
<1>0. /\ d.op = c.op /\ d.arg = c.arg /\ d.opts = c.opts /\ d.touched = c.touched
      /\ d.old = Part(c.op, inode)
  OBVIOUS
<1> HIDE DEF c
<1>3. CASE c.op = "perms"
  <2> DEFINE real == c.arg \cap All
             may == All \cup Special
             new == Changed(c.st, real, c.opts)
  <2>1. BitsPending(c, inode.mode, may) /\ real \subseteq may /\ d.old = inode.mode
    BY <1>0, <1>1, <1>3 DEF Pending, Part
  <2>2. /\ new \subseteq may
        /\ \A bit \in may : (bit \in real <=> bit \in c.arg) => AsDocumented(bit, new, d)
    <3> HIDE DEF may, real
    <3> QED  BY <1>0, <1>1, <2>1, ChangedAsDocumented
  <2>3. Applied(t) = Is([inode EXCEPT !.mode = new])
    BY <1>3 DEF Applied, PermsApplied, c
  <2>4. \A bit \in All \cup (Special \ d.arg) : bit \in may /\ (bit \in real <=> bit \in c.arg)
    BY <1>0 DEF All, Special
  <2> HIDE DEF new, real
  <2>5. Applied(t).ok /\ n = [inode EXCEPT !.mode = new]
    BY <2>3 DEF Is
  <2>6. n.mode = new
    BY <1>2, <2>5
  <2> QED  BY <1>0, <1>2, <1>3, <2>2, <2>4, <2>5, <2>6 DEF ChangeExact
<1>4. CASE c.op = "attrs"
  <2> DEFINE real == c.arg \cap Supported
             new == Changed(c.st, real, c.opts)
  <2>1. BitsPending(c, inode.flags, Native) /\ real \subseteq Native /\ d.old = inode.flags
    BY <1>0, <1>1, <1>4 DEF Pending, Part, Native
  <2>2. /\ new \subseteq Native
        /\ \A bit \in Native : (bit \in real <=> bit \in c.arg) => AsDocumented(bit, new, d)
    <3> HIDE DEF real
    <3> QED  BY <1>0, <1>1, <2>1, ChangedAsDocumented
  <2>3. Applied(t) = Is([inode EXCEPT !.flags = new])
    BY <1>4 DEF Applied, AttrsApplied, file_attrs_to_native, c
  <2>4. \A bit \in Native : bit \in real <=> bit \in c.arg
    BY <1>1, <1>4 DEF Pending, Native, Attrs, Supported
  <2> HIDE DEF new, real
  <2>5. Applied(t).ok /\ n = [inode EXCEPT !.flags = new]
    BY <2>3 DEF Is
  <2>6. n.flags = new
    BY <1>2, <2>5
  <2>7. ChangeExact(d, n)
    <3>1. d.op = "attrs" /\ \A bit \in Native : bit \in real <=> bit \in c.arg
      BY <1>0, <1>4, <2>4
    <3>2. \A bit \in Native : AsDocumented(bit, n.flags, d)
      BY <2>2, <2>6, <3>1
    <3> QED  BY <3>1, <3>2 DEF ChangeExact
  <2> QED  BY <1>2, <2>2, <2>5, <2>7
<1>5. CASE c.op = "times"
  <2> DEFINE x == IF run.futimens THEN inode.atime ELSE c.st[1]
             y == IF run.futimens THEN inode.mtime ELSE c.st[2]
             a == NewTime(c.arg[1], x)
             m == NewTime(c.arg[2], y)
  <2>1. TimesPending(c)
    BY <1>1, <1>5 DEF Pending
  <2>2. c.arg[1] \in Rep /\ c.arg[2] \in Rep /\ x \in Pairs /\ y \in Pairs
    BY <1>2, <2>1 DEF TimesPending
  <2>3. /\ "atime" \notin c.touched => x = d.old[1]
        /\ "mtime" \notin c.touched => y = d.old[2]
    BY <1>0, <1>5, <2>1 DEF TimesPending, Part
  <2> HIDE DEF x, y
  <2>4. a.ok /\ a.v \in Pairs /\ Near(a.v, IF c.arg[1] = 0 THEN x ELSE Given(c.arg[1]))
    BY <2>2, NewTimeNear
  <2>5. m.ok /\ m.v \in Pairs /\ Near(m.v, IF c.arg[2] = 0 THEN y ELSE Given(c.arg[2]))
    BY <2>2, NewTimeNear
  <2>6. Applied(t) = Is([inode EXCEPT !.atime = a.v, !.mtime = m.v])
    BY <1>5, <2>4, <2>5 DEF Applied, TimesApplied, c, x, y
  <2> HIDE DEF a, m
  <2>7. Applied(t).ok /\ n = [inode EXCEPT !.atime = a.v, !.mtime = m.v]
    BY <2>6 DEF Is
  <2>8. n.atime = a.v /\ n.mtime = m.v
    BY <1>2, <2>7
  <2>9. n \in [mode : SUBSET (All \cup Special), flags : SUBSET Native,
               atime : Pairs, mtime : Pairs]
    BY <1>2, <2>4, <2>5, <2>7
  <2>10. /\ TimeExact(n.atime, c.arg[1], "atime", d.old[1], d)
         /\ TimeExact(n.mtime, c.arg[2], "mtime", d.old[2], d)
    BY <1>0, <2>3, <2>4, <2>5, <2>8 DEF TimeExact
  <2> QED  BY <1>0, <1>5, <2>7, <2>9, <2>10 DEF ChangeExact
<1> QED  BY <1>1, <1>3, <1>4, <1>5 DEF Pending

\* fchmod, fchflags, futimens and futimes: the caller's own call is over, and
\* the others have seen the inode change, or it is as it was.
LEMMA MetadataApplyStep ==
  ASSUME MetadataInv, NEW t \in Threads, apply(t), \A u \in Threads : doing[u].pc # "done"
  PROVE  MetadataInv'
<1> DEFINE d == [MetadataEnded(doing[t], 0, "ok") EXCEPT !.old = Part(doing[t].op, inode)]
<1>1. /\ doing[t].pc = "apply" /\ inode' = Applied(t).v /\ run' = run
      /\ doing' = [u \in Threads |-> IF u = t THEN d ELSE Shared(doing[u], inode, inode')]
  BY DEF apply
<1>2. /\ CallRecord(d) /\ d.op = doing[t].op /\ d.pc = "done" /\ d.arg = doing[t].arg
      /\ d.opts = doing[t].opts /\ d.touched = doing[t].touched /\ d.ec = "ok"
      /\ d.old = Part(doing[t].op, inode)
  BY DEF MetadataInv, MetadataCallOK, CallRecord, Fields, MetadataEnded
<1> HIDE DEF d
<1>3. /\ inode' \in [mode : SUBSET (All \cup Special), flags : SUBSET Native,
                     atime : Pairs, mtime : Pairs]
      /\ ChangeExact(d, inode')
  <2> DEFINE n == inode'
  <2>1. n = Applied(t).v
    BY <1>1
  <2> HIDE DEF n
  <2>2. /\ n \in [mode : SUBSET (All \cup Special), flags : SUBSET Native,
                  atime : Pairs, mtime : Pairs]
        /\ ChangeExact(d, n)
    BY <1>1, <1>2, <2>1, AppliedOK
  <2> QED  BY <2>2 DEF n
<1>4. MetadataOK'
  BY <1>1, <1>3 DEF MetadataInv, MetadataOK
<1>5. ASSUME NEW u \in Threads, u # t  PROVE MetadataCallOK(doing[u])'
  <2> DEFINE c == doing[u]
             e == [c EXCEPT !.touched = @ \cup Differences(inode, inode')]
  <2>1. MetadataCallOK(c) /\ c.pc # "done"
    BY DEF MetadataInv
  <2>2. CASE c.pc = "idle"
    <3>1. doing'[u] = c
      BY <1>1, <1>5, <2>2 DEF Shared
    <3> QED  BY <2>1, <2>2, <3>1 DEF MetadataCallOK
  <2>3. CASE c.pc # "idle"
    <3>1. doing'[u] = e
      BY <1>1, <1>5, <2>3 DEF Shared
    <3>2. /\ CallRecord(e) /\ e.op = c.op /\ e.pc = c.pc /\ e.arg = c.arg
          /\ e.opts = c.opts /\ e.st = c.st /\ e.ec = c.ec
          /\ e.touched = c.touched \cup Differences(inode, inode')
      BY <2>1 DEF MetadataCallOK, CallRecord, Fields
    <3>3. Pending(c) /\ run' = run
      BY <1>1, <2>1, <2>3 DEF MetadataCallOK
    <3> HIDE DEF e, c
    <3>4. ASSUME BitsPending(c, inode.mode, All \cup Special)
          PROVE  BitsPending(e, inode'.mode, All \cup Special)
      BY <3>2, <3>4 DEF BitsPending, Differences
    <3>5. ASSUME BitsPending(c, inode.flags, Native)
          PROVE  BitsPending(e, inode'.flags, Native)
      BY <3>2, <3>5 DEF BitsPending, Differences
    <3>6. ASSUME TimesPending(c)
          PROVE  /\ e.arg \in Rep \X Rep /\ e.st \in Pairs \X Pairs
                 /\ "atime" \notin e.touched => e.st[1] = inode'.atime
                 /\ "mtime" \notin e.touched => e.st[2] = inode'.mtime
      BY <3>2, <3>6 DEF TimesPending, Differences
    <3>7. Pending(doing[u])'
      BY <3>1, <3>2, <3>3, <3>4, <3>5, <3>6 DEF Pending, BitsPending, TimesPending
    <3> QED  BY <2>1, <3>1, <3>2, <3>7 DEF MetadataCallOK, CallRecord
  <2> QED  BY <2>2, <2>3
<1>6. MetadataCallOK(doing[t])'
  <2>1. doing'[t] = d
    BY <1>1
  <2>2. d.op # "get_times"
    BY <1>1, <1>2 DEF MetadataInv, MetadataCallOK, Pending
  <2>4. MetadataExact(doing[t])'
    BY <1>1, <1>2, <1>3, <2>1, <2>2
       DEF MetadataExact, ChangeExact, AsDocumented, TimeExact, Near, Given
  <2> QED  BY <1>2, <2>1, <2>4 DEF MetadataCallOK, CallRecord
<1>7. ASSUME NEW u \in Threads  PROVE MetadataCallOK(doing[u])'
  BY <1>5, <1>6
<1>8. doing' = [u \in Threads |-> doing'[u]]
  BY <1>1
<1> QED  BY <1>4, <1>7, <1>8 DEF MetadataInv

LEMMA MetadataInvNext == MetadataInv /\ [MetadataNext]_metadataVars => MetadataInv'
<1> SUFFICES ASSUME MetadataInv, [MetadataNext]_metadataVars  PROVE MetadataInv'
  OBVIOUS
<1>1. CASE UNCHANGED metadataVars
  <2>1. UNCHANGED <<inode, doing, run>>
    BY <1>1 DEF metadataVars
  <2> QED  BY <2>1 DEF MetadataInv, MetadataOK, MetadataCallOK, CallRecord, Pending,
                       BitsPending, TimesPending, MetadataExact, ChangeExact,
                       AsDocumented, TimeExact, Near, Ticks, Given
<1>2. ASSUME NEW t \in Threads, MetadataReturn(t)  PROVE MetadataInv'
  BY <1>2, MetadataReturnStep
<1>3. ASSUME NEW t \in Threads, \A u \in Threads : doing[u].pc # "done",
             Begins(t) \/ stat(t) \/ stat_fails(t) \/ apply(t) \/ apply_fails(t)
      PROVE  MetadataInv'
  BY <1>3, MetadataBeginsStep, MetadataStatStep, MetadataApplyStep, MetadataApplyFails
<1> QED  BY <1>1, <1>2, <1>3 DEF MetadataNext

LEMMA MetadataInvInvariant == MetadataSpec => []MetadataInv
  BY MetadataInvInit, MetadataInvNext, PTL DEF MetadataSpec

\* Every change of permissions or attributes that succeeds does to each bit what
\* its options are documented to do, whatever runs between its fstat and its
\* fchmod, except to bits not given that another call changed meanwhile, and to
\* the special bits that are given, which the code masks away.
THEOREM BitsExactInvariant == MetadataSpec => []BitsExact
  BY MetadataInvInvariant, MetadataInvImplies, PTL

\* Times that are set are the ones meant, before and after the epoch and at both
\* ends of the range, with and without futimens, and the others are kept unless
\* another call changes them; times that are read are those of the inode and have
\* not wrapped around.
THEOREM TimesExactInvariant == MetadataSpec => []TimesExact
  BY MetadataInvInvariant, MetadataInvImplies, PTL

=============================================================================
