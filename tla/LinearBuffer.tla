---------------------------- MODULE LinearBuffer ----------------------------
(***************************************************************************)
(* basic_linear_buffer (linear_buffer.hpp, impl/linear_buffer.hpp) with    *)
(* the default allocator, memory block by memory block.  A block is a      *)
(* sequence of cells; writing past its end makes it longer than it was     *)
(* allocated, reading past its end yields Wild.  val is what the           *)
(* documentation says a buffer holds, Unspecified where it says nothing.    *)
(* std::length_error and a failing allocation leave everything as it is:   *)
(* they are guards and stuttering steps.                                   *)
(***************************************************************************)
EXTENDS Integers, Sequences

CONSTANTS
  Buffers,     \* buffer objects
  Blocks,      \* memory blocks the allocator can hand out
  Bytes,       \* byte values that users write
  Junk,        \* content of fresh memory
  Wild,        \* what an access outside of a block sees
  Unspecified, \* an unspecified byte of a documented value
  NoBlock,     \* the null pointer
  SizeMax,     \* the largest std::size_t
  AllocMax,    \* allocator_traits::max_size
  MaxArg       \* bound: length of the data passed to one call

ASSUME SizeAssumption == SizeMax \in Nat /\ AllocMax \in 0 .. SizeMax /\ MaxArg \in Nat
ASSUME BlockAssumption == NoBlock \notin Blocks

VARIABLES
  alive,       \* constructed and not destroyed
  data, capacity, size, max_size,
  live,        \* allocated blocks
  heap,        \* content of the blocks
  val          \* the documented value of each buffer

vars == <<alive, data, capacity, size, max_size, live, heap, val>>

Cells == Bytes \cup {Junk}
Args == UNION {[1 .. n -> Bytes] : n \in 0 .. MaxArg}
MinOf(a, b) == IF a < b THEN a ELSE b
MaxOf(a, b) == IF a < b THEN b ELSE a
Const(n, c) == [i \in 1 .. n |-> c]
Take(s, n) == SubSeq(s, 1, n)
Drop(s, n) == SubSeq(s, n + 1, Len(s))

Mem(b) == IF data[b] = NoBlock THEN <<>> ELSE heap[data[b]]
Content(b) == Take(Mem(b), size[b])

\* std::memcpy and std::memmove of n bytes from src + s to dst + d.
memmove(dst, d, src, s, n) ==
  [i \in 1 .. MaxOf(Len(dst), IF n = 0 THEN 0 ELSE d + n) |->
     IF i > d /\ i <= d + n
     THEN IF s + i - d <= Len(src) THEN src[s + i - d] ELSE Wild
     ELSE dst[i]]

Init ==
  /\ alive = {}
  /\ data = [b \in Buffers |-> NoBlock]
  /\ capacity = [b \in Buffers |-> 0]
  /\ size = [b \in Buffers |-> 0]
  /\ max_size = [b \in Buffers |-> 0]
  /\ live = {}
  /\ heap = [k \in Blocks |-> <<>>]
  /\ val = [b \in Buffers |-> <<>>]

\* length_error is thrown unless n more bytes fit.
MayGrow(b, n) == size[b] <= max_size[b] /\ n <= max_size[b] - size[b]

\* Mutant of calculate_capacity: the requested size is not looked at.
calculate_doubled(b, n) ==
  LET twice == (2 * capacity[b]) % (SizeMax + 1)
  IN IF twice < max_size[b] THEN MaxOf(1, twice) ELSE max_size[b]

\* std::size_t arithmetic: capacity_ * 2 may wrap.
calculate_capacity(b, n) ==
  LET twice == (2 * capacity[b]) % (SizeMax + 1)
  IN IF twice < max_size[b] THEN MaxOf(n, twice) ELSE max_size[b]

\* The new block is allocated and filled before the old one is given back.
reallocate(b, cap, mem) ==
  \E k \in Blocks \ live :
     /\ live' = (live \ {data[b]}) \cup {k}
     /\ heap' = [j \in Blocks |-> IF j = k THEN mem
                                  ELSE IF j = data[b] THEN <<>> ELSE heap[j]]
     /\ data' = [data EXCEPT ![b] = k]
     /\ capacity' = [capacity EXCEPT ![b] = cap]

\* Write mem to the block of b.
inplace(b, mem) ==
  /\ heap' = [k \in Blocks |-> IF k = data[b] THEN mem ELSE heap[k]]
  /\ UNCHANGED <<live, data, capacity>>

\* b holds n bytes, documented as v.
holds(b, n, v) ==
  /\ size' = [size EXCEPT ![b] = n]
  /\ val' = [val EXCEPT ![b] = v]
  /\ UNCHANGED <<alive, max_size>>

-----------------------------------------------------------------------------
(* Construction, copies and moves.                                          *)

\* basic_linear_buffer(), and with an allocator.
construct(b) ==
  /\ b \notin alive
  /\ alive' = alive \cup {b}
  /\ max_size' = [max_size EXCEPT ![b] = AllocMax]
  /\ UNCHANGED <<data, capacity, size, live, heap, val>>

\* Allocate a block of n cells for the new buffer b.
allocate(b, mem, m, v) ==
  /\ b \notin alive
  /\ \E k \in Blocks \ live :
        /\ live' = live \cup {k}
        /\ heap' = [heap EXCEPT ![k] = mem]
        /\ data' = [data EXCEPT ![b] = k]
  /\ alive' = alive \cup {b}
  /\ capacity' = [capacity EXCEPT ![b] = Len(mem)]
  /\ size' = [size EXCEPT ![b] = Len(mem)]
  /\ max_size' = [max_size EXCEPT ![b] = m]
  /\ val' = [val EXCEPT ![b] = v]

\* basic_linear_buffer(initial_size, maximum_size); nothing requires that the
\* one is at most the other.
construct_sized(b, n, m) ==
  allocate(b, Const(n, Junk), MinOf(AllocMax, m), Const(n, Unspecified))

copy_construct(b, o) ==
  /\ o \in alive
  /\ allocate(b, memmove(Const(size[o], Junk), 0, Mem(o), 0, size[o]),
              max_size[o], val[o])

\* The pointer is taken from o, which is left empty.
take_from(b, o) ==
  /\ data' = [data EXCEPT ![b] = data[o], ![o] = NoBlock]
  /\ capacity' = [capacity EXCEPT ![b] = capacity[o], ![o] = 0]
  /\ size' = [size EXCEPT ![b] = size[o], ![o] = 0]
  /\ max_size' = [max_size EXCEPT ![b] = max_size[o]]
  /\ val' = [val EXCEPT ![b] = val[o], ![o] = <<>>]
  /\ UNCHANGED <<live, heap>>

move_construct(b, o) ==
  /\ b \notin alive /\ o \in alive
  /\ alive' = alive \cup {b}
  /\ take_from(b, o)

\* Move-assignment for an allocator that propagates.  The block that b owned
\* is not given back; a self-assignment leaves b empty.
move_assign(b, o) ==
  /\ {b, o} \subseteq alive
  /\ take_from(b, o)
  /\ UNCHANGED alive

copy_assign(b, o) ==
  /\ {b, o} \subseteq alive
  /\ size[o] <= max_size[b]
  /\ IF size[o] > capacity[b]
     THEN LET cap == calculate_capacity(b, size[o])
          IN reallocate(b, cap, memmove(Const(cap, Junk), 0, Mem(o), 0, size[o]))
     ELSE inplace(b, memmove(Mem(b), 0, Mem(o), 0, size[o]))
  /\ holds(b, size[o], val[o])

destroy(b) ==
  /\ b \in alive
  /\ alive' = alive \ {b}
  /\ live' = live \ {data[b]}
  /\ heap' = [k \in Blocks |-> IF k = data[b] THEN <<>> ELSE heap[k]]
  /\ data' = [data EXCEPT ![b] = NoBlock]
  /\ capacity' = [capacity EXCEPT ![b] = 0]
  /\ size' = [size EXCEPT ![b] = 0]
  /\ max_size' = [max_size EXCEPT ![b] = 0]
  /\ val' = [val EXCEPT ![b] = <<>>]

-----------------------------------------------------------------------------
(* Changes of the content.                                                  *)

append(b, s) ==
  LET n == size[b] + Len(s)
      cap == calculate_capacity(b, n)
      kept == memmove(Const(cap, Junk), 0, Mem(b), 0, size[b])
  IN /\ b \in alive
     /\ MayGrow(b, Len(s))
     /\ IF n > capacity[b]
        THEN reallocate(b, cap, memmove(kept, size[b], s, 0, Len(s)))
        ELSE inplace(b, memmove(Mem(b), size[b], s, 0, Len(s)))
     /\ holds(b, n, val[b] \o s)

\* Insert s before position p.  Without a reallocation the tail is moved from
\* p + Len(s) to p, and then overwritten: of the bytes behind the inserted ones
\* nothing is specified.
insert(b, p, s) ==
  LET n == size[b] + Len(s)
      rest == size[b] - p
      cap == calculate_capacity(b, n)
      head == memmove(Const(cap, Junk), 0, Mem(b), 0, p)
      middle == memmove(head, p, s, 0, Len(s))
      moved == memmove(Mem(b), p, Mem(b), p + Len(s), rest)
  IN /\ b \in alive
     /\ p <= size[b]
     /\ MayGrow(b, Len(s))
     /\ IF n > capacity[b]
        THEN /\ reallocate(b, cap, memmove(middle, p + Len(s), Mem(b), p, rest))
             /\ holds(b, n, Take(val[b], p) \o s \o Drop(val[b], p))
        ELSE /\ inplace(b, memmove(moved, p, s, 0, Len(s)))
             /\ holds(b, n, Take(val[b], p) \o s \o Const(rest, Unspecified))

\* Mutant of erased: one byte too few is moved.
erased_short(b, first, last) ==
  memmove(Mem(b), first, Mem(b), last, MaxOf(0, size[b] - last - 1))

\* The tail is moved to where the erased bytes were.
erased(b, first, last) == memmove(Mem(b), first, Mem(b), last, size[b] - last)

\* erase(first, last); erase(pos) is erase(pos, pos + 1).
erase(b, first, last) ==
  /\ b \in alive
  /\ first <= last /\ last <= size[b]
  /\ inplace(b, erased(b, first, last))
  /\ holds(b, size[b] - (last - first), Take(val[b], first) \o Drop(val[b], last))

reserve(b, cap) ==
  /\ b \in alive
  /\ cap <= max_size[b] /\ cap > capacity[b]
  /\ reallocate(b, cap, memmove(Const(cap, Junk), 0, Mem(b), 0, size[b]))
  /\ holds(b, size[b], val[b])

\* What a buffer documented as v is documented as when it is resized to n.
resized(v, n) == IF n <= Len(v) THEN Take(v, n) ELSE v \o Const(n - Len(v), Unspecified)

resize(b, n) ==
  /\ b \in alive
  /\ n <= max_size[b]
  /\ IF n > capacity[b]
     THEN LET cap == calculate_capacity(b, n)
          IN reallocate(b, cap, memmove(Const(cap, Junk), 0, Mem(b), 0, size[b]))
     ELSE UNCHANGED <<live, heap, data, capacity>>
  /\ holds(b, n, resized(val[b], n))

clear(b) ==
  /\ b \in alive
  /\ holds(b, 0, <<>>)
  /\ UNCHANGED <<live, heap, data, capacity>>

\* A byte written through operator[], an iterator or a mutable buffer.
store(b, i, c) ==
  /\ b \in alive
  /\ i \in 1 .. size[b]
  /\ inplace(b, [Mem(b) EXCEPT ![i] = c])
  /\ holds(b, size[b], [val[b] EXCEPT ![i] = c])

Sizes == 0 .. AllocMax

Lifetime(b) ==
  \/ construct(b)
  \/ \E n, m \in Sizes : construct_sized(b, n, m)
  \/ \E o \in Buffers : \/ copy_construct(b, o)
                        \/ move_construct(b, o)
                        \/ copy_assign(b, o)
                        \/ move_assign(b, o)
  \/ destroy(b)

Change(b) ==
  \/ \E s \in Args : append(b, s)
  \/ \E s \in Args : \E p \in Sizes : insert(b, p, s)
  \/ \E p, q \in Sizes : erase(b, p, q)
  \/ \E n \in Sizes : reserve(b, n)
  \/ \E n \in Sizes : resize(b, n)
  \/ clear(b)
  \/ \E i \in Sizes : \E c \in Bytes : store(b, i, c)

Next == \E b \in Buffers : Lifetime(b) \/ Change(b)

Spec == Init /\ [][Next]_vars

-----------------------------------------------------------------------------
\* The variables have their types; no cell holds what an access outside of its
\* block would have read.
TypeOK ==
  /\ alive \subseteq Buffers
  /\ data \in [Buffers -> Blocks \cup {NoBlock}]
  /\ capacity \in [Buffers -> Nat]
  /\ size \in [Buffers -> Nat]
  /\ max_size \in [Buffers -> Nat]
  /\ live \subseteq Blocks
  /\ heap \in [Blocks -> Seq(Cells)]
  /\ val \in [Buffers -> Seq(Bytes \cup {Unspecified})]

\* A buffer's pointer refers to an allocated block of exactly capacity_ cells
\* that belongs to no other buffer (so it is deallocated once and with the size
\* it was allocated with, and every access stays inside), or is null and the
\* capacity is zero: through copies, moves and reallocations.
BlocksOwned ==
  TypeOK /\ \A b \in Buffers :
    /\ size[b] <= capacity[b]
    /\ data[b] = NoBlock => capacity[b] = 0
    /\ data[b] # NoBlock => /\ data[b] \in live
                            /\ Len(heap[data[b]]) = capacity[b]
                            /\ \A o \in Buffers \ {b} : data[o] # data[b]

\* The bytes in memory are the ones the documentation of the calls so far
\* promises (memory from in-place inserts and growth excepted).
ContentAsDocumented ==
  \A b \in alive :
    /\ Len(val[b]) = size[b]
    /\ \A i \in 1 .. size[b] : val[b][i] \in {Unspecified, Mem(b)[i]}

=============================================================================
