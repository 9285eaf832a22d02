------------------------- MODULE LinearBufferProofs -------------------------
(***************************************************************************)
(* For any number of buffers, blocks and bytes, and any width of           *)
(* std::size_t: every buffer owns a block of exactly its capacity, no      *)
(* operation reads or writes outside of it, and the buffers and the input  *)
(* sequence of a view hold what is documented.                             *)
(***************************************************************************)
EXTENDS DynamicLinearBuffer, SequenceTheorems, TLAPS

Values == Bytes \cup {Unspecified}

\* Memory m holds what is documented as v.
Matches(v, m) == \A i \in 1 .. Len(v) : v[i] \in {Unspecified, m[i]}

\* The inductive invariant: the documented value has the size of the buffer, so
\* that positions in the buffer are positions in it, and is what memory holds.
Inv == BlocksOwned /\ \A b \in Buffers : Len(val[b]) = size[b] /\ Matches(val[b], Mem(b))

\* calculate_capacity never falls short of what is asked, also when the doubled
\* capacity wraps around.
LEMMA CapacitySuffices ==
  ASSUME TypeOK, NEW b \in Buffers, NEW n \in Nat, n <= max_size[b]
  PROVE  calculate_capacity(b, n) \in Nat /\ n <= calculate_capacity(b, n)
<1> DEFINE twice == (2 * capacity[b]) % (SizeMax + 1)
<1>1. 2 * capacity[b] \in Nat /\ SizeMax + 1 \in Nat /\ SizeMax + 1 > 0
  BY SizeAssumption DEF TypeOK
<1>2. twice \in Nat
  BY <1>1
<1> HIDE DEF twice
<1>3. max_size[b] \in Nat
  BY DEF TypeOK
<1>4. calculate_capacity(b, n) = IF twice < max_size[b] THEN MaxOf(n, twice) ELSE max_size[b]
  BY DEF calculate_capacity, twice
<1> QED  BY <1>2, <1>3, <1>4 DEF MaxOf

\* Functions on an initial segment are sequences of that length.
LEMMA FunctionSeq ==
  ASSUME NEW S, NEW n \in Nat, NEW f \in [1 .. n -> S]
  PROVE  f \in Seq(S) /\ Len(f) = n
OBVIOUS

\* mem is dst, but for n cells copied from src + s to dst + d and what is behind.
Copied(mem, dst, d, src, s, n) ==
  /\ mem \in Seq(Cells) /\ Len(mem) = Len(dst)
  /\ \A i \in 1 .. d : mem[i] = dst[i]
  /\ \A i \in 1 .. n : mem[d + i] = src[s + i]

\* A copy within the bounds of both blocks keeps the length of the target and
\* what is before the cells that are copied to.
LEMMA MemmoveWithin ==
  ASSUME NEW dst \in Seq(Cells), NEW src \in Seq(Cells),
         NEW d \in Nat, NEW s \in Nat, NEW n \in Nat,
         s + n <= Len(src), d + n <= Len(dst)
  PROVE  Copied(memmove(dst, d, src, s, n), dst, d, src, s, n)
<1>1. Len(dst) \in Nat /\ MaxOf(Len(dst), IF n = 0 THEN 0 ELSE d + n) = Len(dst)
  BY DEF MaxOf
<1>2. \A i \in 1 .. Len(dst) :
        (IF i > d /\ i <= d + n
         THEN IF s + i - d <= Len(src) THEN src[s + i - d] ELSE Wild
         ELSE dst[i]) \in Cells
  <2> SUFFICES ASSUME NEW i \in 1 .. Len(dst)
               PROVE  (IF i > d /\ i <= d + n
                       THEN IF s + i - d <= Len(src) THEN src[s + i - d] ELSE Wild
                       ELSE dst[i]) \in Cells
    OBVIOUS
  <2>1. CASE i > d /\ i <= d + n
    <3>1. s + i - d \in 1 .. Len(src)
      BY <2>1, <1>1
    <3> QED  BY <2>1, <3>1, ElementOfSeq
  <2>2. CASE ~(i > d /\ i <= d + n)
    BY <2>2, ElementOfSeq
  <2> QED  BY <2>1, <2>2
<1>3. memmove(dst, d, src, s, n) \in [1 .. Len(dst) -> Cells]
  BY <1>1, <1>2 DEF memmove
<1>4. ASSUME NEW i \in 1 .. d  PROVE memmove(dst, d, src, s, n)[i] = dst[i]
  <2>1. i \in 1 .. Len(dst) /\ ~(i > d)
    BY <1>1
  <2> QED  BY <1>1, <2>1 DEF memmove
<1>5. ASSUME NEW i \in 1 .. n  PROVE memmove(dst, d, src, s, n)[d + i] = src[s + i]
  <2>1. /\ d + i \in 1 .. Len(dst) /\ d + i > d /\ d + i <= d + n
        /\ s + (d + i) - d = s + i /\ s + i <= Len(src)
    BY <1>1
  <2> QED  BY <1>1, <2>1 DEF memmove
<1>6. memmove(dst, d, src, s, n) \in Seq(Cells) /\ Len(memmove(dst, d, src, s, n)) = Len(dst)
  BY <1>1, <1>3, FunctionSeq
<1> QED  BY <1>4, <1>5, <1>6 DEF Copied

\* What a fresh block and a constant value are.
LEMMA ConstSeq ==
  ASSUME NEW S, NEW c \in S, NEW n \in Nat
  PROVE  Const(n, c) \in Seq(S) /\ Len(Const(n, c)) = n
BY FunctionSeq DEF Const

\* The memory of a buffer has its capacity.
LEMMA MemFacts ==
  ASSUME Inv, NEW b \in Buffers
  PROVE  /\ Mem(b) \in Seq(Cells) /\ Len(Mem(b)) = capacity[b]
         /\ size[b] \in Nat /\ capacity[b] \in Nat /\ max_size[b] \in Nat
         /\ size[b] <= capacity[b]
         /\ val[b] \in Seq(Values) /\ Len(val[b]) = size[b] /\ Matches(val[b], Mem(b))
<1>1. CASE data[b] = NoBlock
  BY <1>1 DEF Inv, BlocksOwned, TypeOK, Mem, Values
<1>2. CASE data[b] # NoBlock
  BY <1>2 DEF Inv, BlocksOwned, TypeOK, Mem, Values
<1> QED  BY <1>1, <1>2

\* The beginning and the end of a value.
LEMMA TakeDrop ==
  ASSUME NEW S, NEW v \in Seq(S), NEW p \in 0 .. Len(v)
  PROVE  /\ Take(v, p) \in Seq(S) /\ Len(Take(v, p)) = p
         /\ Drop(v, p) \in Seq(S) /\ Len(Drop(v, p)) = Len(v) - p
         /\ \A i \in 1 .. p : Take(v, p)[i] = v[i]
         /\ \A i \in 1 .. Len(v) - p : Drop(v, p)[i] = v[p + i]
<1>1. \A i \in 1 .. Len(v) : v[i] \in S
  BY ElementOfSeq
<1>2. /\ SubSeq(v, 1, p) \in Seq(S)
      /\ Len(SubSeq(v, 1, p)) = IF 1 <= p THEN p - 1 + 1 ELSE 0
      /\ \A i \in 1 .. p - 1 + 1 : SubSeq(v, 1, p)[i] = v[1 + i - 1]
  BY <1>1, SubSeqProperties
<1>3. /\ SubSeq(v, p + 1, Len(v)) \in Seq(S)
      /\ Len(SubSeq(v, p + 1, Len(v))) = IF p + 1 <= Len(v) THEN Len(v) - (p + 1) + 1 ELSE 0
      /\ \A i \in 1 .. Len(v) - (p + 1) + 1 : SubSeq(v, p + 1, Len(v))[i] = v[(p + 1) + i - 1]
  BY <1>1, SubSeqProperties
<1> QED  BY <1>2, <1>3 DEF Take, Drop

\* w is m elements of v, from the one behind position k.
Slice(w, v, k, m) ==
  w \in Seq(Values) /\ Len(w) = m /\ \A i \in 1 .. m : w[i] = v[k + i]

LEMMA Dropped ==
  ASSUME NEW v \in Seq(Values), NEW k \in 0 .. Len(v)
  PROVE  Slice(Drop(v, k), v, k, Len(v) - k)
BY TakeDrop DEF Slice

-----------------------------------------------------------------------------
(* What the parts of the operations preserve.                               *)

\* A reallocation.
LEMMA Reallocated ==
  ASSUME Inv, NEW b \in Buffers, NEW cap \in Nat, NEW mem \in Seq(Cells), Len(mem) = cap,
         NEW n \in 0 .. cap, NEW v \in Seq(Values), Len(v) = n, Matches(v, mem),
         reallocate(b, cap, mem), holds(b, n, v)
  PROVE  Inv'
<1>1. PICK k \in Blocks \ live :
        /\ live' = (live \ {data[b]}) \cup {k}
        /\ heap' = [j \in Blocks |-> IF j = k THEN mem
                                     ELSE IF j = data[b] THEN <<>> ELSE heap[j]]
        /\ data' = [data EXCEPT ![b] = k]
        /\ capacity' = [capacity EXCEPT ![b] = cap]
  BY DEF reallocate
<1>2. <<>> \in Seq(Cells)
  BY EmptySeq
<1>3. TypeOK'
  BY <1>1, <1>2, SMTT(20) DEF Inv, BlocksOwned, TypeOK, holds, Values
<1>4. \A o \in Buffers \ {b} : data[o] # NoBlock => data[o] \in live /\ data[o] # k /\ data[o] # data[b]
  BY <1>1 DEF Inv, BlocksOwned, TypeOK
<1>5. ASSUME NEW o \in Buffers
      PROVE  /\ size'[o] <= capacity'[o]
             /\ data'[o] = NoBlock => capacity'[o] = 0
             /\ data'[o] # NoBlock => /\ data'[o] \in live'
                                      /\ Len(heap'[data'[o]]) = capacity'[o]
                                      /\ \A p \in Buffers \ {o} : data'[p] # data'[o]
             /\ Len(val'[o]) = size'[o] /\ Matches(val'[o], Mem(o)')
  <2>1. CASE o = b
    <3>1. /\ data'[b] = k /\ k # NoBlock /\ size'[b] = n /\ val'[b] = v /\ capacity'[b] = cap
          /\ heap'[k] = mem /\ k \in live'
      BY <1>1, BlockAssumption DEF Inv, BlocksOwned, TypeOK, holds
    <3>2. \A p \in Buffers \ {b} : data'[p] # k
      BY <1>1, <1>4, BlockAssumption DEF Inv, BlocksOwned, TypeOK
    <3> QED  BY <2>1, <3>1, <3>2 DEF Mem
  <2>2. CASE o # b
    <3>1. /\ data'[o] = data[o] /\ size'[o] = size[o] /\ capacity'[o] = capacity[o]
          /\ val'[o] = val[o] /\ data'[b] = k
      BY <2>2, <1>1 DEF Inv, BlocksOwned, TypeOK, holds
    <3>2. data[o] # NoBlock => /\ data[o] \in live' /\ heap'[data[o]] = heap[data[o]]
                               /\ \A p \in Buffers \ {o} : data'[p] # data[o]
      BY <2>2, <1>1, <1>4 DEF Inv, BlocksOwned, TypeOK
    <3>3. Mem(o)' = Mem(o)
      BY <3>1, <3>2 DEF Mem
    <3> QED  BY <3>1, <3>2, <3>3 DEF Inv, BlocksOwned
  <2> QED  BY <2>1, <2>2
<1> QED  BY <1>3, <1>5 DEF Inv, BlocksOwned

\* A change in place.
LEMMA Inplaced ==
  ASSUME Inv, NEW b \in Buffers, NEW mem \in Seq(Cells), Len(mem) = capacity[b],
         NEW n \in 0 .. capacity[b], NEW v \in Seq(Values), Len(v) = n, Matches(v, mem),
         inplace(b, mem), holds(b, n, v)
  PROVE  Inv'
<1>1. TypeOK'
  BY DEF Inv, BlocksOwned, TypeOK, holds, inplace, Values
<1>2. ASSUME NEW o \in Buffers
      PROVE  /\ size'[o] <= capacity'[o] /\ Len(val'[o]) = size'[o]
             /\ data'[o] # NoBlock => Len(heap'[data'[o]]) = capacity'[o]
             /\ Matches(val'[o], Mem(o)')
  <2>1. CASE o = b
    <3>1. size'[b] = n /\ val'[b] = v /\ data'[b] = data[b] /\ capacity'[b] = capacity[b]
      BY DEF Inv, BlocksOwned, TypeOK, holds, inplace
    <3>2. data[b] # NoBlock => heap'[data[b]] = mem
      BY DEF Inv, BlocksOwned, TypeOK, inplace
    <3>3. data[b] = NoBlock => n = 0
      BY DEF Inv, BlocksOwned
    <3>4. data[b] = NoBlock => Matches(v, Mem(b)')
      BY <3>3 DEF Matches
    <3>5. data[b] # NoBlock => Mem(b)' = mem
      BY <3>1, <3>2 DEF Mem
    <3> QED  BY <2>1, <3>1, <3>2, <3>4, <3>5
  <2>2. CASE o # b
    <3>1. /\ size'[o] = size[o] /\ val'[o] = val[o] /\ data'[o] = data[o]
          /\ capacity'[o] = capacity[o]
      BY <2>2 DEF Inv, BlocksOwned, TypeOK, holds, inplace
    <3>2. data[o] # NoBlock => heap'[data[o]] = heap[data[o]]
      BY <2>2 DEF Inv, BlocksOwned, TypeOK, inplace
    <3>3. Mem(o)' = Mem(o)
      BY <3>1, <3>2 DEF Mem
    <3> QED  BY <3>1, <3>2, <3>3 DEF Inv, BlocksOwned
  <2> QED  BY <2>1, <2>2
<1> QED  BY <1>1, <1>2 DEF Inv, BlocksOwned, inplace

\* A change of the size alone.
LEMMA Resized ==
  ASSUME Inv, NEW b \in Buffers, NEW n \in 0 .. capacity[b], NEW v \in Seq(Values), Len(v) = n,
         Matches(v, Mem(b)), UNCHANGED <<live, heap, data, capacity>>, holds(b, n, v)
  PROVE  Inv'
<1>1. TypeOK'
  BY DEF Inv, BlocksOwned, TypeOK, holds, Values
<1>2. ASSUME NEW o \in Buffers
      PROVE  size'[o] <= capacity'[o] /\ Len(val'[o]) = size'[o] /\ Matches(val'[o], Mem(o)')
  <2>1. Mem(o)' = Mem(o)
    BY DEF Mem
  <2>2. /\ size'[o] = IF o = b THEN n ELSE size[o]
        /\ val'[o] = IF o = b THEN v ELSE val[o]
    BY DEF Inv, BlocksOwned, TypeOK, holds
  <2> QED  BY <2>1, <2>2 DEF Inv, BlocksOwned
<1> QED  BY <1>1, <1>2 DEF Inv, BlocksOwned

\* A constructor that allocates.
LEMMA Allocated ==
  ASSUME Inv, NEW b \in Buffers, NEW mem \in Seq(Cells), NEW m \in Nat,
         NEW v \in Seq(Values), Len(v) = Len(mem), Matches(v, mem), allocate(b, mem, m, v)
  PROVE  Inv'
<1>1. PICK k \in Blocks \ live : /\ live' = live \cup {k} /\ heap' = [heap EXCEPT ![k] = mem]
                                 /\ data' = [data EXCEPT ![b] = k]
  BY DEF allocate
<1>2. Len(mem) \in Nat
  OBVIOUS
<1>3. TypeOK'
  BY <1>1, <1>2 DEF Inv, BlocksOwned, TypeOK, allocate, Values
<1>4. \A o \in Buffers \ {b} : data[o] # NoBlock => data[o] \in live /\ data[o] # k
  BY <1>1 DEF Inv, BlocksOwned, TypeOK
<1>5. ASSUME NEW o \in Buffers
      PROVE  /\ size'[o] <= capacity'[o]
             /\ data'[o] = NoBlock => capacity'[o] = 0
             /\ data'[o] # NoBlock => /\ data'[o] \in live'
                                      /\ Len(heap'[data'[o]]) = capacity'[o]
                                      /\ \A p \in Buffers \ {o} : data'[p] # data'[o]
             /\ Len(val'[o]) = size'[o] /\ Matches(val'[o], Mem(o)')
  <2>1. CASE o = b
    <3>1. /\ data'[b] = k /\ k # NoBlock /\ size'[b] = Len(mem) /\ val'[b] = v
          /\ capacity'[b] = Len(mem) /\ heap'[k] = mem /\ k \in live'
      BY <1>1, BlockAssumption DEF Inv, BlocksOwned, TypeOK, allocate
    <3>2. \A p \in Buffers \ {b} : data'[p] # k
      BY <1>1, <1>4, BlockAssumption DEF Inv, BlocksOwned, TypeOK
    <3> QED  BY <1>2, <2>1, <3>1, <3>2 DEF Mem
  <2>2. CASE o # b
    <3>1. /\ size'[o] = size[o] /\ val'[o] = val[o] /\ data'[o] = data[o]
          /\ capacity'[o] = capacity[o] /\ data'[b] = k
      BY <2>2, <1>1 DEF Inv, BlocksOwned, TypeOK, allocate
    <3>2. data[o] # NoBlock => /\ data[o] \in live' /\ heap'[data[o]] = heap[data[o]]
                               /\ \A p \in Buffers \ {o} : data'[p] # data[o]
      BY <2>2, <1>1, <1>4 DEF Inv, BlocksOwned, TypeOK
    <3>3. Mem(o)' = Mem(o)
      BY <3>1, <3>2 DEF Mem
    <3> QED  BY <3>1, <3>2, <3>3 DEF Inv, BlocksOwned
  <2> QED  BY <2>1, <2>2
<1> QED  BY <1>3, <1>5 DEF Inv, BlocksOwned

\* The block changes hands, also when source and target are the same buffer.
LEMMA Taken ==
  ASSUME Inv, NEW b \in Buffers, NEW o \in Buffers, take_from(b, o), alive' \subseteq Buffers
  PROVE  Inv'
<1>1. <<>> \in Seq(Values) /\ Len(<<>>) = 0
  BY EmptySeq
<1>2. /\ data'[o] = NoBlock /\ capacity'[o] = 0 /\ size'[o] = 0 /\ val'[o] = <<>>
      /\ b # o => /\ data'[b] = data[o] /\ capacity'[b] = capacity[o] /\ size'[b] = size[o]
                  /\ val'[b] = val[o]
      /\ \A p \in Buffers \ {b, o} : /\ data'[p] = data[p] /\ capacity'[p] = capacity[p]
                                      /\ size'[p] = size[p] /\ val'[p] = val[p]
      /\ UNCHANGED <<live, heap>>
  BY DEF take_from, Inv, BlocksOwned, TypeOK
<1>3. TypeOK'
  BY <1>1 DEF take_from, Inv, BlocksOwned, TypeOK, Values
<1>4. ASSUME NEW p \in Buffers
      PROVE  /\ size'[p] <= capacity'[p]
             /\ data'[p] = NoBlock => capacity'[p] = 0
             /\ data'[p] # NoBlock => /\ data'[p] \in live'
                                      /\ Len(heap'[data'[p]]) = capacity'[p]
                                      /\ \A q \in Buffers \ {p} : data'[q] # data'[p]
             /\ Len(val'[p]) = size'[p] /\ Matches(val'[p], Mem(p)')
  <2>1. CASE p = o
    BY <2>1, <1>1, <1>2 DEF Matches
  <2>2. CASE p # o /\ p = b
    <3>1. Mem(p)' = Mem(o)
      BY <2>2, <1>2 DEF Mem
    <3> QED  BY <2>2, <3>1, <1>2 DEF Inv, BlocksOwned
  <2>3. CASE p # o /\ p # b
    <3>1. Mem(p)' = Mem(p)
      BY <2>3, <1>2 DEF Mem
    <3> QED  BY <2>3, <3>1, <1>2 DEF Inv, BlocksOwned
  <2> QED  BY <2>1, <2>2, <2>3
<1> QED  BY <1>3, <1>4 DEF Inv, BlocksOwned

\* The destructor.
LEMMA Destroyed ==
  ASSUME Inv, NEW b \in Buffers, destroy(b)
  PROVE  Inv'
<1>1. <<>> \in Seq(Cells) /\ <<>> \in Seq(Values) /\ Len(<<>>) = 0
  BY EmptySeq
<1>2. TypeOK'
  BY <1>1 DEF destroy, Inv, BlocksOwned, TypeOK, Values
<1>3. /\ data'[b] = NoBlock /\ capacity'[b] = 0 /\ size'[b] = 0 /\ val'[b] = <<>>
      /\ \A p \in Buffers \ {b} : /\ data'[p] = data[p] /\ capacity'[p] = capacity[p]
                                   /\ size'[p] = size[p] /\ val'[p] = val[p]
  BY DEF destroy, Inv, BlocksOwned, TypeOK
<1>4. \A p \in Buffers \ {b} : data[p] # NoBlock => /\ data[p] \in live'
                                                     /\ heap'[data[p]] = heap[data[p]]
  BY DEF destroy, Inv, BlocksOwned, TypeOK
<1>5. ASSUME NEW p \in Buffers
      PROVE  /\ size'[p] <= capacity'[p]
             /\ data'[p] = NoBlock => capacity'[p] = 0
             /\ data'[p] # NoBlock => /\ data'[p] \in live'
                                      /\ Len(heap'[data'[p]]) = capacity'[p]
                                      /\ \A q \in Buffers \ {p} : data'[q] # data'[p]
             /\ Len(val'[p]) = size'[p] /\ Matches(val'[p], Mem(p)')
  <2>1. CASE p = b
    BY <2>1, <1>1, <1>3 DEF Matches
  <2>2. CASE p # b
    <3>1. Mem(p)' = Mem(p)
      BY <2>2, <1>3, <1>4 DEF Mem
    <3> QED  BY <2>2, <3>1, <1>3, <1>4 DEF Inv, BlocksOwned
  <2> QED  BY <2>1, <2>2
<1> QED  BY <1>2, <1>5 DEF Inv, BlocksOwned

-----------------------------------------------------------------------------
(* The operations.                                                          *)

\* The bytes of an argument are cells and documented values.
LEMMA ArgFacts ==
  ASSUME NEW s \in Args
  PROVE  s \in Seq(Bytes) /\ s \in Seq(Cells) /\ s \in Seq(Values) /\ Len(s) \in Nat
<1>1. PICK n \in 0 .. MaxArg : s \in [1 .. n -> Bytes]
  BY DEF Args
<1>2. n \in Nat
  BY SizeAssumption
<1>3. s \in [1 .. n -> Cells] /\ s \in [1 .. n -> Values]
  BY <1>1 DEF Cells, Values
<1> QED  BY <1>1, <1>2, <1>3, FunctionSeq

\* A block of cap fresh cells.
LEMMA Fresh ==
  ASSUME NEW cap \in Nat
  PROVE  Const(cap, Junk) \in Seq(Cells) /\ Len(Const(cap, Junk)) = cap
BY ConstSeq DEF Cells

\* The first n bytes of a buffer, copied to a new block.
LEMMA CopiedToFresh ==
  ASSUME Inv, NEW b \in Buffers, NEW cap \in Nat, NEW n \in Nat, n <= cap, n <= size[b]
  PROVE  /\ memmove(Const(cap, Junk), 0, Mem(b), 0, n) \in Seq(Cells)
         /\ Len(memmove(Const(cap, Junk), 0, Mem(b), 0, n)) = cap
         /\ \A i \in 1 .. n : memmove(Const(cap, Junk), 0, Mem(b), 0, n)[i] = Mem(b)[i]
<1> DEFINE fresh == Const(cap, Junk)
<1> DEFINE m == Mem(b)
<1>1. fresh \in Seq(Cells) /\ Len(fresh) = cap
  BY Fresh
<1>2. m \in Seq(Cells) /\ 0 + n <= Len(m) /\ 0 + n <= Len(fresh)
  BY <1>1, MemFacts
<1> HIDE DEF fresh, m
<1> DEFINE mem == memmove(fresh, 0, m, 0, n)
<1>3. Copied(mem, fresh, 0, m, 0, n)
  BY <1>1, <1>2, MemmoveWithin
<1> HIDE DEF mem
<1>4. mem \in Seq(Cells) /\ Len(mem) = cap /\ \A i \in 1 .. n : mem[i] = m[i]
  BY <1>1, <1>3 DEF Copied
<1> QED  BY <1>4 DEF fresh, m, mem

\* The bytes of an argument, copied to position d of a block.
LEMMA ArgCopied ==
  ASSUME NEW dst \in Seq(Cells), NEW d \in Nat, NEW s \in Args, d + Len(s) <= Len(dst)
  PROVE  Copied(memmove(dst, d, s, 0, Len(s)), dst, d, s, 0, Len(s))
<1>1. s \in Seq(Cells) /\ Len(s) \in Nat /\ 0 + Len(s) <= Len(s)
  BY ArgFacts
<1> QED  BY <1>1, MemmoveWithin

\* Concatenation of two values.
LEMMA Concatenated ==
  ASSUME NEW S, NEW u \in Seq(S), NEW w \in Seq(S)
  PROVE  /\ u \o w \in Seq(S) /\ Len(u \o w) = Len(u) + Len(w)
         /\ \A i \in 1 .. Len(u) + Len(w) :
              (u \o w)[i] = IF i <= Len(u) THEN u[i] ELSE w[i - Len(u)]
BY ConcatProperties

\* A value is held by a copy of the memory that holds it, and its concatenation
\* with another one by memory that holds the one and, behind it, the other.
LEMMA MatchesCopy ==
  ASSUME NEW v \in Seq(Values), NEW m, NEW n, Matches(v, m),
         \A i \in 1 .. Len(v) : n[i] = m[i]
  PROVE  Matches(v, n)
BY DEF Matches

LEMMA MatchesConcat ==
  ASSUME NEW u \in Seq(Values), NEW w \in Seq(Values), NEW m, Matches(u, m),
         \A i \in 1 .. Len(w) : w[i] \in {Unspecified, m[Len(u) + i]}
  PROVE  Matches(u \o w, m)
<1> DEFINE x == u \o w
<1>1. /\ x \in Seq(Values) /\ Len(x) = Len(u) + Len(w) /\ Len(u) \in Nat /\ Len(w) \in Nat
      /\ \A i \in 1 .. Len(u) + Len(w) : x[i] = IF i <= Len(u) THEN u[i] ELSE w[i - Len(u)]
  BY Concatenated
<1> HIDE DEF x
<1>2. ASSUME NEW i \in 1 .. Len(x)  PROVE x[i] \in {Unspecified, m[i]}
  <2>1. CASE i <= Len(u)
    BY <1>1, <2>1 DEF Matches
  <2>2. CASE ~(i <= Len(u))
    <3>1. i - Len(u) \in 1 .. Len(w) /\ Len(u) + (i - Len(u)) = i
      BY <1>1, <2>2
    <3>2. x[i] = w[i - Len(u)]
      BY <1>1, <2>2
    <3> QED  BY <3>1, <3>2
  <2> QED  BY <2>1, <2>2
<1>3. Matches(x, m)
  BY <1>2 DEF Matches
<1> QED  BY <1>3 DEF x

\* A value of unspecified bytes is held by any memory.
LEMMA MatchesConst ==
  ASSUME NEW n \in Nat, NEW m
  PROVE  Matches(Const(n, Unspecified), m)
<1>1. Const(n, Unspecified) \in Seq(Values) /\ Len(Const(n, Unspecified)) = n
  BY ConstSeq DEF Values
<1>2. \A i \in 1 .. n : Const(n, Unspecified)[i] = Unspecified
  BY DEF Const
<1> QED  BY <1>1, <1>2 DEF Matches

\* The beginning of a value is held by the memory that holds the value.
LEMMA MatchesTake ==
  ASSUME NEW v \in Seq(Values), NEW p \in 0 .. Len(v), NEW m, Matches(v, m)
  PROVE  Matches(Take(v, p), m)
<1>1. Len(Take(v, p)) = p /\ \A i \in 1 .. p : Take(v, p)[i] = v[i]
  BY TakeDrop
<1> QED  BY <1>1 DEF Matches

\* Memory with the bytes of a buffer holds what the buffer is documented to hold.
LEMMA CopyMatches ==
  ASSUME Inv, NEW b \in Buffers, NEW mem, \A i \in 1 .. size[b] : mem[i] = Mem(b)[i]
  PROVE  Matches(val[b], mem)
<1>1. Len(val[b]) = size[b] /\ Matches(val[b], Mem(b))
  BY MemFacts
<1> QED  BY <1>1 DEF Matches

\* Construction and assignment.
LEMMA LifetimeStep ==
  ASSUME Inv, NEW b \in Buffers, Lifetime(b)
  PROVE  Inv'
<1>1. CASE construct(b)
  <2>1. AllocMax \in Nat
    BY SizeAssumption
  <2>2. BlocksOwned'
    BY <1>1, <2>1 DEF construct, Inv, BlocksOwned, TypeOK
  <2>3. \A o \in Buffers : Mem(o)' = Mem(o)
    BY <1>1 DEF construct, Mem
  <2> QED  BY <1>1, <2>2, <2>3 DEF construct, Inv
<1>2. CASE \E n, m \in Sizes : construct_sized(b, n, m)
  <2>1. PICK n \in Sizes, m \in Sizes : construct_sized(b, n, m)
    BY <1>2
  <2>2. n \in Nat /\ MinOf(AllocMax, m) \in Nat
    BY SizeAssumption DEF Sizes, MinOf
  <2>3. Const(n, Unspecified) \in Seq(Values) /\ Len(Const(n, Unspecified)) = n
    BY <2>2, ConstSeq DEF Values
  <2>4. Matches(Const(n, Unspecified), Const(n, Junk))
    BY <2>2, MatchesConst
  <2> QED  BY <2>1, <2>2, <2>3, <2>4, Fresh, Allocated DEF construct_sized
<1>3. ASSUME NEW o \in Buffers, copy_construct(b, o)  PROVE Inv'
  <2> DEFINE mem == memmove(Const(size[o], Junk), 0, Mem(o), 0, size[o])
  <2>1. mem \in Seq(Cells) /\ Len(mem) = size[o] /\ \A i \in 1 .. size[o] : mem[i] = Mem(o)[i]
    BY MemFacts, CopiedToFresh
  <2>2. allocate(b, mem, max_size[o], val[o])
    BY <1>3 DEF copy_construct
  <2> HIDE DEF mem
  <2>3. Matches(val[o], mem)
    BY <2>1, CopyMatches
  <2> QED  BY <2>1, <2>2, <2>3, MemFacts, Allocated
<1>4. ASSUME NEW o \in Buffers, move_construct(b, o)  PROVE Inv'
  <2>1. take_from(b, o) /\ alive' \subseteq Buffers
    BY <1>4 DEF move_construct, Inv, BlocksOwned, TypeOK
  <2> QED  BY <2>1, Taken
<1>5. ASSUME NEW o \in Buffers, move_assign(b, o)  PROVE Inv'
  <2>1. take_from(b, o) /\ alive' \subseteq Buffers
    BY <1>5 DEF move_assign, Inv, BlocksOwned, TypeOK
  <2> QED  BY <2>1, Taken
<1>6. ASSUME NEW o \in Buffers, copy_assign(b, o)  PROVE Inv'
  <2>1. holds(b, size[o], val[o]) /\ size[o] <= max_size[b]
    BY <1>6 DEF copy_assign
  <2>2. CASE size[o] > capacity[b]
    <3> DEFINE cap == calculate_capacity(b, size[o])
    <3> DEFINE mem == memmove(Const(cap, Junk), 0, Mem(o), 0, size[o])
    <3>1. cap \in Nat /\ size[o] \in 0 .. cap
      BY <2>1, MemFacts, CapacitySuffices DEF Inv, BlocksOwned
    <3>2. reallocate(b, cap, mem)
      BY <1>6, <2>2 DEF copy_assign
    <3> HIDE DEF cap
    <3>3. mem \in Seq(Cells) /\ Len(mem) = cap /\ \A i \in 1 .. size[o] : mem[i] = Mem(o)[i]
      <4>1. size[o] \in Nat /\ size[o] <= cap /\ size[o] <= size[o]
        BY <3>1
      <4> QED  BY <3>1, <4>1, CopiedToFresh
    <3> HIDE DEF mem
    <3>4. Matches(val[o], mem)
      BY <3>3, CopyMatches
    <3> QED  BY <2>1, <3>1, <3>2, <3>3, <3>4, MemFacts, Reallocated
  <2>3. CASE ~(size[o] > capacity[b])
    <3> DEFINE mem == memmove(Mem(b), 0, Mem(o), 0, size[o])
    <3>1. inplace(b, mem)
      BY <1>6, <2>3 DEF copy_assign
    <3>2. size[o] \in 0 .. capacity[b]
      BY <2>3, MemFacts
    <3>3. /\ mem \in Seq(Cells) /\ Len(mem) = capacity[b]
          /\ \A i \in 1 .. size[o] : mem[i] = Mem(o)[i]
      <4>1. /\ Mem(b) \in Seq(Cells) /\ Len(Mem(b)) = capacity[b] /\ capacity[b] \in Nat
            /\ Mem(o) \in Seq(Cells) /\ size[o] \in Nat /\ 0 + size[o] <= Len(Mem(o))
            /\ 0 + size[o] <= Len(Mem(b))
        BY <3>2, MemFacts
      <4>2. Copied(mem, Mem(b), 0, Mem(o), 0, size[o])
        BY <4>1, MemmoveWithin
      <4> HIDE DEF mem
      <4> QED  BY <4>1, <4>2 DEF Copied
    <3> HIDE DEF mem
    <3>4. Matches(val[o], mem)
      BY <3>3, CopyMatches
    <3> QED  BY <2>1, <3>1, <3>2, <3>3, <3>4, MemFacts, Inplaced
  <2> QED  BY <2>2, <2>3
<1>7. CASE destroy(b)
  BY <1>7, Destroyed
<1> QED  BY <1>1, <1>2, <1>3, <1>4, <1>5, <1>6, <1>7 DEF Lifetime

\* Memory that holds the bytes of a buffer and those of an argument behind them.
LEMMA Appended ==
  ASSUME Inv, NEW b \in Buffers, NEW s \in Args, NEW mem,
         \A i \in 1 .. size[b] : mem[i] = Mem(b)[i],
         \A i \in 1 .. Len(s) : mem[size[b] + i] = s[i]
  PROVE  Matches(val[b] \o s, mem)
<1>1. /\ val[b] \in Seq(Values) /\ Len(val[b]) = size[b] /\ s \in Seq(Values)
  BY MemFacts, ArgFacts
<1>2. Matches(val[b], mem)
  BY CopyMatches
<1>3. \A i \in 1 .. Len(s) : s[i] \in {Unspecified, mem[Len(val[b]) + i]}
  BY <1>1
<1> QED  BY <1>1, <1>2, <1>3, MatchesConcat

\* append.
LEMMA AppendStep ==
  ASSUME Inv, NEW b \in Buffers, NEW s \in Args, append(b, s)
  PROVE  Inv'
<1> DEFINE n == size[b] + Len(s)
<1> DEFINE v == val[b] \o s
<1>1. n \in Nat /\ n <= max_size[b] /\ Len(s) \in Nat /\ s \in Seq(Cells)
  BY MemFacts, ArgFacts DEF append, MayGrow
<1>2. v \in Seq(Values) /\ Len(v) = n
  BY MemFacts, ArgFacts, ConcatProperties
<1>3. holds(b, n, v)
  BY DEF append
<1>4. CASE n > capacity[b]
  <2> DEFINE cap == calculate_capacity(b, n)
  <2> DEFINE kept == memmove(Const(cap, Junk), 0, Mem(b), 0, size[b])
  <2> DEFINE mem == memmove(kept, size[b], s, 0, Len(s))
  <2>1. reallocate(b, cap, mem)
    BY <1>4 DEF append
  <2>2. cap \in Nat /\ n \in 0 .. cap
    <3> HIDE DEF n
    <3> QED  BY <1>1, CapacitySuffices DEF Inv, BlocksOwned
  <2> HIDE DEF cap
  <2>3. kept \in Seq(Cells) /\ Len(kept) = cap /\ \A i \in 1 .. size[b] : kept[i] = Mem(b)[i]
    <3>1. size[b] \in Nat /\ size[b] <= cap /\ size[b] <= size[b]
      BY <1>1, <2>2, MemFacts
    <3> HIDE DEF n, v
    <3> QED  BY <2>2, <3>1, CopiedToFresh
  <2> HIDE DEF kept
  <2>4. /\ mem \in Seq(Cells) /\ Len(mem) = cap
        /\ \A i \in 1 .. size[b] : mem[i] = kept[i]
        /\ \A i \in 1 .. Len(s) : mem[size[b] + i] = s[i]
    <3>1. size[b] \in Nat /\ size[b] + Len(s) <= Len(kept)
      BY <1>1, <2>2, <2>3, MemFacts
    <3>2. Copied(mem, kept, size[b], s, 0, Len(s))
      BY <2>3, <3>1, ArgCopied
    <3> HIDE DEF mem
    <3> QED  BY <2>3, <3>2 DEF Copied
  <2> HIDE DEF mem
  <2>5. Matches(v, mem)
    BY <2>3, <2>4, Appended
  <2> HIDE DEF n, v
  <2> QED  BY <1>2, <1>3, <2>1, <2>2, <2>4, <2>5, Reallocated
<1>5. CASE ~(n > capacity[b])
  <2> DEFINE mem == memmove(Mem(b), size[b], s, 0, Len(s))
  <2>1. inplace(b, mem)
    BY <1>5 DEF append
  <2>2. n \in 0 .. capacity[b]
    BY <1>1, <1>5, MemFacts
  <2>3. /\ mem \in Seq(Cells) /\ Len(mem) = capacity[b]
        /\ \A i \in 1 .. size[b] : mem[i] = Mem(b)[i]
        /\ \A i \in 1 .. Len(s) : mem[size[b] + i] = s[i]
    <3>1. /\ Mem(b) \in Seq(Cells) /\ Len(Mem(b)) = capacity[b]
          /\ size[b] \in Nat /\ size[b] + Len(s) <= Len(Mem(b))
      BY <1>1, <2>2, MemFacts
    <3>2. Copied(mem, Mem(b), size[b], s, 0, Len(s))
      BY <3>1, ArgCopied
    <3> HIDE DEF mem
    <3> QED  BY <3>1, <3>2 DEF Copied
  <2> HIDE DEF mem
  <2>4. Matches(v, mem)
    BY <2>3, Appended
  <2> HIDE DEF n, v
  <2> QED  BY <1>2, <1>3, <2>1, <2>2, <2>3, <2>4, Inplaced
<1> QED  BY <1>4, <1>5

\* insert: also where the tail is moved the wrong way, nothing leaves the block.
LEMMA InsertStep ==
  ASSUME Inv, NEW b \in Buffers, NEW s \in Args, NEW p \in Sizes, insert(b, p, s)
  PROVE  Inv'
<1> DEFINE n == size[b] + Len(s)
<1> DEFINE rest == size[b] - p
<1>1. /\ n \in Nat /\ n <= max_size[b] /\ Len(s) \in Nat /\ s \in Seq(Cells)
      /\ p \in Nat /\ p \in 0 .. Len(val[b]) /\ rest \in Nat
  <2>1. size[b] \in Nat /\ max_size[b] \in Nat /\ Len(val[b]) = size[b]
    BY MemFacts
  <2>2. Len(s) \in Nat /\ s \in Seq(Cells)
    BY ArgFacts
  <2>3. p <= size[b] /\ Len(s) <= max_size[b] - size[b] /\ p \in Nat
    BY DEF insert, MayGrow, Sizes
  <2> QED  BY <2>1, <2>2, <2>3, SMTT(20)
<1>2. /\ Take(val[b], p) \o s \in Seq(Values) /\ Len(Take(val[b], p) \o s) = p + Len(s)
      /\ \A mem : (\A i \in 1 .. p : mem[i] = Mem(b)[i])
                 /\ (\A i \in 1 .. Len(s) : mem[p + i] = s[i])
                 => Matches(Take(val[b], p) \o s, mem)
  <2> DEFINE u == Take(val[b], p)
  <2>1. u \in Seq(Values) /\ Len(u) = p
    BY <1>1, MemFacts, TakeDrop
  <2>2. s \in Seq(Values)
    BY ArgFacts
  <2>3. Matches(u, Mem(b))
    BY <1>1, MemFacts, MatchesTake
  <2> HIDE DEF u
  <2>4. u \o s \in Seq(Values) /\ Len(u \o s) = p + Len(s)
    BY <2>1, <2>2, Concatenated
  <2>5. ASSUME NEW mem, \A i \in 1 .. p : mem[i] = Mem(b)[i],
               \A i \in 1 .. Len(s) : mem[p + i] = s[i]
        PROVE  Matches(u \o s, mem)
    <3>1. Matches(u, mem)
      BY <2>1, <2>3, <2>5, MatchesCopy
    <3> QED  BY <2>1, <2>2, <2>5, <3>1, MatchesConcat
  <2> QED  BY <2>4, <2>5 DEF u
<1>3. CASE n > capacity[b]
  <2> DEFINE v == Take(val[b], p) \o s \o Drop(val[b], p)
  <2> DEFINE cap == calculate_capacity(b, n)
  <2> DEFINE head == memmove(Const(cap, Junk), 0, Mem(b), 0, p)
  <2> DEFINE middle == memmove(head, p, s, 0, Len(s))
  <2> DEFINE mem == memmove(middle, p + Len(s), Mem(b), p, rest)
  <2>1. reallocate(b, cap, mem) /\ holds(b, n, v)
    BY <1>3 DEF insert
  <2>2. cap \in Nat /\ n \in 0 .. cap
    <3> HIDE DEF n
    <3> QED  BY <1>1, CapacitySuffices DEF Inv, BlocksOwned
  <2> HIDE DEF cap
  <2>3. head \in Seq(Cells) /\ Len(head) = cap /\ \A i \in 1 .. p : head[i] = Mem(b)[i]
    <3>1. p <= cap /\ p <= size[b]
      BY <1>1, <2>2, MemFacts, SMTT(20)
    <3> QED  BY <1>1, <2>2, <3>1, CopiedToFresh
  <2> HIDE DEF head
  <2>4. /\ middle \in Seq(Cells) /\ Len(middle) = cap
        /\ \A i \in 1 .. p : middle[i] = head[i]
        /\ \A i \in 1 .. Len(s) : middle[p + i] = s[i]
    <3>1. p + Len(s) <= Len(head)
      BY <1>1, <2>2, <2>3, MemFacts
    <3>2. Copied(middle, head, p, s, 0, Len(s))
      BY <1>1, <2>3, <3>1, ArgCopied
    <3> HIDE DEF middle
    <3> QED  BY <2>3, <3>2 DEF Copied
  <2> HIDE DEF middle
  <2>5. /\ mem \in Seq(Cells) /\ Len(mem) = cap
        /\ \A i \in 1 .. p + Len(s) : mem[i] = middle[i]
        /\ \A i \in 1 .. rest : mem[(p + Len(s)) + i] = Mem(b)[p + i]
    <3>0. /\ Mem(b) \in Seq(Cells) /\ Len(Mem(b)) = capacity[b] /\ size[b] <= capacity[b]
          /\ size[b] \in Nat /\ capacity[b] \in Nat
      BY MemFacts
    <3>1. p + rest <= Len(Mem(b)) /\ p + Len(s) \in Nat
      BY <1>1, <3>0
    <3>2. (p + Len(s)) + rest <= Len(middle)
      BY <1>1, <2>2, <2>4, MemFacts
    <3> HIDE DEF rest
    <3>3. Copied(mem, middle, p + Len(s), Mem(b), p, rest)
      BY <1>1, <2>4, <3>0, <3>1, <3>2, MemmoveWithin
    <3> HIDE DEF mem
    <3> QED  BY <2>4, <3>3 DEF Copied
  <2>6. /\ Drop(val[b], p) \in Seq(Values) /\ Len(Drop(val[b], p)) = rest
        /\ \A i \in 1 .. rest : Drop(val[b], p)[i] = val[b][p + i]
    <3>1. val[b] \in Seq(Values) /\ rest = Len(val[b]) - p
      BY MemFacts
    <3> HIDE DEF rest
    <3> QED  BY <1>1, <3>1, Dropped DEF Slice
  <2>7. v \in Seq(Values) /\ Len(v) = n
    <3> DEFINE u == Take(val[b], p) \o s
    <3> DEFINE w == Drop(val[b], p)
    <3>1. u \in Seq(Values) /\ w \in Seq(Values) /\ Len(u) + Len(w) = n
      BY <1>1, <1>2, <2>6, MemFacts
    <3>2. v = u \o w
      OBVIOUS
    <3> HIDE DEF u, w, v, n
    <3> QED  BY <3>1, <3>2, Concatenated
  <2> HIDE DEF mem
  <2>8. Matches(v, mem)
    <3> DEFINE u == Take(val[b], p) \o s
    <3> DEFINE w == Drop(val[b], p)
    <3>0. size[b] \in Nat /\ Len(val[b]) = size[b] /\ Matches(val[b], Mem(b))
      BY MemFacts
    <3>1. \A i \in 1 .. p : mem[i] = Mem(b)[i]
      <4>1. \A i \in 1 .. p : i \in 1 .. p + Len(s)
        BY <1>1
      <4> QED  BY <2>3, <2>4, <2>5, <4>1
    <3>2. \A i \in 1 .. Len(s) : mem[p + i] = s[i]
      <4>1. \A i \in 1 .. Len(s) : p + i \in 1 .. p + Len(s)
        BY <1>1
      <4> QED  BY <2>4, <2>5, <4>1
    <3>3. \A i \in 1 .. rest : mem[(p + Len(s)) + i] = Mem(b)[p + i]
      BY <2>5
    <3>4. \A i \in 1 .. rest : val[b][p + i] \in {Unspecified, Mem(b)[p + i]}
      <4>1. \A i \in 1 .. rest : p + i \in 1 .. Len(val[b])
        BY <1>1, <3>0
      <4> HIDE DEF rest
      <4> QED  BY <3>0, <4>1 DEF Matches
    <3>5. u \in Seq(Values) /\ Len(u) = p + Len(s) /\ Matches(u, mem)
      BY <1>2, <3>1, <3>2
    <3>6. w \in Seq(Values) /\ Len(w) = rest
          /\ \A i \in 1 .. rest : w[i] \in {Unspecified, mem[(p + Len(s)) + i]}
      BY <2>6, <3>3, <3>4
    <3>7. v = u \o w
      OBVIOUS
    <3> HIDE DEF u, w, v
    <3> QED  BY <3>5, <3>6, <3>7, MatchesConcat
  <2> HIDE DEF n, v
  <2> QED  BY <2>1, <2>2, <2>5, <2>7, <2>8, Reallocated
<1>4. CASE ~(n > capacity[b])
  <2> DEFINE v == Take(val[b], p) \o s \o Const(rest, Unspecified)
  <2> DEFINE moved == memmove(Mem(b), p, Mem(b), p + Len(s), rest)
  <2> DEFINE mem == memmove(moved, p, s, 0, Len(s))
  <2>1. inplace(b, mem) /\ holds(b, n, v)
    BY <1>4 DEF insert
  <2>0. /\ Mem(b) \in Seq(Cells) /\ Len(Mem(b)) = capacity[b] /\ size[b] <= capacity[b]
        /\ size[b] \in Nat /\ capacity[b] \in Nat
    BY MemFacts
  <2>2. n \in 0 .. capacity[b]
    BY <1>1, <1>4, <2>0
  <2>3. /\ moved \in Seq(Cells) /\ Len(moved) = capacity[b]
        /\ \A i \in 1 .. p : moved[i] = Mem(b)[i]
    <3>1. (p + Len(s)) + rest = n /\ p + rest = size[b] /\ p + Len(s) \in Nat
      BY <1>1, <2>0
    <3> HIDE DEF rest
    <3>2. Copied(moved, Mem(b), p, Mem(b), p + Len(s), rest)
      BY <1>1, <2>0, <2>2, <3>1, MemmoveWithin
    <3> HIDE DEF moved
    <3> QED  BY <2>0, <3>2 DEF Copied
  <2> HIDE DEF moved
  <2>4. /\ mem \in Seq(Cells) /\ Len(mem) = capacity[b]
        /\ \A i \in 1 .. p : mem[i] = moved[i]
        /\ \A i \in 1 .. Len(s) : mem[p + i] = s[i]
    <3>1. p + Len(s) <= Len(moved)
      BY <1>1, <2>0, <2>2, <2>3
    <3>2. Copied(mem, moved, p, s, 0, Len(s))
      BY <1>1, <2>3, <3>1, ArgCopied
    <3> HIDE DEF mem
    <3> QED  BY <2>3, <3>2 DEF Copied
  <2>5. Const(rest, Unspecified) \in Seq(Values) /\ Len(Const(rest, Unspecified)) = rest
    BY <1>1, ConstSeq DEF Values
  <2>6. v \in Seq(Values) /\ Len(v) = n
    <3> DEFINE u == Take(val[b], p) \o s
    <3> DEFINE w == Const(rest, Unspecified)
    <3>1. u \in Seq(Values) /\ w \in Seq(Values) /\ Len(u) + Len(w) = n
      <4>1. u \in Seq(Values) /\ Len(u) = p + Len(s)
        BY <1>2
      <4>2. w \in Seq(Values) /\ Len(w) = rest
        BY <2>5
      <4> HIDE DEF u, w
      <4> QED  BY <1>1, <2>0, <4>1, <4>2, SMTT(20)
    <3>2. v = u \o w
      OBVIOUS
    <3> HIDE DEF u, w, v, n
    <3> QED  BY <3>1, <3>2, Concatenated
  <2> HIDE DEF mem
  <2>7. Matches(v, mem)
    <3> DEFINE u == Take(val[b], p) \o s
    <3> DEFINE w == Const(rest, Unspecified)
    <3>1. \A i \in 1 .. p : mem[i] = Mem(b)[i]
      BY <2>3, <2>4
    <3>2. \A i \in 1 .. Len(s) : mem[p + i] = s[i]
      BY <2>4
    <3>3. u \in Seq(Values) /\ Matches(u, mem)
      BY <1>2, <3>1, <3>2
    <3>4. w \in Seq(Values) /\ \A i \in 1 .. Len(w) : w[i] = Unspecified
      BY <2>5 DEF Const
    <3>5. v = u \o w
      OBVIOUS
    <3> HIDE DEF u, w, v
    <3> QED  BY <3>3, <3>4, <3>5, MatchesConcat
  <2> HIDE DEF n, v
  <2> QED  BY <2>1, <2>2, <2>4, <2>6, <2>7, Inplaced
<1> QED  BY <1>3, <1>4

\* erase.
LEMMA EraseStep ==
  ASSUME Inv, NEW b \in Buffers, NEW first \in Nat, NEW last \in Nat, erase(b, first, last)
  PROVE  Inv'
<1> DEFINE n == size[b] - (last - first)
<1> DEFINE v == Take(val[b], first) \o Drop(val[b], last)
<1> DEFINE mem == erased(b, first, last)
<1>1. inplace(b, mem) /\ holds(b, n, v)
  BY DEF erase
<1>2. first \in Nat /\ last \in Nat /\ first <= last /\ last <= size[b]
  BY DEF erase
<1>3. n \in 0 .. capacity[b] /\ first \in 0 .. Len(val[b]) /\ last \in 0 .. Len(val[b])
  BY <1>2, MemFacts, SMTT(20)
<1>4. /\ mem \in Seq(Cells) /\ Len(mem) = capacity[b]
      /\ \A i \in 1 .. first : mem[i] = Mem(b)[i]
      /\ \A i \in 1 .. size[b] - last : mem[first + i] = Mem(b)[last + i]
  <2>1. /\ Mem(b) \in Seq(Cells) /\ Len(Mem(b)) = capacity[b] /\ size[b] - last \in Nat
        /\ last + (size[b] - last) <= Len(Mem(b)) /\ first + (size[b] - last) <= Len(Mem(b))
    BY <1>2, MemFacts
  <2>2. Copied(mem, Mem(b), first, Mem(b), last, size[b] - last)
    BY <1>2, <2>1, MemmoveWithin DEF erased
  <2> HIDE DEF mem
  <2> QED  BY <2>1, <2>2 DEF Copied
<1> HIDE DEF mem
<1>5. v \in Seq(Values) /\ Len(v) = n /\ Matches(v, mem)
  <2> DEFINE u == Take(val[b], first)
  <2> DEFINE w == Drop(val[b], last)
  <2>0. val[b] \in Seq(Values) /\ Len(val[b]) = size[b]
    BY MemFacts
  <2>1. u \in Seq(Values) /\ Len(u) = first
    BY <1>3, <2>0, TakeDrop
  <2>2. /\ w \in Seq(Values) /\ Len(w) = Len(val[b]) - last
        /\ \A i \in 1 .. Len(val[b]) - last : w[i] = val[b][last + i]
    <3>1. Slice(w, val[b], last, Len(val[b]) - last)
      BY <1>3, <2>0, Dropped
    <3> QED  BY <3>1 DEF Slice
  <2>3. Matches(u, Mem(b))
    BY <1>3, MemFacts, MatchesTake
  <2> HIDE DEF u, w
  <2>4. /\ size[b] \in Nat /\ capacity[b] \in Nat /\ size[b] <= capacity[b]
        /\ Len(val[b]) = size[b] /\ Matches(val[b], Mem(b))
    BY MemFacts
  <2>5. Len(u) + Len(w) = n
    BY <1>2, <2>1, <2>2, <2>4
  <2>6. u \o w \in Seq(Values) /\ Len(u \o w) = n
    BY <2>1, <2>2, <2>5, Concatenated
  <2>7. \A i \in 1 .. size[b] - last : val[b][last + i] \in {Unspecified, Mem(b)[last + i]}
    <3>1. \A i \in 1 .. size[b] - last : last + i \in 1 .. Len(val[b])
      BY <1>2, <2>4
    <3> QED  BY <2>4, <3>1 DEF Matches
  <2>8. Matches(u, mem)
    BY <1>4, <2>1, <2>3, MatchesCopy
  <2>9. \A i \in 1 .. Len(w) : w[i] \in {Unspecified, mem[Len(u) + i]}
    BY <1>4, <2>1, <2>2, <2>4, <2>7
  <2>10. Matches(u \o w, mem)
    BY <2>1, <2>2, <2>8, <2>9, MatchesConcat
  <2> QED  BY <2>6, <2>10 DEF u, w
<1> HIDE DEF n, v
<1> QED  BY <1>1, <1>3, <1>4, <1>5, Inplaced

\* reserve.
LEMMA ReserveStep ==
  ASSUME Inv, NEW b \in Buffers, NEW cap \in Sizes, reserve(b, cap)
  PROVE  Inv'
<1> DEFINE mem == memmove(Const(cap, Junk), 0, Mem(b), 0, size[b])
<1>1. cap \in Nat /\ size[b] \in 0 .. cap
  BY MemFacts DEF reserve, Sizes
<1>2. mem \in Seq(Cells) /\ Len(mem) = cap /\ \A i \in 1 .. size[b] : mem[i] = Mem(b)[i]
  <2>1. size[b] \in Nat /\ size[b] <= cap /\ size[b] <= size[b]
    BY <1>1
  <2> QED  BY <1>1, <2>1, CopiedToFresh
<1>3. reallocate(b, cap, mem) /\ holds(b, size[b], val[b])
  BY DEF reserve
<1> HIDE DEF mem
<1>4. Matches(val[b], mem)
  BY <1>2, CopyMatches
<1> QED  BY <1>1, <1>2, <1>3, <1>4, MemFacts, Reallocated

\* resize.
LEMMA ResizeStep ==
  ASSUME Inv, NEW b \in Buffers, NEW n \in Nat, resize(b, n)
  PROVE  Inv'
<1> DEFINE v == resized(val[b], n)
<1>1. n \in Nat /\ n <= max_size[b] /\ holds(b, n, v)
  BY DEF resize
<1>2. /\ v \in Seq(Values) /\ Len(v) = n
      /\ \A mem : (\A i \in 1 .. size[b] : mem[i] = Mem(b)[i]) => Matches(v, mem)
  <2>0. \A mem : (\A i \in 1 .. size[b] : mem[i] = Mem(b)[i]) => Matches(val[b], mem)
    BY CopyMatches
  <2>1. CASE n <= Len(val[b])
    <3>1. v = Take(val[b], n) /\ val[b] \in Seq(Values) /\ n \in 0 .. Len(val[b])
      BY <2>1, <1>1, MemFacts DEF resized
    <3>2. v \in Seq(Values) /\ Len(v) = n
      BY <3>1, TakeDrop
    <3>3. \A mem : Matches(val[b], mem) => Matches(v, mem)
      BY <3>1, MatchesTake
    <3> QED  BY <2>0, <3>2, <3>3
  <2>2. CASE ~(n <= Len(val[b]))
    <3> DEFINE c == Const(n - Len(val[b]), Unspecified)
    <3>1. c \in Seq(Values) /\ Len(c) = n - Len(val[b])
      <4>1. n - Len(val[b]) \in Nat /\ Unspecified \in Values
        BY <2>2, <1>1, MemFacts DEF Values
      <4> QED  BY <4>1, ConstSeq
    <3>2. v = val[b] \o c
      BY <2>2 DEF resized
    <3>3. val[b] \in Seq(Values) /\ Len(val[b]) \in Nat
      BY MemFacts
    <3> HIDE DEF c, v
    <3>4. v \in Seq(Values) /\ Len(v) = Len(val[b]) + Len(c)
      BY <3>1, <3>2, <3>3, Concatenated
    <3>5. \A i \in 1 .. Len(c) : c[i] = Unspecified
      BY <3>1 DEF c, Const
    <3>6. \A mem : Matches(val[b], mem) => Matches(v, mem)
      BY <3>1, <3>2, <3>3, <3>5, MatchesConcat
    <3> QED  BY <1>1, <2>0, <3>1, <3>3, <3>4, <3>6
  <2> QED  BY <2>1, <2>2
<1> HIDE DEF v
<1>3. CASE n > capacity[b]
  <2> DEFINE cap == calculate_capacity(b, n)
  <2> DEFINE mem == memmove(Const(cap, Junk), 0, Mem(b), 0, size[b])
  <2>1. reallocate(b, cap, mem)
    BY <1>3 DEF resize
  <2>2. cap \in Nat /\ n \in 0 .. cap
    BY <1>1, CapacitySuffices DEF Inv, BlocksOwned
  <2> HIDE DEF cap
  <2>3. mem \in Seq(Cells) /\ Len(mem) = cap /\ \A i \in 1 .. size[b] : mem[i] = Mem(b)[i]
    <3>1. size[b] \in Nat /\ size[b] <= cap
      BY <1>1, <1>3, <2>2, MemFacts
    <3> QED  BY <2>2, <3>1, CopiedToFresh
  <2> HIDE DEF mem
  <2> QED  BY <1>1, <1>2, <2>1, <2>2, <2>3, Reallocated
<1>4. CASE ~(n > capacity[b])
  <2>1. n \in 0 .. capacity[b] /\ UNCHANGED <<live, heap, data, capacity>>
    BY <1>1, <1>4, MemFacts DEF resize
  <2>2. Matches(v, Mem(b))
    BY <1>2
  <2> QED  BY <1>1, <1>2, <2>1, <2>2, Resized
<1> QED  BY <1>3, <1>4

\* clear.
LEMMA ClearStep ==
  ASSUME Inv, NEW b \in Buffers, clear(b)
  PROVE  Inv'
<1>1. <<>> \in Seq(Values) /\ Len(<<>>) = 0 /\ 0 \in 0 .. capacity[b]
  BY MemFacts, EmptySeq
<1>2. UNCHANGED <<live, heap, data, capacity>> /\ holds(b, 0, <<>>)
  BY DEF clear
<1>3. Matches(<<>>, Mem(b))
  BY DEF Matches
<1> QED  BY <1>1, <1>2, <1>3, Resized

\* A write through a reference.
LEMMA StoreStep ==
  ASSUME Inv, NEW b \in Buffers, NEW i \in Nat, NEW c \in Bytes, store(b, i, c)
  PROVE  Inv'
<1> DEFINE mem == [Mem(b) EXCEPT ![i] = c]
<1> DEFINE v == [val[b] EXCEPT ![i] = c]
<1>1. inplace(b, mem) /\ holds(b, size[b], v)
  BY DEF store
<1>2. i \in 1 .. size[b] /\ c \in Cells /\ c \in Values
  BY DEF store, Cells, Values
<1>3. i \in 1 .. Len(Mem(b)) /\ i \in 1 .. Len(val[b]) /\ size[b] \in 0 .. capacity[b]
  BY <1>2, MemFacts
<1>4. mem \in Seq(Cells) /\ Len(mem) = capacity[b]
  BY <1>2, <1>3, MemFacts, ExceptSeq
<1>5. v \in Seq(Values) /\ Len(v) = size[b]
  BY <1>2, <1>3, MemFacts, ExceptSeq
<1>6. Matches(v, mem)
  <2>1. \A j \in 1 .. size[b] : /\ v[j] = IF j = i THEN c ELSE val[b][j]
                                /\ mem[j] = IF j = i THEN c ELSE Mem(b)[j]
    BY <1>2, <1>3, MemFacts
  <2>2. \A j \in 1 .. size[b] : val[b][j] \in {Unspecified, Mem(b)[j]}
    BY MemFacts DEF Matches
  <2> HIDE DEF mem, v
  <2> QED  BY <1>5, <2>1, <2>2 DEF Matches
<1> HIDE DEF mem, v
<1> QED  BY <1>1, <1>3, <1>4, <1>5, <1>6, Inplaced

\* Every change of the content.
LEMMA ChangeStep ==
  ASSUME Inv, NEW b \in Buffers, Change(b)
  PROVE  Inv'
<1>1. \A n \in Sizes : n \in Nat
  BY DEF Sizes
<1> QED
  BY <1>1, AppendStep, InsertStep, EraseStep, ReserveStep, ResizeStep, ClearStep, StoreStep
  DEF Change

-----------------------------------------------------------------------------
\* No buffer is constructed at the beginning.
LEMMA InvInit == Init => Inv
<1> SUFFICES ASSUME Init  PROVE Inv
  OBVIOUS
<1>1. <<>> \in Seq(Cells) /\ <<>> \in Seq(Values) /\ Len(<<>>) = 0
  BY EmptySeq
<1>2. BlocksOwned
  BY <1>1 DEF Init, BlocksOwned, TypeOK, Values
<1>3. \A b \in Buffers : val[b] = <<>> /\ size[b] = 0
  BY DEF Init
<1> QED  BY <1>1, <1>2, <1>3 DEF Inv, Matches

\* The invariant is one of the buffers and their memory.
LEMMA InvStutters ==
  ASSUME Inv, UNCHANGED vars
  PROVE  Inv'
<1>1. \A b \in Buffers : Mem(b)' = Mem(b)
  BY DEF vars, Mem
<1> QED  BY <1>1 DEF Inv, BlocksOwned, TypeOK, vars

\* Every step preserves the inductive invariant.
LEMMA InvNext == Inv /\ [Next]_vars => Inv'
<1> SUFFICES ASSUME Inv, [Next]_vars  PROVE Inv'
  OBVIOUS
<1>1. CASE UNCHANGED vars
  BY <1>1, InvStutters
<1>2. ASSUME NEW b \in Buffers, Lifetime(b)  PROVE Inv'
  BY <1>2, LifetimeStep
<1>3. ASSUME NEW b \in Buffers, Change(b)  PROVE Inv'
  BY <1>3, ChangeStep
<1> QED  BY <1>1, <1>2, <1>3 DEF Next

\* For every number of buffers and blocks and every width of std::size_t: a
\* buffer's pointer is null or refers to a block of its own of exactly capacity_
\* cells, through every copy, move, reallocation and change in place, and no
\* byte is written outside of a block (nor read, where Wild is not a cell).
THEOREM BlocksOwnedInvariant == Spec => []BlocksOwned
<1>1. Inv => BlocksOwned
  BY DEF Inv
<1> QED  BY <1>1, InvInit, InvNext, PTL DEF Spec

\* And memory holds what the documentation of the calls so far promises: no
\* reallocation, copy, move or change in place loses, moves or overwrites a
\* specified byte.
THEOREM ContentInvariant == Spec => []ContentAsDocumented
<1>1. Inv => ContentAsDocumented
  BY DEF Inv, BlocksOwned, TypeOK, Matches, ContentAsDocumented
<1> QED  BY <1>1, InvInit, InvNext, PTL DEF Spec

-----------------------------------------------------------------------------
(* Buffers that are changed through a dynamic_linear_buffer.                *)

\* The input sequence is the buffer, until the first prepare(), and the first
\* size_ bytes of it from then on.
InputOK ==
  /\ IF size_ = SizeMax THEN Len(input) = size[target]
     ELSE Len(input) = size_ /\ size_ <= max_size_ /\ size_ <= size[target]
  /\ Matches(input, val[target])

\* The view refers to a buffer, and between prepare() and commit() the buffer
\* is at least as large as the input sequence and within the view's limit:
\* commit()'s subtraction of sizes does not wrap, and its sum is not cut off.
ViewInv ==
  /\ Inv
  /\ target \in Buffers \cup {NoBuffer}
  /\ size_ \in Nat /\ max_size_ \in Nat /\ max_size_ <= SizeMax /\ input \in Seq(Values)
  /\ prepared => /\ version = "v1" /\ target # NoBuffer
                 /\ size_ <= size[target] /\ size[target] <= max_size_
  /\ target # NoBuffer => InputOK /\ (version # "v1" => size_ = SizeMax)

Kept(t) == size'[t] = size[t] /\ val'[t] = val[t]

\* A step of one buffer changes the size and the content of another one only if
\* it takes the memory away from it.
LEMMA OthersKept ==
  ASSUME Inv, NEW b \in Buffers, NEW t \in Buffers, t # b,
         Lifetime(b) \/ Change(b), data'[t] = data[t]
  PROVE  Kept(t)
<1>1. ASSUME NEW o \in Buffers, take_from(b, o)  PROVE Kept(t)
  <2>1. CASE o = t
    <3>1. data'[t] = NoBlock /\ size'[t] = 0 /\ val'[t] = <<>>
      BY <1>1, <2>1 DEF take_from, Inv, BlocksOwned, TypeOK
    <3>2. capacity[t] = 0 /\ size[t] <= capacity[t] /\ size[t] \in Nat
      BY <3>1 DEF Inv, BlocksOwned, TypeOK
    <3>3. val[t] = <<>>
      <4>1. val[t] \in Seq(Values) /\ Len(val[t]) = 0
        BY <3>2, MemFacts
      <4> QED  BY <4>1, EmptySeq
    <3> QED  BY <3>1, <3>2, <3>3 DEF Kept
  <2>2. CASE o # t
    BY <1>1, <2>2 DEF take_from, Inv, BlocksOwned, TypeOK, Kept
  <2> QED  BY <2>1, <2>2
<1>2. ASSUME NEW n, NEW v, holds(b, n, v)  PROVE Kept(t)
  BY <1>2 DEF Kept, holds, Inv, BlocksOwned, TypeOK
<1>3. ASSUME NEW mem, NEW m, NEW v, allocate(b, mem, m, v)  PROVE Kept(t)
  BY <1>3 DEF Kept, allocate, Inv, BlocksOwned, TypeOK
<1>4. CASE Lifetime(b)
  <2>1. CASE construct(b)
    BY <2>1 DEF Kept, construct
  <2>2. CASE \E n, m \in Sizes : construct_sized(b, n, m)
    BY <2>2, <1>3 DEF construct_sized
  <2>3. ASSUME NEW o \in Buffers, copy_construct(b, o)  PROVE Kept(t)
    BY <2>3, <1>3 DEF copy_construct
  <2>4. ASSUME NEW o \in Buffers, move_construct(b, o)  PROVE Kept(t)
    BY <2>4, <1>1 DEF move_construct
  <2>5. ASSUME NEW o \in Buffers, move_assign(b, o)  PROVE Kept(t)
    BY <2>5, <1>1 DEF move_assign
  <2>6. ASSUME NEW o \in Buffers, copy_assign(b, o)  PROVE Kept(t)
    BY <2>6, <1>2 DEF copy_assign
  <2>7. CASE destroy(b)
    BY <2>7 DEF Kept, destroy, Inv, BlocksOwned, TypeOK
  <2> QED  BY <1>4, <2>1, <2>2, <2>3, <2>4, <2>5, <2>6, <2>7 DEF Lifetime
<1>5. CASE Change(b)
  <2>1. ASSUME NEW s, append(b, s)  PROVE Kept(t)
    BY <2>1, <1>2 DEF append
  <2>2. ASSUME NEW s, NEW p, insert(b, p, s)  PROVE Kept(t)
    BY <2>2, <1>2 DEF insert
  <2>3. ASSUME NEW p, NEW q, erase(b, p, q)  PROVE Kept(t)
    BY <2>3, <1>2 DEF erase
  <2>4. ASSUME NEW n, reserve(b, n) \/ resize(b, n)  PROVE Kept(t)
    BY <2>4, <1>2 DEF reserve, resize
  <2>5. CASE clear(b)
    BY <2>5, <1>2 DEF clear
  <2>6. ASSUME NEW i, NEW c, store(b, i, c)  PROVE Kept(t)
    BY <2>6, <1>2 DEF store
  <2> QED  BY <1>5, <2>1, <2>2, <2>3, <2>4, <2>5, <2>6 DEF Change
<1> QED  BY <1>4, <1>5

\* The size and the content that resize(), erase() and a write leave.
LEMMA HoldsAfter ==
  ASSUME Inv, NEW b \in Buffers, NEW n, NEW v, holds(b, n, v)
  PROVE  size'[b] = n /\ val'[b] = v
BY DEF Inv, BlocksOwned, TypeOK, holds

\* A value that is resized keeps its beginning.
LEMMA ResizedKeeps ==
  ASSUME NEW v \in Seq(Values), NEW n \in Nat
  PROVE  \A i \in 1 .. n : i <= Len(v) => resized(v, n)[i] = v[i]
<1>1. CASE n <= Len(v)
  <2>1. n \in 0 .. Len(v) /\ resized(v, n) = Take(v, n)
    BY <1>1 DEF resized
  <2> QED  BY <2>1, TakeDrop
<1>2. CASE ~(n <= Len(v))
  <2> DEFINE c == Const(n - Len(v), Unspecified)
  <2>1. n - Len(v) \in Nat /\ Len(v) \in Nat
    BY <1>2
  <2>2. c \in Seq(Values) /\ Len(c) = n - Len(v)
    BY <2>1, ConstSeq DEF Values
  <2>3. resized(v, n) = v \o c
    BY <1>2 DEF resized
  <2> HIDE DEF c
  <2>4. \A i \in 1 .. Len(v) + Len(c) : (v \o c)[i] = IF i <= Len(v) THEN v[i] ELSE c[i - Len(v)]
    BY <2>2, Concatenated
  <2> QED  BY <2>1, <2>2, <2>3, <2>4
<1> QED  BY <1>1, <1>2

\* resize(n) of the view's buffer: an input sequence of at most n bytes is kept.
LEMMA ViewResized ==
  ASSUME Inv, NEW b \in Buffers, NEW n \in Nat, resize(b, n),
         NEW v \in Seq(Values), Len(v) <= n, Len(v) <= size[b], Matches(v, val[b])
  PROVE  Inv' /\ size'[b] = n /\ Matches(v, val'[b])
<1>1. Inv'
  BY ResizeStep
<1>2. size'[b] = n /\ val'[b] = resized(val[b], n)
  BY HoldsAfter DEF resize
<1>3. val[b] \in Seq(Values) /\ Len(val[b]) = size[b]
  BY MemFacts
<1>4. \A i \in 1 .. n : i <= size[b] => val'[b][i] = val[b][i]
  BY <1>2, <1>3, ResizedKeeps
<1>5. \A i \in 1 .. Len(v) : val'[b][i] = val[b][i]
  BY <1>3, <1>4
<1>6. Matches(v, val'[b])
  BY <1>5 DEF Matches
<1> QED  BY <1>1, <1>2, <1>6

\* What the view's operations start from.
LEMMA ViewFacts ==
  ASSUME ViewInv, target # NoBuffer
  PROVE  /\ Inv /\ target \in Buffers /\ size_ \in Nat /\ max_size_ \in Nat
         /\ size[target] \in Nat /\ SizeMax \in Nat
         /\ input \in Seq(Values) /\ Len(input) \in Nat /\ Matches(input, val[target])
         /\ Len(input) <= size[target]
         /\ view_size \in Nat /\ view_size = MinOf(Len(input), max_size_)
<1>1. Inv /\ target \in Buffers /\ size_ \in Nat /\ max_size_ \in Nat /\ input \in Seq(Values)
  BY DEF ViewInv
<1>2. size[target] \in Nat /\ SizeMax \in Nat
  BY <1>1, MemFacts, SizeAssumption
<1>3. Len(input) \in Nat
  BY <1>1
<1>4. /\ Matches(input, val[target])
      /\ IF size_ = SizeMax THEN Len(input) = size[target]
         ELSE Len(input) = size_ /\ size_ <= max_size_ /\ size_ <= size[target]
  BY DEF ViewInv, InputOK
<1>5. view_size \in Nat /\ view_size = MinOf(Len(input), max_size_)
  BY <1>1, <1>2, <1>3, <1>4 DEF view_size, MinOf
<1> QED  BY <1>1, <1>2, <1>3, <1>4, <1>5

\* A part of the documented value.
LEMMA Sliced ==
  ASSUME NEW v \in Seq(Values), NEW k \in Nat, NEW m \in Nat, k + m <= Len(v)
  PROVE  Slice(SubSeq(v, k + 1, k + m), v, k, m)
<1>1. \A i \in 1 .. Len(v) : v[i] \in Values
  BY ElementOfSeq
<1>2. \A i \in k + 1 .. k + m : v[i] \in Values
  BY <1>1
<1> DEFINE w == SubSeq(v, k + 1, k + m)
<1>3. /\ w \in Seq(Values)
      /\ Len(w) = IF k + 1 <= k + m THEN k + m - (k + 1) + 1 ELSE 0
      /\ \A i \in 1 .. k + m - (k + 1) + 1 : w[i] = v[k + 1 + i - 1]
  BY <1>2, SubSeqProperties
<1> HIDE DEF w
<1>4. w \in Seq(Values) /\ Len(w) = m /\ \A i \in 1 .. m : w[i] = v[k + i]
  BY <1>3
<1> QED  BY <1>4 DEF w, Slice

LEMMA PrepareStep ==
  ASSUME ViewInv, NEW n \in Sizes, prepare(n)
  PROVE  ViewInv'
<1> DEFINE siz == IF size_ = SizeMax THEN size[target] ELSE size_
<1>1. /\ target # NoBuffer /\ size_' = siz /\ resize(target, siz + n)
      /\ siz <= max_size_ /\ n <= max_size_ - siz
      /\ version' = "v1" /\ UNCHANGED <<target, max_size_, input>>
  BY DEF prepare
<1>2. n \in Nat /\ siz \in Nat /\ siz + n \in Nat /\ siz = Len(input)
  BY <1>1, ViewFacts DEF Sizes, ViewInv, InputOK
<1> HIDE DEF siz
<1>3. Inv' /\ size'[target] = siz + n /\ Matches(input, val'[target])
  <2>1. Len(input) <= siz + n /\ Len(input) <= size[target]
    BY <1>1, <1>2, ViewFacts
  <2> QED  BY <1>1, <1>2, <2>1, ViewFacts, ViewResized
<1>4. max_size_ \in Nat /\ max_size_ <= SizeMax /\ SizeMax \in Nat
  BY <1>1, ViewFacts DEF ViewInv
<1>5. siz = SizeMax => n = 0
  BY <1>1, <1>2, <1>4
<1>6. InputOK'
  BY <1>1, <1>2, <1>3, <1>4, <1>5 DEF InputOK
<1>7. siz <= siz + n /\ siz + n <= max_size_
  BY <1>1, <1>2, <1>4
<1> QED  BY <1>1, <1>2, <1>3, <1>6, <1>7 DEF ViewInv

LEMMA CommitStep ==
  ASSUME ViewInv, NEW n \in Sizes, commit(n)
  PROVE  ViewInv'
<1> DEFINE m == MinOf(n, size[target] - size_)
<1> DEFINE w == SubSeq(val[target], size_ + 1, size_')
<1>1. /\ target # NoBuffer /\ prepared /\ size_' = size_ + m /\ resize(target, size_')
      /\ input' = input \o w /\ ~prepared' /\ UNCHANGED <<target, max_size_, version>>
  BY DEF commit
<1>2. /\ size_ <= size[target] /\ size[target] <= max_size_ /\ max_size_ <= SizeMax
      /\ version = "v1"
  BY <1>1 DEF ViewInv
<1>3. m \in Nat /\ size_' \in Nat /\ size_ <= size_' /\ size_' <= size[target]
  <2>1. size_ \in Nat /\ size[target] \in Nat /\ n \in Nat
    BY <1>1, ViewFacts DEF Sizes
  <2>2. m \in Nat /\ m <= size[target] - size_
    BY <1>2, <2>1 DEF MinOf
  <2> HIDE DEF m
  <2> QED  BY <1>1, <1>2, <2>1, <2>2
<1> HIDE DEF m
<1>4. Len(input) = size_
  BY <1>1, <1>2, ViewFacts DEF ViewInv, InputOK
<1>5. val[target] \in Seq(Values) /\ Len(val[target]) = size[target]
  BY <1>1, ViewFacts, MemFacts
<1>6. /\ w \in Seq(Values) /\ Len(w) = m
      /\ \A i \in 1 .. m : w[i] = val[target][size_ + i]
  <2>1. size_ \in Nat /\ size_ + m <= Len(val[target])
    BY <1>1, <1>3, <1>5, ViewFacts
  <2>2. Slice(w, val[target], size_, m)
    BY <1>1, <1>3, <1>5, <2>1, Sliced
  <2> HIDE DEF w
  <2> QED  BY <2>2 DEF Slice
<1> HIDE DEF w
<1>7. input' \in Seq(Values) /\ Len(input') = size_' /\ Matches(input', val[target])
  <2>1. input \in Seq(Values) /\ Matches(input, val[target])
    BY <1>1, ViewFacts
  <2>2. \A i \in 1 .. Len(w) : w[i] \in {Unspecified, val[target][Len(input) + i]}
    BY <1>4, <1>6
  <2>3. input \o w \in Seq(Values) /\ Len(input \o w) = Len(input) + Len(w)
    BY <1>6, <2>1, Concatenated
  <2>4. Matches(input \o w, val[target])
    BY <1>6, <2>1, <2>2, MatchesConcat
  <2> QED  BY <1>1, <1>4, <1>6, <2>3, <2>4
<1>8. Inv' /\ size'[target] = size_' /\ Matches(input', val'[target])
  <2>1. Len(input') <= size_' /\ Len(input') <= size[target]
    BY <1>3, <1>7
  <2> QED  BY <1>1, <1>3, <1>7, <2>1, ViewFacts, ViewResized
<1>9. size_' <= max_size_ /\ max_size_ \in Nat
  BY <1>1, <1>2, <1>3, ViewFacts
<1>10. InputOK'
  BY <1>1, <1>3, <1>7, <1>8, <1>9 DEF InputOK
<1> QED  BY <1>1, <1>2, <1>3, <1>7, <1>8, <1>9, <1>10 DEF ViewInv

\* grow() and shrink(): the beginning of the input sequence, and unspecified
\* bytes behind it, are the whole buffer.
LEMMA ResizeViewStep ==
  ASSUME ViewInv, target # NoBuffer, version # "v1", NEW k \in Nat, NEW n \in Nat,
         k <= view_size, resize(target, k + n), NEW v \in Seq(Values), Len(v) = k + n,
         \A i \in 1 .. k : v[i] = input[i],
         \A i \in 1 .. k + n : i > k => v[i] = Unspecified,
         version' = "v2", input' = v, UNCHANGED <<target, size_, max_size_, prepared>>
  PROVE  ViewInv'
<1> DEFINE u == Take(input, k)
<1>1. /\ input \in Seq(Values) /\ k \in 0 .. Len(input) /\ k <= size[target]
      /\ Matches(input, val[target])
  BY ViewFacts DEF MinOf
<1>2. u \in Seq(Values) /\ Len(u) = k /\ \A i \in 1 .. k : u[i] = input[i]
  BY <1>1, TakeDrop
<1>3. Matches(u, val[target])
  BY <1>1, MatchesTake
<1> HIDE DEF u
<1>4. Inv' /\ size'[target] = k + n /\ Matches(u, val'[target])
  <2>1. Len(u) <= k + n /\ k + n \in Nat
    BY <1>2
  <2> QED  BY <1>1, <1>2, <1>3, <2>1, ViewFacts, ViewResized
<1>5. Matches(v, val'[target])
  <2>1. ASSUME NEW i \in 1 .. k + n  PROVE v[i] \in {Unspecified, val'[target][i]}
    <3>1. CASE i <= k
      <4>1. i \in 1 .. k
        BY <3>1
      <4> QED  BY <1>2, <1>4, <4>1 DEF Matches
    <3>2. CASE ~(i <= k)
      BY <3>2
    <3> QED  BY <3>1, <3>2
  <2> QED  BY <2>1 DEF Matches
<1>6. size_ = SizeMax /\ ~prepared
  BY DEF ViewInv
<1>7. InputOK'
  BY <1>4, <1>5, <1>6 DEF InputOK
<1> QED  BY <1>4, <1>6, <1>7 DEF ViewInv

LEMMA GrowStep ==
  ASSUME ViewInv, NEW n \in Sizes, grow(n)
  PROVE  ViewInv'
<1> DEFINE k == view_size
<1> DEFINE u == Take(input, k)
<1> DEFINE c == Const(n, Unspecified)
<1> DEFINE v == u \o c
<1>1. /\ target # NoBuffer /\ version # "v1" /\ resize(target, k + n) /\ version' = "v2"
      /\ input' = v /\ UNCHANGED <<target, size_, max_size_, prepared>>
  BY DEF grow
<1>2. n \in Nat /\ k \in Nat /\ k <= view_size /\ input \in Seq(Values) /\ k \in 0 .. Len(input)
  BY <1>1, ViewFacts DEF Sizes, MinOf
<1> HIDE DEF k
<1>3. u \in Seq(Values) /\ Len(u) = k /\ \A i \in 1 .. k : u[i] = input[i]
  BY <1>2, TakeDrop
<1>4. c \in Seq(Values) /\ Len(c) = n /\ \A i \in 1 .. n : c[i] = Unspecified
  BY <1>2, ConstSeq DEF Values, Const
<1> HIDE DEF u, c
<1>5. /\ v \in Seq(Values) /\ Len(v) = Len(u) + Len(c)
      /\ \A i \in 1 .. Len(u) + Len(c) : v[i] = IF i <= Len(u) THEN u[i] ELSE c[i - Len(u)]
  BY <1>3, <1>4, Concatenated
<1> HIDE DEF v
<1>6. \A i \in 1 .. k : v[i] = input[i]
  <2>1. \A i \in 1 .. k : i \in 1 .. k + n /\ i <= k
    BY <1>2
  <2> QED  BY <1>3, <1>4, <1>5, <2>1
<1>7. ASSUME NEW i \in 1 .. k + n, i > k  PROVE v[i] = Unspecified
  <2>1. i - k \in 1 .. n /\ ~(i <= k)
    BY <1>2, <1>7
  <2> QED  BY <1>3, <1>4, <1>5, <2>1
<1> QED  BY <1>1, <1>2, <1>3, <1>4, <1>5, <1>6, <1>7, ResizeViewStep

LEMMA ShrinkStep ==
  ASSUME ViewInv, NEW n \in Sizes, shrink(n)
  PROVE  ViewInv'
<1> DEFINE k == view_size - MinOf(view_size, n)
<1> DEFINE v == Take(input, k)
<1>1. /\ target # NoBuffer /\ version # "v1" /\ resize(target, k) /\ version' = "v2"
      /\ input' = v /\ UNCHANGED <<target, size_, max_size_, prepared>>
  BY DEF shrink
<1>2. k \in Nat /\ k <= view_size /\ input \in Seq(Values) /\ k \in 0 .. Len(input)
  BY <1>1, ViewFacts DEF Sizes, MinOf
<1> HIDE DEF k
<1>3. v \in Seq(Values) /\ Len(v) = k /\ \A i \in 1 .. k : v[i] = input[i]
  BY <1>2, TakeDrop
<1> HIDE DEF v
<1>4. k + 0 = k /\ 0 \in Nat /\ \A i \in 1 .. k : ~(i > k)
  BY <1>2
<1> QED  BY <1>1, <1>2, <1>3, <1>4, ResizeViewStep

LEMMA ConsumeStep ==
  ASSUME ViewInv, NEW n \in Sizes, consume(n)
  PROVE  ViewInv'
<1> DEFINE k == MinOf(view_size, n)
<1>1. /\ target # NoBuffer /\ erase(target, 0, k) /\ size_' = consumed(n)
      /\ input' = Drop(input, k) /\ ~prepared' /\ UNCHANGED <<target, max_size_, version>>
  BY DEF consume
<1>2. n \in Nat /\ k \in Nat /\ k <= view_size /\ k \in 0 .. Len(input)
      /\ k <= size[target]
  BY <1>1, ViewFacts DEF Sizes, MinOf
<1>3. /\ size_ = SizeMax => size_' = SizeMax
      /\ size_ # SizeMax => size_' = size_ - k /\ Len(input) = size_ /\ size_ <= max_size_
  <2>1. size_ # SizeMax => Len(input) = size_ /\ size_ <= max_size_ /\ view_size = size_
    BY <1>1 DEF ViewInv, InputOK, view_size
  <2> QED  BY <1>1, <1>2, <2>1, ViewFacts DEF consumed, MinOf
<1>4. size_ # SizeMax => size_' # SizeMax
  BY <1>1, <1>2, <1>3, ViewFacts DEF ViewInv
<1> HIDE DEF k
<1>5. /\ Inv' /\ size'[target] = size[target] - (k - 0)
      /\ val'[target] = Take(val[target], 0) \o Drop(val[target], k)
  BY <1>1, <1>2, ViewFacts, EraseStep, HoldsAfter DEF erase
<1>6. /\ val[target] \in Seq(Values) /\ Len(val[target]) = size[target]
      /\ input \in Seq(Values) /\ Matches(input, val[target])
      /\ k \in 0 .. Len(val[target]) /\ 0 \in 0 .. Len(val[target])
      /\ Len(input) <= size[target] /\ size[target] \in Nat
  BY <1>1, <1>2, ViewFacts, MemFacts
<1>7. \A i \in 1 .. size[target] - k : val'[target][i] = val[target][k + i]
  <2> DEFINE u == Take(val[target], 0)
  <2> DEFINE w == Drop(val[target], k)
  <2>1. u \in Seq(Values) /\ Len(u) = 0
    BY <1>6, TakeDrop
  <2>2. Slice(w, val[target], k, Len(val[target]) - k)
    BY <1>6, Dropped
  <2> HIDE DEF u, w
  <2>3. u = <<>>
    BY <2>1, EmptySeq
  <2>4. u \o w = w
    BY <2>2, <2>3 DEF Slice
  <2>5. val'[target] = w
    BY <1>5, <2>4 DEF u, w
  <2> QED  BY <1>6, <2>2, <2>5 DEF Slice
<1>8. /\ input' \in Seq(Values) /\ Len(input') = Len(input) - k
      /\ \A i \in 1 .. Len(input) - k : input'[i] = input[k + i]
  <2>1. Slice(input', input, k, Len(input) - k)
    BY <1>1, <1>2, <1>6, Dropped
  <2> QED  BY <2>1 DEF Slice
<1>9. Matches(input', val'[target])
  <2>1. ASSUME NEW i \in 1 .. Len(input')  PROVE input'[i] \in {Unspecified, val'[target][i]}
    <3>1. /\ i \in 1 .. Len(input) - k /\ i \in 1 .. size[target] - k
          /\ k + i \in 1 .. Len(input)
      BY <1>2, <1>6, <1>8
    <3>2. input[k + i] \in {Unspecified, val[target][k + i]}
      BY <1>6, <3>1 DEF Matches
    <3> QED  BY <1>7, <1>8, <3>1, <3>2
  <2> QED  BY <2>1 DEF Matches
<1>10. size_ = SizeMax => Len(input) = size[target]
  BY <1>1 DEF ViewInv, InputOK
<1>11. size_' \in Nat /\ max_size_ \in Nat
  BY <1>1, <1>2, <1>3, ViewFacts
<1>12. InputOK'
  <2>1. Len(input') = Len(input) - k /\ size'[target] = size[target] - k /\ k \in Nat
    BY <1>2, <1>5, <1>6, <1>8
  <2>2. CASE size_ = SizeMax
    BY <1>1, <1>3, <1>9, <1>10, <2>1, <2>2 DEF InputOK
  <2>3. CASE size_ # SizeMax
    <3>1. size_' = size_ - k /\ Len(input) = size_ /\ size_ <= max_size_ /\ size_' # SizeMax
      BY <1>3, <1>4, <2>3
    <3>2. Len(input') = size_' /\ size_' <= max_size_ /\ size_' <= size'[target]
      BY <1>2, <1>6, <1>11, <2>1, <3>1
    <3> QED  BY <1>1, <1>9, <3>1, <3>2 DEF InputOK
  <2> QED  BY <2>2, <2>3
<1>13. version # "v1" => size_ = SizeMax
  BY <1>1 DEF ViewInv
<1> QED  BY <1>1, <1>3, <1>5, <1>8, <1>11, <1>12, <1>13 DEF ViewInv

LEMMA FillStep ==
  ASSUME ViewInv, NEW i \in Sizes, NEW c \in Bytes, fill(i, c)
  PROVE  ViewInv'
<1>1. /\ target # NoBuffer /\ store(target, i, c) /\ i \in Nat
      /\ input' = (IF i <= Len(input) THEN [input EXCEPT ![i] = c] ELSE input)
      /\ UNCHANGED <<target, size_, max_size_, version, prepared>>
  BY DEF fill, Sizes
<1>2. /\ Inv' /\ size'[target] = size[target]
      /\ val'[target] = [val[target] EXCEPT ![i] = c] /\ i \in 1 .. size[target]
  BY <1>1, ViewFacts, StoreStep, HoldsAfter DEF store
<1>3. /\ val[target] \in Seq(Values) /\ Len(val[target]) = size[target]
      /\ input \in Seq(Values) /\ Matches(input, val[target])
      /\ Len(input) <= size[target] /\ size[target] \in Nat /\ Len(input) \in Nat
  BY <1>1, ViewFacts, MemFacts
<1>4. /\ input' \in Seq(Values) /\ Len(input') = Len(input)
      /\ \A j \in 1 .. Len(input) : input'[j] = IF j = i THEN c ELSE input[j]
  <2>1. CASE i <= Len(input)
    <3>1. i \in 1 .. Len(input) /\ c \in Values
      BY <1>2, <1>3, <2>1 DEF Values
    <3> QED  BY <1>1, <1>3, <2>1, <3>1, ExceptSeq
  <2>2. CASE ~(i <= Len(input))
    BY <1>1, <1>3, <2>2
  <2> QED  BY <2>1, <2>2
<1>5. \A j \in 1 .. size[target] : val'[target][j] = IF j = i THEN c ELSE val[target][j]
  BY <1>2, <1>3
<1>6. Matches(input', val'[target])
  <2>1. ASSUME NEW j \in 1 .. Len(input')  PROVE input'[j] \in {Unspecified, val'[target][j]}
    <3>1. j \in 1 .. Len(input) /\ j \in 1 .. size[target]
      BY <1>3, <1>4
    <3>2. input[j] \in {Unspecified, val[target][j]}
      BY <1>3, <3>1 DEF Matches
    <3> QED  BY <1>4, <1>5, <3>1, <3>2
  <2> QED  BY <2>1 DEF Matches
<1>7. InputOK'
  BY <1>1, <1>2, <1>4, <1>6 DEF ViewInv, InputOK
<1> QED  BY <1>1, <1>2, <1>4, <1>7 DEF ViewInv

\* Every step of the view and of the other buffers preserves the invariant.
LEMMA ViewInvNext == ViewInv /\ [ViewNext]_allVars => ViewInv'
<1> SUFFICES ASSUME ViewInv, [ViewNext]_allVars  PROVE ViewInv'
  OBVIOUS
<1>0. Inv
  BY DEF ViewInv
<1>1. CASE UNCHANGED allVars
  <2>1. Inv'
    BY <1>0, <1>1, InvStutters DEF allVars
  <2> QED  BY <1>1, <2>1 DEF ViewInv, InputOK, allVars, vars, viewVars
<1>2. ASSUME NEW b \in Buffers \ {target}, Lifetime(b) \/ Change(b),
             target # NoBuffer => data'[target] = data[target], UNCHANGED viewVars
      PROVE  ViewInv'
  <2>1. Inv'
    BY <1>0, <1>2, LifetimeStep, ChangeStep
  <2>2. target # NoBuffer => Kept(target)
    BY <1>0, <1>2, OthersKept DEF ViewInv
  <2> QED  BY <1>2, <2>1, <2>2 DEF ViewInv, InputOK, Kept, viewVars
<1>3. ASSUME NEW b \in Buffers, NEW m \in Sizes, view_construct(b, m)  PROVE ViewInv'
  <2>1. Inv'
    BY <1>0, <1>3, InvStutters DEF view_construct
  <2>2. /\ target' = b /\ size_' = SizeMax /\ max_size_' = MinOf(max_size[b], m) /\ ~prepared'
        /\ input' = val[b] /\ size' = size /\ val' = val
    BY <1>3 DEF view_construct, vars
  <2>3. /\ val[b] \in Seq(Values) /\ Len(val[b]) = size[b] /\ max_size[b] \in Nat
        /\ SizeMax \in Nat /\ m \in Nat /\ m <= SizeMax
    BY <1>0, MemFacts, SizeAssumption DEF Sizes
  <2>4. MinOf(max_size[b], m) \in Nat /\ MinOf(max_size[b], m) <= SizeMax
    BY <2>3 DEF MinOf
  <2>5. InputOK'
    BY <2>2, <2>3 DEF InputOK, Matches
  <2> QED  BY <2>1, <2>2, <2>3, <2>4, <2>5 DEF ViewInv
<1>4. CASE view_destroy
  <2>1. Inv'
    BY <1>0, <1>4, InvStutters DEF view_destroy
  <2>2. <<>> \in Seq(Values) /\ SizeMax \in Nat
    BY EmptySeq, SizeAssumption
  <2> QED  BY <1>4, <2>1, <2>2 DEF ViewInv, view_destroy
<1> QED
  BY <1>1, <1>2, <1>3, <1>4, PrepareStep, CommitStep, GrowStep, ShrinkStep, ConsumeStep, FillStep
  DEF ViewNext

\* There is no view at the beginning.
LEMMA ViewInvInit == ViewInit => ViewInv
<1>1. <<>> \in Seq(Values) /\ SizeMax \in Nat
  BY EmptySeq, SizeAssumption
<1> QED  BY <1>1, InvInit DEF ViewInit, ViewInv

\* The same with a dynamic_linear_buffer that changes one of the buffers: its
\* subtractions of sizes do not wrap, and none of its operations takes a buffer
\* outside of its block.
THEOREM ViewBlocksOwnedInvariant == ViewSpec => []BlocksOwned
<1>1. ViewInv => BlocksOwned
  BY DEF ViewInv, Inv
<1> QED  BY <1>1, ViewInvInit, ViewInvNext, PTL DEF ViewSpec

\* The buffers also hold what is documented when one of them is changed through
\* a dynamic_linear_buffer.
THEOREM ViewContentInvariant == ViewSpec => []ContentAsDocumented
<1>1. ViewInv => ContentAsDocumented
  BY DEF ViewInv, Inv, BlocksOwned, TypeOK, Matches, ContentAsDocumented
<1> QED  BY <1>1, ViewInvInit, ViewInvNext, PTL DEF ViewSpec

\* The input sequence of a dynamic_linear_buffer is kept through prepare, commit,
\* consume, grow and shrink, for every limit up to and including the value of
\* size_ that means that nothing has been prepared: size() is the length of the
\* input as far as the limit lets it be seen, and memory begins with its bytes.
THEOREM InputKeptInvariant == ViewSpec => []InputKept
<1>1. ViewInv => InputKept
  <2> SUFFICES ASSUME ViewInv, target # NoBuffer
               PROVE  /\ view_size = MinOf(Len(input), max_size_)
                      /\ Len(input) <= size[target]
                      /\ \A i \in 1 .. Len(input) : input[i] \in {Unspecified, Mem(target)[i]}
    BY DEF InputKept
  <2>1. /\ view_size = MinOf(Len(input), max_size_) /\ Len(input) <= size[target]
        /\ Len(input) \in Nat /\ Matches(input, val[target])
    BY ViewFacts
  <2>2. Len(val[target]) = size[target] /\ Matches(val[target], Mem(target)) /\ size[target] \in Nat
    BY ViewFacts, MemFacts
  <2>3. ASSUME NEW i \in 1 .. Len(input)  PROVE input[i] \in {Unspecified, Mem(target)[i]}
    <3>1. i \in 1 .. size[target]
      BY <2>1, <2>2
    <3> QED  BY <2>1, <2>2, <3>1 DEF Matches
  <2> QED  BY <2>1, <2>3
<1> QED  BY <1>1, ViewInvInit, ViewInvNext, PTL DEF ViewSpec
=============================================================================
