------------------------ MODULE BufferedStreamProofs ------------------------
(***************************************************************************)
(* For buffers of any size and any number of bytes: buffered_stream sends   *)
(* every byte once and in order, and keeps what a flush did not send; and   *)
(* its read buffer holds a contiguous run of what the peer sent.            *)
(***************************************************************************)
EXTENDS BufferedStream, SequenceTheorems, TLAPS

-----------------------------------------------------------------------------
(* Sequences.                                                               *)

Increasing(s) == \A i, j \in 1 .. Len(s) : i < j => s[i] < s[j]
Below(s, t) == \A i \in 1 .. Len(s), j \in 1 .. Len(t) : s[i] < t[j]

\* w, u and b are in order one after the other.
Ordered(w, u, b) ==
  /\ Increasing(w) /\ Increasing(u) /\ Increasing(b)
  /\ Below(w, u) /\ Below(w, b) /\ Below(u, b)

\* No byte of s was appended later than the n-th.
AtMost(s, n) == \A i \in 1 .. Len(s) : s[i] <= n

\* What Take and consume make of a sequence.
LEMMA TakeConsume ==
  ASSUME NEW S, NEW s \in Seq(S), NEW n \in Nat
  PROVE  /\ consume(s, n) \in Seq(S)
         /\ Len(consume(s, n)) = Len(s) - MinOf(n, Len(s))
         /\ \A i \in 1 .. Len(consume(s, n)) : consume(s, n)[i] = s[MinOf(n, Len(s)) + i]
         /\ n <= Len(s) => /\ Take(s, n) \in Seq(S) /\ Len(Take(s, n)) = n
                           /\ \A i \in 1 .. n : Take(s, n)[i] = s[i]
<1> DEFINE m == MinOf(n, Len(s))
<1>1. Len(s) \in Nat /\ m \in Nat /\ m <= Len(s)
  BY DEF MinOf
<1>2. \A i \in 1 .. Len(s) : s[i] \in S
  BY ElementOfSeq
<1> HIDE DEF m
<1>3. /\ SubSeq(s, m + 1, Len(s)) \in Seq(S)
      /\ Len(SubSeq(s, m + 1, Len(s))) = Len(s) - m
      /\ \A i \in 1 .. Len(s) - m : SubSeq(s, m + 1, Len(s))[i] = s[m + i]
  <2>1. \A i \in m + 1 .. Len(s) : s[i] \in S
    BY <1>1, <1>2
  <2>2. /\ SubSeq(s, m + 1, Len(s)) \in Seq(S)
        /\ Len(SubSeq(s, m + 1, Len(s))) =
             IF m + 1 <= Len(s) THEN Len(s) - (m + 1) + 1 ELSE 0
        /\ \A i \in 1 .. Len(s) - (m + 1) + 1 :
             SubSeq(s, m + 1, Len(s))[i] = s[(m + 1) + i - 1]
    BY <1>1, <2>1, SubSeqProperties
  <2> QED  BY <1>1, <2>2
<1>4. ASSUME n <= Len(s)
      PROVE  /\ SubSeq(s, 1, n) \in Seq(S) /\ Len(SubSeq(s, 1, n)) = n
             /\ \A i \in 1 .. n : SubSeq(s, 1, n)[i] = s[i]
  <2>1. \A i \in 1 .. n : s[i] \in S
    BY <1>1, <1>2, <1>4
  <2>2. /\ SubSeq(s, 1, n) \in Seq(S)
        /\ Len(SubSeq(s, 1, n)) = IF 1 <= n THEN n - 1 + 1 ELSE 0
        /\ \A i \in 1 .. n - 1 + 1 : SubSeq(s, 1, n)[i] = s[1 + i - 1]
    BY <2>1, SubSeqProperties
  <2> QED  BY <2>2
<1> QED  BY <1>3, <1>4 DEF consume, Take, m

\* Consuming nothing changes nothing.
LEMMA ConsumeNothing ==
  ASSUME NEW S, NEW s \in Seq(S)
  PROVE  consume(s, 0) = s
<1>1. Len(s) \in Nat
  OBVIOUS
<1>2. MinOf(0, Len(s)) + 1 = 1
  BY <1>1 DEF MinOf
<1> QED  BY <1>2, SubSeqFull DEF consume

\* Of nothing, nothing is left.
LEMMA ConsumeEmpty ==
  ASSUME NEW n \in Nat
  PROVE  consume(<<>>, n) = <<>>
<1>1. MinOf(n, Len(<<>>)) = 0
  BY DEF MinOf
<1> QED  BY <1>1, SubSeqEmpty DEF consume

\* Consuming in two parts.
LEMMA ConsumeTwice ==
  ASSUME NEW S, NEW s \in Seq(S), NEW a \in Nat, NEW b \in Nat
  PROVE  consume(consume(s, a), b) = consume(s, a + b)
<1> DEFINE l == consume(consume(s, a), b)
<1> DEFINE r == consume(s, a + b)
<1>1. /\ consume(s, a) \in Seq(S) /\ Len(consume(s, a)) = Len(s) - MinOf(a, Len(s))
      /\ \A i \in 1 .. Len(consume(s, a)) : consume(s, a)[i] = s[MinOf(a, Len(s)) + i]
  BY TakeConsume
<1>2. /\ l \in Seq(S) /\ Len(l) = Len(consume(s, a)) - MinOf(b, Len(consume(s, a)))
      /\ \A i \in 1 .. Len(l) : l[i] = consume(s, a)[MinOf(b, Len(consume(s, a))) + i]
  BY <1>1, TakeConsume
<1>3. /\ r \in Seq(S) /\ Len(r) = Len(s) - MinOf(a + b, Len(s))
      /\ \A i \in 1 .. Len(r) : r[i] = s[MinOf(a + b, Len(s)) + i]
  <2>1. a + b \in Nat
    OBVIOUS
  <2> QED  BY <2>1, TakeConsume
<1>4. Len(s) \in Nat
  OBVIOUS
<1> HIDE DEF l, r
<1>5. Len(l) = Len(r)
  BY <1>1, <1>2, <1>3, <1>4 DEF MinOf
<1>6. ASSUME NEW i \in 1 .. Len(l)  PROVE l[i] = r[i]
  <2>1. CASE a + b < Len(s)
    <3>1. MinOf(a, Len(s)) = a /\ MinOf(a + b, Len(s)) = a + b /\ MinOf(b, Len(consume(s, a))) = b
      BY <1>1, <1>4, <2>1 DEF MinOf
    <3>2. b + i \in 1 .. Len(consume(s, a)) /\ i \in 1 .. Len(r)
      BY <1>1, <1>2, <1>4, <1>5, <3>1
    <3>3. l[i] = consume(s, a)[b + i] /\ r[i] = s[(a + b) + i]
      BY <1>2, <1>3, <3>1, <3>2
    <3>4. consume(s, a)[b + i] = s[a + (b + i)]
      BY <1>1, <3>1, <3>2
    <3> QED  BY <3>3, <3>4
  <2>2. CASE ~(a + b < Len(s))
    <3>1. Len(r) = 0
      BY <1>3, <1>4, <2>2 DEF MinOf
    <3> QED  BY <1>5, <3>1
  <2> QED  BY <2>1, <2>2
<1> QED  BY <1>2, <1>3, <1>5, <1>6, SeqEqual DEF l, r

\* A sequence is what is taken and what is left.
LEMMA TakeAndRest ==
  ASSUME NEW S, NEW s \in Seq(S), NEW n \in Nat, n <= Len(s)
  PROVE  Take(s, n) \o consume(s, n) = s
<1>1. MinOf(n, Len(s)) = n /\ 1 \in 1 .. Len(s) + 1 /\ n \in 1 - 1 .. Len(s) /\ Len(s) \in n .. Len(s)
  BY DEF MinOf
<1>2. SubSeq(s, 1, n) \o SubSeq(s, n + 1, Len(s)) = SubSeq(s, 1, Len(s))
  BY <1>1, ConcatAdjacentSubSeq
<1> QED  BY <1>1, <1>2, SubSeqFull DEF Take, consume

\* The elements of a concatenation.
LEMMA ElementsConcat ==
  ASSUME NEW S, NEW s \in Seq(S), NEW t \in Seq(S)
  PROVE  Elements(s \o t) = Elements(s) \cup Elements(t)
<1>1. \A q \in Seq(S) : Elements(q) = Range(q)
  BY RangeEquality DEF Elements
<1>2. s \o t \in Seq(S)
  BY ConcatProperties
<1>3. Range(s \o t) = Range(s) \cup Range(t)
  BY RangeConcatenation
<1> QED  BY <1>1, <1>2, <1>3

\* A concatenation increases when its parts do, one after the other.
LEMMA IncreasingConcat ==
  ASSUME NEW s \in Seq(Nat), NEW t \in Seq(Nat)
  PROVE  Increasing(s \o t) <=> Increasing(s) /\ Increasing(t) /\ Below(s, t)
<1> DEFINE c == s \o t
<1>1. /\ c \in Seq(Nat) /\ Len(c) = Len(s) + Len(t)
      /\ \A i \in 1 .. Len(s) + Len(t) : c[i] = IF i <= Len(s) THEN s[i] ELSE t[i - Len(s)]
  BY ConcatProperties
<1>2. Len(s) \in Nat /\ Len(t) \in Nat
  OBVIOUS
<1>3. /\ \A i \in 1 .. Len(s) : c[i] = s[i] /\ i \in 1 .. Len(c)
      /\ \A i \in 1 .. Len(t) : c[Len(s) + i] = t[i] /\ Len(s) + i \in 1 .. Len(c)
  BY <1>1, <1>2
<1> HIDE DEF c
<1>4. ASSUME Increasing(c)  PROVE Increasing(s) /\ Increasing(t) /\ Below(s, t)
  <2>1. Increasing(s)
    BY <1>3, <1>4 DEF Increasing
  <2>2. ASSUME NEW i \in 1 .. Len(t), NEW j \in 1 .. Len(t), i < j  PROVE t[i] < t[j]
    <3>1. c[Len(s) + i] < c[Len(s) + j]
      BY <1>2, <1>3, <1>4, <2>2 DEF Increasing
    <3> QED  BY <1>3, <3>1
  <2>3. ASSUME NEW i \in 1 .. Len(s), NEW j \in 1 .. Len(t)  PROVE s[i] < t[j]
    <3>1. c[i] < c[Len(s) + j]
      BY <1>2, <1>3, <1>4 DEF Increasing
    <3> QED  BY <1>3, <3>1
  <2> QED  BY <2>1, <2>2, <2>3 DEF Increasing, Below
<1>5. ASSUME Increasing(s), Increasing(t), Below(s, t)  PROVE Increasing(c)
  <2> SUFFICES ASSUME NEW i \in 1 .. Len(c), NEW j \in 1 .. Len(c), i < j  PROVE c[i] < c[j]
    BY DEF Increasing
  <2>1. CASE j <= Len(s)
    <3>1. i \in 1 .. Len(s) /\ j \in 1 .. Len(s)
      BY <1>2, <2>1
    <3> QED  BY <1>3, <1>5, <3>1 DEF Increasing
  <2>2. CASE i <= Len(s) /\ ~(j <= Len(s))
    <3>1. i \in 1 .. Len(s) /\ j - Len(s) \in 1 .. Len(t)
      BY <1>1, <1>2, <2>2
    <3> QED  BY <1>1, <1>5, <2>2, <3>1 DEF Below
  <2>3. CASE ~(i <= Len(s))
    <3>1. i - Len(s) \in 1 .. Len(t) /\ j - Len(s) \in 1 .. Len(t) /\ i - Len(s) < j - Len(s)
      BY <1>1, <1>2, <2>3
    <3>2. t[i - Len(s)] < t[j - Len(s)]
      BY <1>5, <3>1 DEF Increasing
    <3>3. c[i] = t[i - Len(s)] /\ c[j] = t[j - Len(s)]
      <4>1. /\ i \in 1 .. Len(s) + Len(t) /\ j \in 1 .. Len(s) + Len(t)
            /\ ~(i <= Len(s)) /\ ~(j <= Len(s))
        BY <1>1, <1>2, <2>3
      <4> QED  BY <1>1, <4>1
    <3> QED  BY <3>2, <3>3
  <2> QED  BY <1>2, <2>1, <2>2, <2>3
<1> QED  BY <1>4, <1>5 DEF c

\* What is below a concatenation, and what a concatenation is below of.
LEMMA BelowConcat ==
  ASSUME NEW s \in Seq(Nat), NEW t \in Seq(Nat), NEW b \in Seq(Nat)
  PROVE  Below(s \o t, b) <=> Below(s, b) /\ Below(t, b)
<1> DEFINE c == s \o t
<1>1. /\ Len(c) = Len(s) + Len(t)
      /\ \A i \in 1 .. Len(s) + Len(t) : c[i] = IF i <= Len(s) THEN s[i] ELSE t[i - Len(s)]
  BY ConcatProperties
<1>2. Len(s) \in Nat /\ Len(t) \in Nat
  OBVIOUS
<1>3. /\ \A i \in 1 .. Len(s) : c[i] = s[i] /\ i \in 1 .. Len(c)
      /\ \A i \in 1 .. Len(t) : c[Len(s) + i] = t[i] /\ Len(s) + i \in 1 .. Len(c)
      /\ \A i \in 1 .. Len(c) : \/ i \in 1 .. Len(s) /\ c[i] = s[i]
                                \/ i - Len(s) \in 1 .. Len(t) /\ c[i] = t[i - Len(s)]
  BY <1>1, <1>2
<1> HIDE DEF c
<1>4. Below(c, b) <=> Below(s, b) /\ Below(t, b)
  BY <1>3 DEF Below
<1> QED  BY <1>4 DEF c

\* Three sequences are in order if their concatenation increases.
LEMMA OrderedConcat ==
  ASSUME NEW w \in Seq(Nat), NEW u \in Seq(Nat), NEW b \in Seq(Nat)
  PROVE  Increasing(w \o u \o b) <=> Ordered(w, u, b)
<1>1. w \o u \in Seq(Nat)
  BY ConcatProperties
<1>2. Increasing(w \o u \o b) <=> Increasing(w \o u) /\ Increasing(b) /\ Below(w \o u, b)
  BY <1>1, IncreasingConcat
<1>3. Increasing(w \o u) <=> Increasing(w) /\ Increasing(u) /\ Below(w, u)
  BY IncreasingConcat
<1>4. Below(w \o u, b) <=> Below(w, b) /\ Below(u, b)
  BY BelowConcat
<1> QED  BY <1>2, <1>3, <1>4 DEF Ordered

\* Concatenation is associative.
LEMMA Regroup ==
  ASSUME NEW s \in Seq(Nat), NEW t \in Seq(Nat), NEW u \in Seq(Nat)
  PROVE  (s \o t) \o u = s \o (t \o u)
BY ConcatAssociative

\* The first bytes of u are sent.
LEMMA MoveFront ==
  ASSUME NEW w \in Seq(Nat), NEW u \in Seq(Nat), NEW b \in Seq(Nat), Ordered(w, u, b),
         NEW n \in Nat, n <= Len(u)
  PROVE  Ordered(w \o Take(u, n), consume(u, n), b)
<1> DEFINE t == Take(u, n)
<1> DEFINE c == consume(u, n)
<1>1. t \in Seq(Nat) /\ c \in Seq(Nat) /\ t \o c = u
  BY TakeConsume, TakeAndRest
<1> HIDE DEF t, c
<1>2. w \o u = (w \o t) \o c
  <2>1. (w \o t) \o c = w \o (t \o c)
    BY <1>1, Regroup
  <2> QED  BY <1>1, <2>1
<1>3. Increasing(w \o u \o b)
  BY OrderedConcat
<1>4. w \o t \in Seq(Nat)
  BY <1>1, ConcatProperties
<1>5. Increasing((w \o t) \o c \o b)
  BY <1>2, <1>3
<1>6. Ordered(w \o t, c, b)
  BY <1>1, <1>4, <1>5, OrderedConcat
<1> QED  BY <1>6 DEF t, c

\* The empty sequence is in order anywhere.
LEMMA OrderedEmpty ==
  ASSUME NEW w, NEW u, NEW b, Ordered(w, u, b)
  PROVE  Ordered(w, <<>>, b) /\ Ordered(w, u, <<>>) /\ Ordered(w, b, <<>>) /\ Ordered(w, <<>>, <<>>)
BY DEF Ordered, Increasing, Below

\* A newer byte is appended.
LEMMA OrderedAppend ==
  ASSUME NEW w \in Seq(Nat), NEW u \in Seq(Nat), NEW b \in Seq(Nat), Ordered(w, u, b),
         NEW n \in Nat, AtMost(w, n), AtMost(u, n), AtMost(b, n)
  PROVE  Ordered(w, u, Append(b, n + 1)) /\ AtMost(Append(b, n + 1), n + 1)
<1> DEFINE c == Append(b, n + 1)
<1>1. /\ Len(c) = Len(b) + 1 /\ \A i \in 1 .. Len(b) : c[i] = b[i]
      /\ c[Len(b) + 1] = n + 1
  BY AppendProperties
<1>2. Len(b) \in Nat /\ Len(u) \in Nat /\ Len(w) \in Nat
  OBVIOUS
<1>3. /\ \A i \in 1 .. Len(w) : w[i] < n + 1
      /\ \A i \in 1 .. Len(u) : u[i] < n + 1
      /\ \A i \in 1 .. Len(b) : b[i] < n + 1
  <2>1. /\ \A i \in 1 .. Len(w) : w[i] \in Nat
        /\ \A i \in 1 .. Len(u) : u[i] \in Nat
        /\ \A i \in 1 .. Len(b) : b[i] \in Nat
    BY ElementOfSeq
  <2>2. \A x \in Nat : x <= n => x < n + 1
    OBVIOUS
  <2> QED  BY <2>1, <2>2 DEF AtMost
<1> HIDE DEF c
<1>4. \A i \in 1 .. Len(c) : (i \in 1 .. Len(b) /\ c[i] = b[i]) \/ (i = Len(b) + 1 /\ c[i] = n + 1)
  BY <1>1, <1>2
<1>5. AtMost(c, n + 1)
  <2> SUFFICES ASSUME NEW i \in 1 .. Len(c)  PROVE c[i] <= n + 1
    BY DEF AtMost
  <2>1. CASE i \in 1 .. Len(b) /\ c[i] = b[i]
    <3>1. b[i] \in Nat
      BY <2>1, ElementOfSeq
    <3> QED  BY <1>3, <2>1, <3>1
  <2>2. CASE c[i] = n + 1
    BY <2>2
  <2> QED  BY <1>4, <2>1, <2>2
<1>6. Increasing(c)
  <2> SUFFICES ASSUME NEW i \in 1 .. Len(c), NEW j \in 1 .. Len(c), i < j  PROVE c[i] < c[j]
    BY DEF Increasing
  <2>1. i \in 1 .. Len(b) /\ c[i] = b[i]
    BY <1>1, <1>2
  <2>2. CASE j \in 1 .. Len(b) /\ c[j] = b[j]
    BY <2>1, <2>2 DEF Ordered, Increasing
  <2>3. CASE c[j] = n + 1
    BY <1>3, <2>1, <2>3
  <2> QED  BY <1>4, <2>2, <2>3
<1>7. Below(w, c)
  <2> SUFFICES ASSUME NEW i \in 1 .. Len(w), NEW j \in 1 .. Len(c)  PROVE w[i] < c[j]
    BY DEF Below
  <2>1. CASE j \in 1 .. Len(b) /\ c[j] = b[j]
    BY <2>1 DEF Ordered, Below
  <2>2. CASE c[j] = n + 1
    BY <1>3, <2>2
  <2> QED  BY <1>4, <2>1, <2>2
<1>8. Below(u, c)
  <2> SUFFICES ASSUME NEW i \in 1 .. Len(u), NEW j \in 1 .. Len(c)  PROVE u[i] < c[j]
    BY DEF Below
  <2>1. CASE j \in 1 .. Len(b) /\ c[j] = b[j]
    BY <2>1 DEF Ordered, Below
  <2>2. CASE c[j] = n + 1
    BY <1>3, <2>2
  <2> QED  BY <1>4, <2>1, <2>2
<1> QED  BY <1>5, <1>6, <1>7, <1>8 DEF Ordered, c

\* Bounds of parts and of a concatenation.
LEMMA AtMostParts ==
  ASSUME NEW w \in Seq(Nat), NEW u \in Seq(Nat), NEW m \in Nat, AtMost(w, m), AtMost(u, m),
         NEW n \in Nat
  PROVE  /\ AtMost(consume(u, n), m)
         /\ n <= Len(u) => AtMost(w \o Take(u, n), m)
<1>1. AtMost(consume(u, n), m)
  <2>1. /\ Len(consume(u, n)) = Len(u) - MinOf(n, Len(u))
        /\ \A i \in 1 .. Len(consume(u, n)) : consume(u, n)[i] = u[MinOf(n, Len(u)) + i]
    BY TakeConsume
  <2>2. Len(u) \in Nat /\ MinOf(n, Len(u)) \in Nat /\ MinOf(n, Len(u)) <= Len(u)
    BY DEF MinOf
  <2>3. ASSUME NEW i \in 1 .. Len(consume(u, n))
        PROVE  MinOf(n, Len(u)) + i \in 1 .. Len(u)
    BY <2>1, <2>2
  <2> QED  BY <2>1, <2>3 DEF AtMost
<1>2. ASSUME n <= Len(u)  PROVE AtMost(w \o Take(u, n), m)
  <2> DEFINE t == Take(u, n)
  <2>1. t \in Seq(Nat) /\ Len(t) = n /\ \A i \in 1 .. n : t[i] = u[i]
    BY <1>2, TakeConsume
  <2>2. AtMost(t, m)
    <3>1. \A i \in 1 .. Len(t) : i \in 1 .. Len(u) /\ t[i] = u[i]
      BY <1>2, <2>1
    <3> QED  BY <3>1 DEF AtMost
  <2> HIDE DEF t
  <2>3. /\ Len(w \o t) = Len(w) + Len(t)
        /\ \A i \in 1 .. Len(w) + Len(t) : (w \o t)[i] = IF i <= Len(w) THEN w[i] ELSE t[i - Len(w)]
    BY <2>1, ConcatProperties
  <2>4. Len(w) \in Nat /\ Len(t) \in Nat
    BY <2>1
  <2>5. ASSUME NEW i \in 1 .. Len(w \o t)  PROVE (w \o t)[i] <= m
    <3>1. CASE i <= Len(w)
      BY <2>3, <2>4, <3>1 DEF AtMost
    <3>2. CASE ~(i <= Len(w))
      <4>1. i - Len(w) \in 1 .. Len(t)
        BY <2>3, <2>4, <3>2
      <4> QED  BY <2>2, <2>3, <3>2, <4>1 DEF AtMost
    <3> QED  BY <3>1, <3>2
  <2>6. AtMost(w \o t, m)
    BY <2>5 DEF AtMost
  <2> QED  BY <2>6 DEF t
<1> QED  BY <1>1, <1>2

-----------------------------------------------------------------------------
(* Writing.                                                                 *)

\* The bytes on their way: what was sent, what a flush has still to send, and
\* what was appended since.  After close() the write that is under way goes on
\* with bytes that are in no buffer any more.
WriteInv ==
  /\ TypeOK
  /\ Ordered(wire, Unsent, write_buffer)
  /\ Ordered(wire, view, write_buffer)
  /\ AtMost(wire, appended) /\ AtMost(view, appended)
  /\ AtMost(write_buffer, appended) /\ AtMost(write_buffer_locked, appended)
  /\ writing => flush_pending /\ (view = Unsent \/ write_buffer_locked = <<>>)
  /\ ~writing => written = 0 /\ view = <<>>
  /\ written + Len(view) <= MaxWrite
  /\ 1 .. appended \subseteq
       Elements(wire) \cup Elements(Unsent) \cup Elements(write_buffer) \cup cleared

\* Bytes are numbers.
LEMMA ByteSeqs ==
  ASSUME TypeOK
  PROVE  /\ wire \in Seq(Nat) /\ view \in Seq(Nat) /\ write_buffer \in Seq(Nat)
         /\ write_buffer_locked \in Seq(Nat)
         /\ Unsent \in Seq(Bytes) /\ Unsent \in Seq(Nat)
         /\ written \in Nat /\ appended \in Nat
         /\ Len(Unsent) <= Len(write_buffer_locked)
<1>1. Bytes \subseteq Nat
  BY DEF Bytes
<1>2. written \in Nat /\ appended \in Nat
  BY SizeAssumption DEF TypeOK
<1>3. /\ Unsent \in Seq(Bytes)
      /\ Len(Unsent) = Len(write_buffer_locked) - MinOf(written, Len(write_buffer_locked))
  BY <1>2, TakeConsume DEF TypeOK, Unsent
<1>4. Len(Unsent) <= Len(write_buffer_locked)
  <2>1. Len(write_buffer_locked) \in Nat
    BY DEF TypeOK
  <2> QED  BY <1>2, <1>3, <2>1 DEF MinOf
<1> QED  BY <1>1, <1>2, <1>3, <1>4, SeqMonotonic DEF TypeOK

\* When no write is under way nothing of the locked buffer has been sent, and
\* lock_write_buffers does not change the bytes on their way.
LEMMA Swapping ==
  ASSUME WriteInv, ~writing
  PROVE  /\ Unsent = write_buffer_locked
         /\ swapped.locked \in Seq(Bytes) /\ swapped.write \in Seq(Bytes)
         /\ Len(swapped.locked) <= MaxWrite /\ Len(swapped.write) <= MaxWrite
         /\ Ordered(wire, swapped.locked, swapped.write)
         /\ AtMost(swapped.locked, appended) /\ AtMost(swapped.write, appended)
         /\ Elements(swapped.locked) \cup Elements(swapped.write) =
              Elements(write_buffer_locked) \cup Elements(write_buffer)
<1>1. Unsent = write_buffer_locked
  BY ConsumeNothing DEF WriteInv, TypeOK, Unsent
<1>2. CASE write_buffer_locked = <<>>
  <2>1. swapped.locked = write_buffer /\ swapped.write = <<>>
    BY <1>2 DEF swapped
  <2>2. Ordered(wire, write_buffer, <<>>)
    BY OrderedEmpty DEF WriteInv
  <2> QED  BY <1>1, <1>2, <2>1, <2>2 DEF WriteInv, TypeOK
<1>3. CASE write_buffer_locked # <<>>
  <2>1. swapped.locked = write_buffer_locked /\ swapped.write = write_buffer
    BY <1>3 DEF swapped
  <2> QED  BY <1>1, <2>1 DEF WriteInv, TypeOK
<1> QED  BY <1>1, <1>2, <1>3

\* append.
LEMMA AppendStep ==
  ASSUME WriteInv, append
  PROVE  WriteInv'
<1>1. /\ wire \in Seq(Nat) /\ view \in Seq(Nat) /\ Unsent \in Seq(Nat) /\ appended \in Nat
      /\ write_buffer \in Seq(Nat)
  BY ByteSeqs DEF WriteInv
<1>2. UNCHANGED <<wire, view, write_buffer_locked, written, writing, flush_pending, cleared>>
  BY DEF append
<1>3. Unsent' = Unsent
  BY <1>2 DEF Unsent
<1>4. AtMost(Unsent, appended)
  BY <1>1, ByteSeqs, AtMostParts DEF WriteInv, Unsent
<1>5. TypeOK'
  <2>1. appended + 1 \in Bytes
    BY <1>1, SizeAssumption DEF append, Bytes
  <2>2. /\ write_buffer' \in Seq(Bytes) /\ Len(write_buffer') = Len(write_buffer) + 1
    BY <2>1, AppendProperties DEF append, WriteInv, TypeOK
  <2>3. Len(write_buffer) \in Nat /\ appended' \in 0 .. MaxBytes
    BY <1>1, SizeAssumption DEF append
  <2>4. Len(write_buffer') <= MaxWrite
    BY <2>2, <2>3, SizeAssumption DEF append
  <2> QED  BY <1>2, <2>2, <2>3, <2>4 DEF append, readVars, WriteInv, TypeOK
<1>6. Ordered(wire, Unsent, write_buffer') /\ AtMost(write_buffer', appended')
  BY <1>1, <1>4, OrderedAppend DEF append, WriteInv
<1>7. Ordered(wire, view, write_buffer')
  BY <1>1, OrderedAppend DEF append, WriteInv
<1>8. ASSUME NEW s \in Seq(Nat), AtMost(s, appended)  PROVE AtMost(s, appended')
  <2>1. appended' = appended + 1 /\ \A i \in 1 .. Len(s) : s[i] \in Nat
    BY ElementOfSeq DEF append
  <2> QED  BY <1>1, <1>8, <2>1 DEF AtMost
<1>9. AtMost(wire', appended') /\ AtMost(view', appended') /\ AtMost(write_buffer_locked', appended')
  BY <1>1, <1>2, <1>8, ByteSeqs DEF WriteInv
<1>10. Elements(write_buffer') = Elements(write_buffer) \cup {appended + 1}
  <2>1. /\ Len(write_buffer') = Len(write_buffer) + 1 /\ write_buffer'[Len(write_buffer) + 1] = appended + 1
        /\ \A i \in 1 .. Len(write_buffer) : write_buffer'[i] = write_buffer[i]
    BY <1>1, AppendProperties DEF append
  <2>2. Len(write_buffer) \in Nat
    BY <1>1
  <2>3. 1 .. Len(write_buffer) + 1 = (1 .. Len(write_buffer)) \cup {Len(write_buffer) + 1}
    BY <2>2
  <2> QED  BY <2>1, <2>3 DEF Elements
<1>11. 1 .. appended' = (1 .. appended) \cup {appended + 1}
  BY <1>1 DEF append
<1> QED  BY <1>2, <1>3, <1>5, <1>6, <1>7, <1>9, <1>10, <1>11 DEF WriteInv

\* flush with an error_code that holds an error already.
LEMMA FlushStaleStep ==
  ASSUME WriteInv, flush_stale
  PROVE  WriteInv'
<1>1. /\ ~writing /\ written = 0 /\ flush_pending' = TRUE
      /\ UNCHANGED <<wire, view, written, writing, cleared, appended>>
      /\ write_buffer' = swapped.write /\ write_buffer_locked' = swapped.locked
  BY DEF flush_stale, lock_write_buffers, WriteInv
<1>2. Unsent' = swapped.locked
  <2>1. swapped.locked \in Seq(Bytes)
    BY <1>1, Swapping
  <2> QED  BY <1>1, <2>1, ConsumeNothing DEF Unsent
<1>3. TypeOK'
  BY <1>1, Swapping DEF flush_stale, readVars, WriteInv, TypeOK
<1>4. Ordered(wire, view, swapped.write)
  BY <1>1, Swapping, OrderedEmpty DEF WriteInv
<1> QED  BY <1>1, <1>2, <1>3, <1>4, Swapping DEF WriteInv

\* async_flush.
LEMMA AsyncFlushStep ==
  ASSUME WriteInv, async_flush
  PROVE  WriteInv'
<1>1. /\ ~writing /\ written = 0 /\ written' = 0 /\ flush_pending' = TRUE /\ writing' = TRUE
      /\ UNCHANGED <<wire, cleared, appended>> /\ view' = swapped.locked
      /\ write_buffer' = swapped.write /\ write_buffer_locked' = swapped.locked
  BY DEF async_flush, lock_write_buffers, WriteInv
<1>2. Unsent' = swapped.locked
  <2>1. swapped.locked \in Seq(Bytes)
    BY <1>1, Swapping
  <2> QED  BY <1>1, <2>1, ConsumeNothing DEF Unsent
<1>3. TypeOK'
  BY <1>1, Swapping DEF async_flush, readVars, WriteInv, TypeOK
<1>4. written' + Len(view') <= MaxWrite
  <2>1. Len(swapped.locked) \in Nat
    BY <1>1, Swapping
  <2> QED  BY <1>1, <2>1, Swapping
<1> QED  BY <1>1, <1>2, <1>3, <1>4, Swapping DEF WriteInv

\* flush.
LEMMA FlushStep ==
  ASSUME WriteInv, NEW n \in 0 .. MaxWrite, NEW own \in BOOLEAN, flush(n, own)
  PROVE  WriteInv'
<1> DEFINE l == swapped.locked
<1> DEFINE b == swapped.write
<1>1. /\ ~writing /\ written = 0 /\ view = <<>> /\ n \in Nat /\ n <= Len(l)
      /\ UNCHANGED <<view, written, writing, flush_pending, cleared, appended>>
      /\ wire' = wire \o Take(l, n) /\ write_buffer' = b /\ write_buffer_locked' = consume(l, n)
  BY SizeAssumption DEF flush, WriteInv
<1>2. /\ l \in Seq(Bytes) /\ b \in Seq(Bytes) /\ Len(l) <= MaxWrite /\ Len(b) <= MaxWrite
      /\ Ordered(wire, l, b) /\ AtMost(l, appended) /\ AtMost(b, appended)
      /\ Elements(l) \cup Elements(b) = Elements(Unsent) \cup Elements(write_buffer)
  BY <1>1, Swapping
<1>3. /\ l \in Seq(Nat) /\ b \in Seq(Nat) /\ wire \in Seq(Nat) /\ appended \in Nat
      /\ wire \in Seq(Bytes) /\ TypeOK
  <2>1. Bytes \subseteq Nat
    BY DEF Bytes
  <2> QED  BY <1>2, <2>1, ByteSeqs, SeqMonotonic DEF WriteInv, TypeOK
<1> HIDE DEF l, b
<1>4. /\ Take(l, n) \in Seq(Bytes) /\ consume(l, n) \in Seq(Bytes)
      /\ Len(consume(l, n)) = Len(l) - MinOf(n, Len(l)) /\ Take(l, n) \o consume(l, n) = l
  BY <1>1, <1>2, TakeConsume, TakeAndRest
<1>5. Unsent' = consume(l, n)
  BY <1>1, <1>4, ConsumeNothing DEF Unsent
<1>6. TypeOK'
  <2>1. wire' \in Seq(Bytes)
    BY <1>1, <1>3, <1>4, ConcatProperties
  <2>2. Len(consume(l, n)) <= MaxWrite
    <3>1. Len(l) \in Nat
      BY <1>2
    <3> QED  BY <1>1, <1>2, <1>4, <3>1, SizeAssumption DEF MinOf
  <2>3. ec' \in BOOLEAN
    <3>1. ec \in BOOLEAN /\ (n < Len(swapped.locked)) \in BOOLEAN
      BY <1>3 DEF TypeOK
    <3>2. ec' = ec \/ ec' = (n < Len(swapped.locked))
      BY DEF flush
    <3> QED  BY <3>1, <3>2
  <2> QED  BY <1>1, <1>2, <1>3, <1>4, <2>1, <2>2, <2>3 DEF flush, readVars, TypeOK
<1>7. Ordered(wire', Unsent', write_buffer')
  BY <1>1, <1>2, <1>3, <1>5, MoveFront
<1>8. Ordered(wire', view', write_buffer')
  BY <1>1, <1>7, OrderedEmpty
<1>9. AtMost(wire', appended') /\ AtMost(write_buffer_locked', appended')
  BY <1>1, <1>2, <1>3, AtMostParts DEF WriteInv
<1>10. Elements(wire') \cup Elements(Unsent') = Elements(wire) \cup Elements(l)
  <2>1. Elements(wire') = Elements(wire) \cup Elements(Take(l, n))
    BY <1>1, <1>3, <1>4, ElementsConcat
  <2>2. Elements(l) = Elements(Take(l, n)) \cup Elements(consume(l, n))
    <3>1. Elements(Take(l, n) \o consume(l, n)) = Elements(Take(l, n)) \cup Elements(consume(l, n))
      BY <1>4, ElementsConcat
    <3> QED  BY <1>4, <3>1
  <2> QED  BY <1>5, <2>1, <2>2
<1> QED  BY <1>1, <1>2, <1>6, <1>7, <1>8, <1>9, <1>10 DEF WriteInv

\* One write_some of the write under way, also after close() and reopen.
LEMMA WriteSomeStep ==
  ASSUME WriteInv, NEW n \in 1 .. MaxWrite, write_some(n)
  PROVE  WriteInv'
<1>1. /\ writing /\ flush_pending /\ n \in Nat /\ n <= Len(view)
      /\ UNCHANGED <<writing, flush_pending, cleared, appended, write_buffer, write_buffer_locked>>
      /\ wire' = wire \o Take(view, n) /\ view' = consume(view, n) /\ written' = written + n
  BY SizeAssumption DEF write_some, WriteInv
<1>2. /\ view \in Seq(Bytes) /\ wire \in Seq(Bytes) /\ write_buffer_locked \in Seq(Bytes) /\ TypeOK
      /\ view \in Seq(Nat) /\ wire \in Seq(Nat) /\ write_buffer \in Seq(Nat)
      /\ appended \in Nat /\ written \in Nat /\ Len(view) \in Nat
  BY ByteSeqs DEF WriteInv, TypeOK
<1>3. /\ Take(view, n) \in Seq(Bytes) /\ consume(view, n) \in Seq(Bytes)
      /\ Len(consume(view, n)) = Len(view) - n /\ Take(view, n) \o consume(view, n) = view
  <2>1. MinOf(n, Len(view)) = n
    BY <1>1, <1>2 DEF MinOf
  <2> QED  BY <1>1, <1>2, <2>1, TakeConsume, TakeAndRest
<1>4. written' + Len(view') <= MaxWrite /\ written' \in 0 .. MaxWrite
  BY <1>1, <1>2, <1>3, SizeAssumption DEF WriteInv
<1>5. wire' \in Seq(Bytes)
  BY <1>1, <1>2, <1>3, ConcatProperties
<1>6. TypeOK'
  BY <1>1, <1>2, <1>3, <1>4, <1>5 DEF write_some, readVars, TypeOK
<1>7. Ordered(wire', view', write_buffer')
  BY <1>1, <1>2, MoveFront DEF WriteInv
<1>8. AtMost(wire', appended') /\ AtMost(view', appended')
  BY <1>1, <1>2, AtMostParts DEF WriteInv
<1>9. CASE view = Unsent
  <2>1. Unsent' = view'
    BY <1>1, <1>2, <1>9, ConsumeTwice DEF Unsent
  <2>2. Elements(wire') = Elements(wire) \cup Elements(Take(view, n))
    BY <1>1, <1>2, <1>3, ElementsConcat
  <2>3. Elements(Unsent) = Elements(Take(view, n)) \cup Elements(view')
    <3>1. Elements(Take(view, n) \o consume(view, n)) =
            Elements(Take(view, n)) \cup Elements(consume(view, n))
      BY <1>3, ElementsConcat
    <3> QED  BY <1>1, <1>3, <1>9, <3>1
  <2> QED  BY <1>1, <1>4, <1>6, <1>7, <1>8, <2>1, <2>2, <2>3 DEF WriteInv
<1>10. CASE write_buffer_locked = <<>>
  <2>1. Unsent = <<>> /\ Unsent' = <<>>
    BY <1>1, <1>2, <1>10, ConsumeEmpty DEF Unsent
  <2>2. Ordered(wire', Unsent', write_buffer')
    BY <1>7, <2>1, OrderedEmpty
  <2>3. Elements(wire') = Elements(wire) \cup Elements(Take(view, n))
    BY <1>1, <1>2, <1>3, ElementsConcat
  <2> QED  BY <1>1, <1>4, <1>6, <1>7, <1>8, <1>10, <2>1, <2>2, <2>3 DEF WriteInv
<1> QED  BY <1>1, <1>9, <1>10 DEF WriteInv

\* The write is over.
LEMMA FlushCompleteStep ==
  ASSUME WriteInv, flush_complete
  PROVE  WriteInv'
<1>1. /\ write_buffer_locked' = Unsent /\ written' = 0 /\ view' = <<>> /\ writing' = FALSE
      /\ flush_pending' = FALSE
      /\ UNCHANGED <<wire, write_buffer, appended, cleared>>
  BY DEF flush_complete, Unsent
<1>2. /\ Unsent \in Seq(Bytes) /\ Len(Unsent) <= Len(write_buffer_locked) /\ Len(Unsent) \in Nat
      /\ appended \in Nat /\ written \in Nat /\ write_buffer_locked \in Seq(Nat)
  BY ByteSeqs DEF WriteInv
<1>3. Unsent' = Unsent
  BY <1>1, <1>2, ConsumeNothing DEF Unsent
<1>4. AtMost(Unsent, appended)
  BY <1>2, AtMostParts DEF WriteInv, Unsent
<1>5. TypeOK'
  <2>1. Len(Unsent) <= MaxWrite /\ 0 \in 0 .. MaxWrite
    <3>1. Len(write_buffer_locked) \in Nat
      BY <1>2
    <3> QED  BY <1>2, <3>1, SizeAssumption DEF WriteInv, TypeOK
  <2>2. <<>> \in Seq(Bytes)
    BY EmptySeq
  <2>3. {flush_pending, ec, writing, reading, is_open}' \subseteq BOOLEAN
    BY DEF flush_complete, readVars, WriteInv, TypeOK
  <2> QED  BY <1>1, <1>2, <2>1, <2>2, <2>3 DEF flush_complete, readVars, WriteInv, TypeOK
<1>6. Ordered(wire, <<>>, write_buffer) /\ AtMost(<<>>, appended)
  BY OrderedEmpty DEF WriteInv, AtMost
<1>7. 0 + Len(<<>>) <= MaxWrite
  BY SizeAssumption
<1> QED  BY <1>1, <1>3, <1>4, <1>5, <1>6, <1>7 DEF WriteInv

\* close() throws the buffered bytes away; the write goes on with its view.
LEMMA CloseStep ==
  ASSUME WriteInv, close
  PROVE  WriteInv'
<1>1. /\ write_buffer' = <<>> /\ write_buffer_locked' = <<>>
      /\ cleared' = cleared \cup Elements(write_buffer) \cup Elements(write_buffer_locked)
      /\ UNCHANGED <<wire, view, written, writing, flush_pending, appended>>
  BY DEF close
<1>2. written \in Nat /\ write_buffer_locked \in Seq(Bytes) /\ write_buffer \in Seq(Bytes)
  BY ByteSeqs DEF WriteInv, TypeOK
<1>3. Unsent' = <<>>
  BY <1>1, <1>2, ConsumeEmpty DEF Unsent
<1>4. Elements(Unsent) \subseteq Elements(write_buffer_locked)
  <2>1. /\ Len(Unsent) = Len(write_buffer_locked) - MinOf(written, Len(write_buffer_locked))
        /\ \A i \in 1 .. Len(Unsent) :
             Unsent[i] = write_buffer_locked[MinOf(written, Len(write_buffer_locked)) + i]
    BY <1>2, TakeConsume DEF Unsent
  <2>2. Len(write_buffer_locked) \in Nat
    BY <1>2
  <2>3. \A i \in 1 .. Len(Unsent) :
          MinOf(written, Len(write_buffer_locked)) + i \in 1 .. Len(write_buffer_locked)
    BY <1>2, <2>1, <2>2 DEF MinOf
  <2> QED  BY <2>1, <2>3 DEF Elements
<1>5. Elements(write_buffer) \cup Elements(write_buffer_locked) \subseteq Bytes
  BY <1>2, ElementOfSeq DEF Elements
<1>6. TypeOK'
  <2>1. <<>> \in Seq(Bytes) /\ <<>> \in Seq(Bytes \cup {Garbage}) /\ Len(<<>>) = 0
    BY EmptySeq
  <2>2. {flush_pending, ec, writing, reading, is_open}' \subseteq BOOLEAN
    BY DEF close, WriteInv, TypeOK
  <2>3. 0 <= MaxWrite /\ 0 <= MaxRead /\ cleared' \subseteq Bytes
    BY <1>1, <1>5, SizeAssumption DEF WriteInv, TypeOK
  <2> QED  BY <1>1, <2>1, <2>2, <2>3 DEF close, WriteInv, TypeOK
<1>7. Ordered(wire, view, <<>>) /\ Ordered(wire, <<>>, <<>>) /\ AtMost(<<>>, appended)
  BY OrderedEmpty DEF WriteInv, AtMost
<1> QED  BY <1>1, <1>3, <1>4, <1>6, <1>7 DEF WriteInv

\* The other steps leave the bytes on their way alone.
LEMMA OtherStep ==
  ASSUME WriteInv, TypeOK', UNCHANGED writeVars, UNCHANGED cleared
  PROVE  WriteInv'
BY DEF WriteInv, writeVars, Unsent

-----------------------------------------------------------------------------
(* Reading.                                                                 *)

\* The read buffer ends with the last byte received; while a read is under way
\* it is followed by the room for the bytes to come, unless close() emptied the
\* buffer.
ReadInv ==
  /\ ~reading => /\ Len(read_buffer) <= received
                 /\ \A i \in 1 .. Len(read_buffer) :
                      read_buffer[i] = received - Len(read_buffer) + i
  /\ reading => \/ read_buffer = <<>>
                \/ /\ Len(read_buffer) = offset + room /\ offset <= received
                   /\ \A i \in 1 .. offset : read_buffer[i] = received - offset + i

Inv == WriteInv /\ ReadInv

\* What is known of the numbers involved.
LEMMA ReadNumbers ==
  ASSUME TypeOK
  PROVE  /\ received \in Nat /\ received <= MaxBytes /\ room \in Nat /\ offset \in Nat
         /\ Len(read_buffer) \in Nat /\ Len(read_buffer) <= MaxRead
         /\ MaxRead \in Nat /\ MaxBytes \in Nat
         /\ \A i \in 1 .. Len(read_buffer) : read_buffer[i] \in Bytes \cup {Garbage}
BY SizeAssumption, ElementOfSeq DEF TypeOK

\* A function on an initial segment is a sequence of that length.
LEMMA FunctionSeq ==
  ASSUME NEW S, NEW n \in Nat, NEW f \in [1 .. n -> S]
  PROVE  f \in Seq(S) /\ Len(f) = n
OBVIOUS

\* fill.
LEMMA FillStep ==
  ASSUME Inv, NEW n \in 0 .. MaxRead, NEW own \in BOOLEAN, fill(n, own)
  PROVE  Inv'
<1> DEFINE new == [i \in 1 .. n |-> received + i]
<1> DEFINE S == Bytes \cup {Garbage}
<1>1. /\ ~reading /\ ~reading' /\ n \in Nat /\ n <= MaxRead - Len(read_buffer)
      /\ received + n <= MaxBytes /\ read_buffer' = read_buffer \o new /\ received' = received + n
      /\ UNCHANGED <<writeVars, cleared, room, offset, is_open, reading>>
  BY SizeAssumption DEF fill
<1>2. TypeOK /\ read_buffer \in Seq(S)
  BY DEF Inv, WriteInv, TypeOK
<1>3. new \in Seq(S) /\ Len(new) = n
  <2>1. new \in [1 .. n -> S]
    BY <1>1, <1>2, ReadNumbers DEF Bytes
  <2> HIDE DEF new, S
  <2> QED  BY <1>1, <2>1, FunctionSeq
<1>4. \A i \in 1 .. n : new[i] = received + i
  OBVIOUS
<1> HIDE DEF new, S
<1>5. /\ read_buffer' \in Seq(S) /\ Len(read_buffer') = Len(read_buffer) + n
      /\ \A i \in 1 .. Len(read_buffer) + n :
           read_buffer'[i] = IF i <= Len(read_buffer) THEN read_buffer[i]
                             ELSE new[i - Len(read_buffer)]
  BY <1>1, <1>2, <1>3, ConcatProperties
<1>6. TypeOK'
  <2>1. Len(read_buffer') <= MaxRead /\ received' \in 0 .. MaxBytes
    BY <1>1, <1>2, <1>5, ReadNumbers
  <2>2. ec' \in BOOLEAN
    <3>1. ec \in BOOLEAN /\ (n = 0 /\ Len(read_buffer) < MaxRead) \in BOOLEAN
      BY <1>2 DEF TypeOK
    <3>2. ec' = ec \/ ec' = (n = 0 /\ Len(read_buffer) < MaxRead)
      BY DEF fill
    <3> QED  BY <3>1, <3>2
  <2> QED  BY <1>1, <1>2, <1>5, <2>1, <2>2 DEF TypeOK, writeVars, S
<1>7. ReadInv'
  <2>1. /\ Len(read_buffer) <= received
        /\ \A i \in 1 .. Len(read_buffer) : read_buffer[i] = received - Len(read_buffer) + i
    BY <1>1 DEF Inv, ReadInv
  <2>2. /\ received \in Nat /\ Len(read_buffer) \in Nat
    BY <1>2, ReadNumbers
  <2>3. ASSUME NEW i \in 1 .. Len(read_buffer')
        PROVE  read_buffer'[i] = received' - Len(read_buffer') + i
    <3>1. CASE i <= Len(read_buffer)
      BY <1>1, <1>5, <2>1, <2>2, <3>1
    <3>2. CASE ~(i <= Len(read_buffer))
      <4>1. i - Len(read_buffer) \in 1 .. n /\ i \in 1 .. Len(read_buffer) + n
        BY <1>1, <1>5, <2>2, <3>2
      <4>2. read_buffer'[i] = received + (i - Len(read_buffer))
        BY <1>4, <1>5, <3>2, <4>1
      <4> QED  BY <1>1, <1>5, <2>2, <4>1, <4>2
    <3> QED  BY <3>1, <3>2
  <2>4. Len(read_buffer') <= received'
    BY <1>1, <1>5, <2>1, <2>2
  <2> QED  BY <1>1, <2>3, <2>4 DEF ReadInv
<1> QED  BY <1>1, <1>6, <1>7, OtherStep DEF Inv

\* async_fill.
LEMMA AsyncFillStep ==
  ASSUME Inv, NEW n \in 0 .. MaxRead, async_fill(n)
  PROVE  Inv'
<1> DEFINE new == [i \in 1 .. n |-> Garbage]
<1> DEFINE S == Bytes \cup {Garbage}
<1>1. /\ ~reading /\ reading' = TRUE /\ n \in Nat /\ n <= MaxRead - Len(read_buffer)
      /\ read_buffer' = read_buffer \o new /\ room' = n /\ offset' = Len(read_buffer)
      /\ UNCHANGED <<writeVars, cleared, received, ec, is_open>>
  BY SizeAssumption DEF async_fill, grow
<1>2. TypeOK /\ read_buffer \in Seq(S)
  BY DEF Inv, WriteInv, TypeOK
<1>3. new \in Seq(S) /\ Len(new) = n
  <2>1. new \in [1 .. n -> S]
    OBVIOUS
  <2> HIDE DEF new, S
  <2> QED  BY <1>1, <2>1, FunctionSeq
<1> HIDE DEF new, S
<1>4. /\ read_buffer' \in Seq(S) /\ Len(read_buffer') = Len(read_buffer) + n
      /\ \A i \in 1 .. Len(read_buffer) + n :
           read_buffer'[i] = IF i <= Len(read_buffer) THEN read_buffer[i]
                             ELSE new[i - Len(read_buffer)]
  BY <1>1, <1>2, <1>3, ConcatProperties
<1>5. Len(read_buffer') <= MaxRead /\ room' \in 0 .. MaxRead /\ offset' \in 0 .. MaxRead
  BY <1>1, <1>2, <1>4, ReadNumbers
<1>6. TypeOK'
  BY <1>1, <1>2, <1>4, <1>5 DEF TypeOK, writeVars, S
<1>7. ReadInv'
  <2>1. /\ Len(read_buffer) <= received
        /\ \A i \in 1 .. Len(read_buffer) : read_buffer[i] = received - Len(read_buffer) + i
    BY <1>1 DEF Inv, ReadInv
  <2>2. Len(read_buffer) \in Nat
    BY <1>2, ReadNumbers
  <2>3. \A i \in 1 .. Len(read_buffer) : read_buffer'[i] = read_buffer[i]
    BY <1>1, <1>4, <2>2
  <2> QED  BY <1>1, <1>4, <2>1, <2>3 DEF ReadInv
<1> QED  BY <1>1, <1>6, <1>7, OtherStep DEF Inv

\* The first n elements of a sequence.
LEMMA Shrunk ==
  ASSUME NEW S, NEW s \in Seq(S), NEW n \in Nat
  PROVE  /\ shrink(s, n) \in Seq(S)
         /\ Len(shrink(s, n)) = Len(s) - MinOf(Len(s), n)
         /\ \A i \in 1 .. Len(shrink(s, n)) : shrink(s, n)[i] = s[i]
<1> DEFINE m == Len(s) - MinOf(Len(s), n)
<1>1. Len(s) \in Nat
  OBVIOUS
<1>2. m \in Nat /\ m <= Len(s)
  BY <1>1 DEF MinOf
<1> HIDE DEF m
<1>3. Take(s, m) \in Seq(S) /\ Len(Take(s, m)) = m /\ \A i \in 1 .. m : Take(s, m)[i] = s[i]
  BY <1>2, TakeConsume
<1> QED  BY <1>3 DEF shrink, m

\* The read has ended.
LEMMA FillCompleteStep ==
  ASSUME Inv, NEW n \in 0 .. MaxRead, fill_complete(n)
  PROVE  Inv'
<1> DEFINE a == arrived(n)
<1> DEFINE S == Bytes \cup {Garbage}
<1>1. /\ reading /\ reading' = FALSE /\ n \in Nat /\ n <= room /\ received + n <= MaxBytes
      /\ read_buffer' = shrink(a, room - n) /\ received' = received + n
      /\ room' = 0 /\ offset' = 0
      /\ UNCHANGED <<writeVars, cleared, ec, is_open>>
  BY SizeAssumption DEF fill_complete
<1>2. TypeOK
  BY DEF Inv, WriteInv
<1>3. /\ received \in Nat /\ room \in Nat /\ offset \in Nat /\ Len(read_buffer) \in Nat
      /\ MaxRead \in Nat /\ room - n \in Nat
  BY <1>1, <1>2, ReadNumbers
<1>4. /\ a \in Seq(S) /\ Len(a) = Len(read_buffer)
      /\ \A i \in 1 .. Len(read_buffer) :
           a[i] = IF i > offset /\ i <= offset + n THEN received + i - offset ELSE read_buffer[i]
  <2>1. ASSUME NEW i \in 1 .. Len(read_buffer)
        PROVE  (IF i > offset /\ i <= offset + n THEN received + i - offset
                ELSE read_buffer[i]) \in S
    <3>1. CASE i > offset /\ i <= offset + n
      <4>1. received + i - offset \in 1 .. MaxBytes
        BY <1>1, <1>2, <1>3, <3>1, ReadNumbers
      <4> QED  BY <3>1, <4>1 DEF Bytes
    <3>2. CASE ~(i > offset /\ i <= offset + n)
      BY <1>2, <3>2, ReadNumbers
    <3> QED  BY <3>1, <3>2
  <2>2. a \in [1 .. Len(read_buffer) -> S]
    BY <2>1 DEF arrived
  <2>3. \A i \in 1 .. Len(read_buffer) :
           a[i] = IF i > offset /\ i <= offset + n THEN received + i - offset ELSE read_buffer[i]
    BY DEF arrived
  <2> HIDE DEF a, S
  <2> QED  BY <1>3, <2>2, <2>3, FunctionSeq
<1> HIDE DEF a, S
<1>5. /\ read_buffer' \in Seq(S) /\ Len(read_buffer') = Len(a) - MinOf(Len(a), room - n)
      /\ \A i \in 1 .. Len(read_buffer') : read_buffer'[i] = a[i]
  BY <1>1, <1>3, <1>4, Shrunk
<1>6. TypeOK'
  <2>1. Len(read_buffer') <= MaxRead /\ received' \in 0 .. MaxBytes /\ 0 \in 0 .. MaxRead
    <3>1. Len(read_buffer) <= MaxRead /\ MaxBytes \in Nat
      BY <1>2, ReadNumbers
    <3>2. Len(read_buffer') <= Len(read_buffer)
      BY <1>3, <1>4, <1>5 DEF MinOf
    <3>3. Len(read_buffer') \in Nat
      BY <1>5
    <3>4. received' \in 0 .. MaxBytes
      BY <1>1, <1>3, <3>1
    <3> QED  BY <1>3, <3>1, <3>2, <3>3, <3>4
  <2>2. {flush_pending, ec, writing, reading, is_open}' \subseteq BOOLEAN
    BY <1>1, <1>2 DEF writeVars, TypeOK
  <2> QED  BY <1>1, <1>2, <1>5, <2>1, <2>2 DEF TypeOK, writeVars, S
<1>7. ReadInv'
  <2>1. CASE read_buffer = <<>>
    <3>1. Len(read_buffer') = 0
      BY <1>3, <1>4, <1>5, <2>1 DEF MinOf
    <3>2. Len(read_buffer') <= received'
      BY <1>1, <1>3, <3>1
    <3> QED  BY <1>1, <3>1, <3>2 DEF ReadInv
  <2>2. CASE /\ Len(read_buffer) = offset + room /\ offset <= received
             /\ \A i \in 1 .. offset : read_buffer[i] = received - offset + i
    <3>1. Len(read_buffer') = offset + n
      BY <1>1, <1>3, <1>4, <1>5, <2>2 DEF MinOf
    <3>2. ASSUME NEW i \in 1 .. Len(read_buffer')
          PROVE  read_buffer'[i] = received' - Len(read_buffer') + i
      <4>1. i \in 1 .. Len(read_buffer) /\ read_buffer'[i] = a[i]
        BY <1>1, <1>3, <1>5, <2>2, <3>1
      <4>2. CASE i <= offset
        <5>1. a[i] = received - offset + i
          BY <1>3, <1>4, <2>2, <4>1, <4>2
        <5> QED  BY <1>1, <1>3, <3>1, <4>1, <5>1
      <4>3. CASE ~(i <= offset)
        <5>1. a[i] = received + i - offset
          BY <1>3, <1>4, <3>1, <4>1, <4>3
        <5> QED  BY <1>1, <1>3, <3>1, <4>1, <5>1
      <4> QED  BY <4>2, <4>3
    <3>3. Len(read_buffer') <= received'
      BY <1>1, <1>3, <2>2, <3>1
    <3> QED  BY <1>1, <3>2, <3>3 DEF ReadInv
  <2> QED  BY <1>1, <2>1, <2>2 DEF Inv, ReadInv
<1> QED  BY <1>1, <1>6, <1>7, OtherStep DEF Inv

\* The client takes bytes from the front.
LEMMA EraseStep ==
  ASSUME Inv, NEW n \in 1 .. MaxRead, erase(n)
  PROVE  Inv'
<1> DEFINE S == Bytes \cup {Garbage}
<1>1. /\ ~reading /\ n \in Nat /\ n <= Len(read_buffer) /\ read_buffer' = consume(read_buffer, n)
      /\ UNCHANGED <<writeVars, reading, room, offset, received, ec, is_open, cleared>>
  BY SizeAssumption DEF erase
<1>2. TypeOK /\ read_buffer \in Seq(S)
  BY DEF Inv, WriteInv, TypeOK
<1>3. received \in Nat /\ Len(read_buffer) \in Nat /\ Len(read_buffer) <= MaxRead /\ MaxRead \in Nat
  BY <1>2, ReadNumbers
<1> HIDE DEF S
<1>4. MinOf(n, Len(read_buffer)) = n
  BY <1>1, <1>3 DEF MinOf
<1>5. /\ read_buffer' \in Seq(S) /\ Len(read_buffer') = Len(read_buffer) - n
      /\ \A i \in 1 .. Len(read_buffer') : read_buffer'[i] = read_buffer[n + i]
  BY <1>1, <1>2, <1>4, TakeConsume
<1>6. Len(read_buffer') <= MaxRead
  BY <1>1, <1>3, <1>5
<1>7. TypeOK'
  BY <1>1, <1>2, <1>5, <1>6 DEF TypeOK, writeVars, S
<1>8. ReadInv'
  <2>1. /\ Len(read_buffer) <= received
        /\ \A i \in 1 .. Len(read_buffer) : read_buffer[i] = received - Len(read_buffer) + i
    BY <1>1 DEF Inv, ReadInv
  <2>2. ASSUME NEW i \in 1 .. Len(read_buffer')
        PROVE  read_buffer'[i] = received' - Len(read_buffer') + i
    <3>1. n + i \in 1 .. Len(read_buffer)
      BY <1>1, <1>3, <1>5
    <3>2. read_buffer'[i] = received - Len(read_buffer) + (n + i)
      BY <1>5, <2>1, <3>1
    <3> QED  BY <1>1, <1>3, <1>5, <3>2
  <2>3. Len(read_buffer') <= received'
    BY <1>1, <1>3, <1>5, <2>1
  <2> QED  BY <1>1, <2>2, <2>3 DEF ReadInv
<1> QED  BY <1>1, <1>7, <1>8, OtherStep DEF Inv

-----------------------------------------------------------------------------
\* Nothing is buffered at the beginning.
LEMMA InvInit == Init => Inv
<1> SUFFICES ASSUME Init  PROVE Inv
  OBVIOUS
<1>1. <<>> \in Seq(Bytes) /\ <<>> \in Seq(Bytes \cup {Garbage}) /\ Len(<<>>) = 0
  BY EmptySeq
<1>2. TypeOK
  <2>1. {flush_pending, ec, writing, reading, is_open} \subseteq BOOLEAN
    BY DEF Init
  <2>2. 0 \in 0 .. MaxWrite /\ 0 \in 0 .. MaxRead /\ 0 \in 0 .. MaxBytes
    BY SizeAssumption
  <2> QED  BY <1>1, <2>1, <2>2, SizeAssumption DEF Init, TypeOK
<1>3. Unsent = <<>>
  BY ConsumeEmpty DEF Init, Unsent
<1>4. Ordered(<<>>, <<>>, <<>>) /\ AtMost(<<>>, 0)
  BY DEF Ordered, Increasing, Below, AtMost
<1>5. 0 + Len(<<>>) <= MaxWrite /\ 1 .. 0 = {}
  BY SizeAssumption
<1>6. WriteInv
  BY <1>2, <1>3, <1>4, <1>5 DEF Init, WriteInv
<1>7. ReadInv
  BY DEF Init, ReadInv
<1> QED  BY <1>6, <1>7 DEF Inv

\* Steps of the write side leave the read side alone.
LEMMA ReadKept ==
  ASSUME ReadInv, UNCHANGED readVars
  PROVE  ReadInv'
BY DEF ReadInv, readVars

\* Every step preserves the inductive invariant.
LEMMA InvNext == Inv /\ [Next]_vars => Inv'
<1> SUFFICES ASSUME Inv, [Next]_vars  PROVE Inv'
  OBVIOUS
<1>0. WriteInv /\ ReadInv
  BY DEF Inv
<1>1. CASE append
  BY <1>0, <1>1, AppendStep, ReadKept DEF Inv, append
<1>2. CASE flush_refused \/ reopen \/ clear_ec
  <2>1. UNCHANGED <<writeVars, readVars, cleared>>
    BY <1>2 DEF flush_refused, reopen, clear_ec
  <2>2. {flush_pending, ec, writing, reading, is_open}' \subseteq BOOLEAN
    BY <1>0, <1>2, <2>1 DEF WriteInv, TypeOK, flush_refused, reopen, clear_ec, writeVars, readVars
  <2>3. TypeOK'
    BY <1>0, <2>1, <2>2 DEF WriteInv, TypeOK, writeVars, readVars
  <2> QED  BY <1>0, <2>1, <2>3, OtherStep, ReadKept DEF Inv
<1>3. CASE flush_stale
  BY <1>0, <1>3, FlushStaleStep, ReadKept DEF Inv, flush_stale
<1>4. ASSUME NEW n \in 0 .. MaxWrite, NEW own \in BOOLEAN, flush(n, own)  PROVE Inv'
  BY <1>0, <1>4, FlushStep, ReadKept DEF Inv, flush
<1>5. CASE async_flush
  BY <1>0, <1>5, AsyncFlushStep, ReadKept DEF Inv, async_flush
<1>6. ASSUME NEW n \in 1 .. MaxWrite, write_some(n)  PROVE Inv'
  BY <1>0, <1>6, WriteSomeStep, ReadKept DEF Inv, write_some
<1>7. CASE flush_complete
  BY <1>0, <1>7, FlushCompleteStep, ReadKept DEF Inv, flush_complete
<1>8. ASSUME NEW n \in 0 .. MaxRead, NEW own \in BOOLEAN, fill(n, own)  PROVE Inv'
  BY <1>8, FillStep
<1>9. ASSUME NEW n \in 0 .. MaxRead, async_fill(n)  PROVE Inv'
  BY <1>9, AsyncFillStep
<1>10. ASSUME NEW n \in 0 .. MaxRead, fill_complete(n)  PROVE Inv'
  BY <1>10, FillCompleteStep
<1>11. ASSUME NEW n \in 1 .. MaxRead, erase(n)  PROVE Inv'
  BY <1>11, EraseStep
<1>12. CASE close
  <2>1. read_buffer' = <<>> /\ UNCHANGED <<reading, received>> /\ received \in Nat
    BY <1>0, <1>12, ReadNumbers DEF close, WriteInv
  <2>2. ReadInv'
    BY <2>1 DEF ReadInv
  <2> QED  BY <1>0, <1>12, <2>2, CloseStep DEF Inv
<1>13. CASE UNCHANGED vars
  <2>1. UNCHANGED <<writeVars, readVars, cleared>> /\ TypeOK'
    BY <1>0, <1>13 DEF vars, writeVars, readVars, WriteInv, TypeOK
  <2> QED  BY <1>0, <2>1, OtherStep, ReadKept DEF Inv
<1> QED
  BY <1>1, <1>2, <1>3, <1>4, <1>5, <1>6, <1>7, <1>8, <1>9, <1>10, <1>11, <1>12, <1>13 DEF Next

\* The inductive invariant holds for ever.
LEMMA InvInvariant == Spec => []Inv
BY InvInit, InvNext, PTL DEF Spec

\* For buffers of any size: whatever the sequence of partial writes, failed
\* flushes, appends during a flush, close() and reopen, bytes reach the next
\* layer in the order in which they were appended, and none twice.
THEOREM SentInOrderInvariant == Spec => []SentInOrder
<1>1. Inv => SentInOrder
  <2> SUFFICES ASSUME Inv  PROVE SentInOrder
    OBVIOUS
  <2>1. wire \in Seq(Nat) /\ Unsent \in Seq(Nat) /\ write_buffer \in Seq(Nat)
    BY ByteSeqs DEF Inv, WriteInv
  <2>2. Increasing(wire \o Unsent \o write_buffer)
    BY <2>1, OrderedConcat DEF Inv, WriteInv
  <2> QED  BY <2>2 DEF SentInOrder, Increasing
<1> QED  BY <1>1, InvInvariant, PTL

\* For buffers of any size: a byte that was appended is on the wire, in one of
\* the write buffers or was thrown away by close(); a flush that fails half-way
\* loses none.
THEOREM NothingLostInvariant == Spec => []NothingLost
<1>1. Inv => NothingLost
  BY DEF Inv, WriteInv, NothingLost
<1> QED  BY <1>1, InvInvariant, PTL

\* For a read buffer of any size: unless a read is under way it holds a
\* contiguous run of the peer's bytes, also after close() emptied it during a read.
THEOREM ReadInOrderInvariant == Spec => []ReadInOrder
<1>1. Inv => ReadInOrder
  <2> SUFFICES ASSUME Inv, ~reading, NEW i \in 1 .. Len(read_buffer)
               PROVE  /\ read_buffer[i] # Garbage
                      /\ i > 1 => read_buffer[i] = read_buffer[i - 1] + 1
    BY DEF ReadInOrder
  <2>1. /\ Len(read_buffer) <= received /\ Len(read_buffer) \in Nat /\ received \in Nat
        /\ \A j \in 1 .. Len(read_buffer) : read_buffer[j] = received - Len(read_buffer) + j
    BY ReadNumbers DEF Inv, WriteInv, ReadInv
  <2>2. read_buffer[i] # Garbage
    BY <2>1 DEF Garbage
  <2>3. ASSUME i > 1  PROVE read_buffer[i] = read_buffer[i - 1] + 1
    <3>1. i - 1 \in 1 .. Len(read_buffer)
      BY <2>1, <2>3
    <3>2. read_buffer[i - 1] = received - Len(read_buffer) + (i - 1)
      BY <2>1, <3>1
    <3> QED  BY <2>1, <3>2
  <2> QED  BY <2>2, <2>3
<1> QED  BY <1>1, InvInvariant, PTL
=============================================================================
