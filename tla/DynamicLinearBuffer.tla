------------------------ MODULE DynamicLinearBuffer ------------------------
(***************************************************************************)
(* dynamic_linear_buffer (linear_buffer.hpp, impl/linear_buffer.hpp): a    *)
(* view that turns a linear buffer into a DynamicBuffer.  Used as version  *)
(* 1 (prepare, commit) its size_ is the end of the input sequence; until   *)
(* the first prepare(), and used as version 2 (grow, shrink), size_ is the *)
(* largest std::size_t and the size is the one of the linear buffer.  A    *)
(* view is used as one or the other.  While it exists, the buffer changes  *)
(* through the view only, as the constructor's documentation asks for.     *)
(***************************************************************************)
EXTENDS LinearBuffer

CONSTANT NoBuffer    \* there is no view

VARIABLES
  target,      \* the buffer the view refers to, or NoBuffer
  size_, max_size_,
  version,     \* how the view has been used: "any", "v1" or "v2"
  prepared,    \* commit() may be called: nothing happened since prepare()
  input        \* the input sequence, as the documentation has it

viewVars == <<target, size_, max_size_, version, prepared, input>>
allVars == <<vars, viewVars>>

ViewInit ==
  /\ Init
  /\ target = NoBuffer /\ size_ = 0 /\ max_size_ = 0
  /\ version = "any" /\ prepared = FALSE /\ input = <<>>

\* dynamic_linear_buffer::size
view_size ==
  IF size_ # SizeMax THEN size_ ELSE MinOf(size[target], max_size_)

\* dynamic_linear_buffer(b, maximum_size)
view_construct(b, m) ==
  /\ target = NoBuffer /\ b \in alive
  /\ target' = b
  /\ size_' = SizeMax
  /\ max_size_' = MinOf(max_size[b], m)
  /\ version' = "any" /\ prepared' = FALSE
  /\ input' = val[b]
  /\ UNCHANGED vars

view_destroy ==
  /\ target # NoBuffer
  /\ target' = NoBuffer /\ size_' = 0 /\ max_size_' = 0
  /\ version' = "any" /\ prepared' = FALSE /\ input' = <<>>
  /\ UNCHANGED vars

\* prepare(n) and prepare(n, ec): beyond the maximum length_error or no_memory.
prepare(n) ==
  LET siz == IF size_ = SizeMax THEN size[target] ELSE size_
  IN /\ target # NoBuffer /\ version # "v2"
     /\ siz <= max_size_ /\ n <= max_size_ - siz
     /\ size_' = siz
     /\ resize(target, siz + n)
     /\ version' = "v1" /\ prepared' = TRUE
     /\ UNCHANGED <<target, max_size_, input>>

commit(n) ==
  /\ target # NoBuffer /\ prepared
  /\ size_' = size_ + MinOf(n, size[target] - size_)
  /\ resize(target, size_')
  /\ input' = input \o SubSeq(val[target], size_ + 1, size_')
  /\ prepared' = FALSE
  /\ UNCHANGED <<target, max_size_, version>>

grow(n) ==
  /\ target # NoBuffer /\ version # "v1"
  /\ view_size <= max_size_ /\ n <= max_size_ - view_size
  /\ resize(target, view_size + n)
  /\ version' = "v2"
  /\ input' = Take(input, view_size) \o Const(n, Unspecified)
  /\ UNCHANGED <<target, size_, max_size_, prepared>>

shrink(n) ==
  /\ target # NoBuffer /\ version # "v1"
  /\ resize(target, view_size - MinOf(view_size, n))
  /\ version' = "v2"
  /\ input' = Take(input, view_size - MinOf(view_size, n))
  /\ UNCHANGED <<target, size_, max_size_, prepared>>

\* Mutant of consumed: it is left alone.
consumed_nothing(n) == size_

\* size_ after n bytes of the input sequence have been consumed.
consumed(n) == IF size_ # SizeMax THEN size_ - MinOf(n, size_) ELSE size_

consume(n) ==
  /\ target # NoBuffer
  /\ erase(target, 0, MinOf(view_size, n))
  /\ size_' = consumed(n)
  /\ input' = Drop(input, MinOf(view_size, n))
  /\ prepared' = FALSE
  /\ UNCHANGED <<target, max_size_, version>>

\* A byte is written to the memory that prepare() or grow() returned, or to the
\* input sequence.
fill(i, c) ==
  /\ target # NoBuffer
  /\ store(target, i, c)
  /\ input' = IF i <= Len(input) THEN [input EXCEPT ![i] = c] ELSE input
  /\ UNCHANGED <<target, size_, max_size_, version, prepared>>

ViewNext ==
  \/ /\ \E b \in Buffers \ {target} : Lifetime(b) \/ Change(b)
     /\ target # NoBuffer => data'[target] = data[target]
     /\ UNCHANGED viewVars
  \/ \E b \in Buffers, m \in Sizes : view_construct(b, m)
  \/ view_destroy
  \/ \E n \in Sizes : prepare(n) \/ commit(n) \/ grow(n) \/ shrink(n) \/ consume(n)
  \/ \E i \in Sizes, c \in Bytes : fill(i, c)

ViewSpec == ViewInit /\ [][ViewNext]_allVars

-----------------------------------------------------------------------------
\* The input sequence is what was there, committed or grown, without what was
\* consumed or shrunk away: size() is its size, as far as the limit of the view
\* lets it be seen, and its bytes are the first ones of the buffer.
InputKept ==
  target # NoBuffer =>
    /\ view_size = MinOf(Len(input), max_size_)
    /\ Len(input) <= size[target]
    /\ \A i \in 1 .. Len(input) : input[i] \in {Unspecified, Mem(target)[i]}

=============================================================================
