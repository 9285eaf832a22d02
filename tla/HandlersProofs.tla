--------------------------- MODULE HandlersProofs ---------------------------
(***************************************************************************)
(* For any number of operations, unique_handlers, memory blocks and        *)
(* executors: handlers are in one place, storage has one owner, and work   *)
(* is held until the handler is invoked.                                   *)
(***************************************************************************)
EXTENDS Handlers, FiniteSetTheorems, SequenceTheorems, TLAPS

\* Whoever is on the stack is running or handling, once.
OnStack ==
  /\ \A i \in 1 .. Len(stack) :
       place[stack[i].op] = IF stack[i].kind = "impl" THEN "running" ELSE "handling"
  /\ \A i, j \in 1 .. Len(stack) : stack[i].op = stack[j].op => i = j
  /\ \A o \in Ops : place[o] \in {"running", "handling"} =>
       \E i \in 1 .. Len(stack) : stack[i].op = o

\* Whoever waits for an executor is posted or bound, once.
InQueue ==
  /\ \A p \in posted : place[p.op] = IF p.kind = "impl" THEN "posted" ELSE "bound"
  /\ \A p, q \in posted : p.op = q.op => p = q
  /\ \A o \in Ops : place[o] \in {"posted", "bound"} => \E p \in posted : p.op = o

\* Whoever is in memory is stored, once.
InHeap ==
  /\ \A b \in Blocks : heap[b] # Null => place[heap[b]] = "stored"
  /\ \A b, c \in Blocks : heap[b] = heap[c] /\ heap[b] # Null => b = c
  /\ \A o \in Ops : place[o] = "stored" => \E b \in Blocks : heap[b] = o

\* Memory in use is pointed to by one object, and pointers are to memory in use.
Pointed ==
  /\ \A s \in Slots \ broken : storage[s] \in Blocks => heap[storage[s]] # Null
  /\ \A s, t \in Slots \ broken : storage[s] = storage[t] /\ storage[s] \in Blocks => s = t
  /\ \A b \in Blocks : heap[b] # Null => \E s \in Slots \ broken : storage[s] = b
  /\ \A s \in broken : storage[s] \in Blocks

\* A handler has been invoked exactly if its operation is past that point.
HandledOnce ==
  \A o \in Ops : handled[o] = IF place[o] \in {"handling", "completed"} THEN 1 ELSE 0

\* The inductive invariant.
Inv == TypeOK /\ OnStack /\ InQueue /\ InHeap /\ Pointed /\ HandledOnce /\ GuardsMatchOps

\* Taking the last element off a sequence.
LEMMA LastOff ==
  ASSUME NEW S, NEW q \in Seq(S), q # <<>>
  PROVE  /\ Len(q) \in Nat \ {0} /\ q[Len(q)] \in S
         /\ SubSeq(q, 1, Len(q) - 1) \in Seq(S)
         /\ Len(SubSeq(q, 1, Len(q) - 1)) = Len(q) - 1
         /\ \A i \in 1 .. Len(q) - 1 : SubSeq(q, 1, Len(q) - 1)[i] = q[i]
<1>1. Len(q) \in Nat \ {0}
  BY EmptySeq
<1>2. q[Len(q)] \in S
  BY <1>1
<1>3. SubSeq(q, 1, Len(q) - 1) \in Seq(S)
  BY <1>1
<1>4. Len(SubSeq(q, 1, Len(q) - 1)) = Len(q) - 1
  BY <1>1, SubSeqProperties
<1>5. \A i \in 1 .. Len(q) - 1 : SubSeq(q, 1, Len(q) - 1)[i] = q[i]
  BY <1>1, SubSeqProperties
<1> QED  BY <1>1, <1>2, <1>3, <1>4, <1>5

\* Putting an element on a sequence.
LEMMA PutOn ==
  ASSUME NEW S, NEW q \in Seq(S), NEW x \in S
  PROVE  /\ Append(q, x) \in Seq(S) /\ Len(Append(q, x)) = Len(q) + 1
         /\ Append(q, x)[Len(q) + 1] = x
         /\ \A i \in 1 .. Len(q) : Append(q, x)[i] = q[i]
OBVIOUS

Frames == [kind : {"impl", "direct", "bound"}, op : Ops]
Active == {"running", "handling"}

\* Nobody but o starts or stops being on the stack.
OthersStay(o) ==
  \A p \in Ops \ {o} : place'[p] = place[p] \/ (place[p] \notin Active /\ place'[p] \notin Active)

\* The stack is a sequence of frames.
LEMMA StackFrames ==
  ASSUME TypeOK
  PROVE  stack \in Seq(Frames) /\ \A i \in 1 .. Len(stack) : stack[i].op \in Ops
<1>1. stack \in Seq(Frames)
  BY DEF TypeOK, Frames
<1>2. \A i \in 1 .. Len(stack) : stack[i] \in Frames
  BY <1>1, ElementOfSeq
<1> QED  BY <1>1, <1>2 DEF Frames

\* The same of everybody.
AllStay ==
  \A p \in Ops : place'[p] = place[p] \/ (place[p] \notin Active /\ place'[p] \notin Active)

\* A call returns, and its operation goes elsewhere.
LEMMA StackPop ==
  ASSUME TypeOK, OnStack, NEW o \in Ops, stack # <<>>, stack[Len(stack)].op = o,
         stack' = Below, place'[o] \notin Active, OthersStay(o)
  PROVE  OnStack' /\ stack' \in Seq(Frames)
<1>1. /\ stack \in Seq(Frames)
      /\ \A i \in 1 .. Len(stack) : stack[i].op \in Ops
  BY StackFrames
<1>2. /\ Len(stack) \in Nat \ {0} /\ stack' \in Seq(Frames)
      /\ Len(stack') = Len(stack) - 1
      /\ \A i \in 1 .. Len(stack) - 1 : stack'[i] = stack[i]
  BY <1>1, LastOff DEF Below
<1>3. \A i \in 1 .. Len(stack') : /\ stack'[i] = stack[i] /\ i \in 1 .. Len(stack)
                                  /\ stack[i].op \in Ops \ {o}
  BY <1>1, <1>2 DEF OnStack, Frames
<1>4. \A i \in 1 .. Len(stack') : place[stack[i].op] \in Active
  BY <1>3 DEF OnStack, Active
<1>5. \A i \in 1 .. Len(stack') :
        place'[stack'[i].op] = IF stack'[i].kind = "impl" THEN "running" ELSE "handling"
  BY <1>3, <1>4 DEF OnStack, OthersStay
<1>6. \A i, j \in 1 .. Len(stack') : stack'[i].op = stack'[j].op => i = j
  BY <1>3 DEF OnStack
<1>7. \A p \in Ops : place'[p] \in Active => \E i \in 1 .. Len(stack') : stack'[i].op = p
  <2> SUFFICES ASSUME NEW p \in Ops, place'[p] \in Active
               PROVE  \E i \in 1 .. Len(stack') : stack'[i].op = p
    OBVIOUS
  <2>1. p # o /\ place[p] \in Active
    BY DEF OthersStay
  <2>2. PICK i \in 1 .. Len(stack) : stack[i].op = p
    BY <2>1 DEF OnStack, Active
  <2>3. i # Len(stack)
    BY <2>1, <2>2
  <2> QED  BY <2>2, <2>3, <1>2
<1> QED  BY <1>2, <1>5, <1>6, <1>7 DEF OnStack, Active

\* A call is made for an operation that was elsewhere.
LEMMA StackPush ==
  ASSUME TypeOK, OnStack, NEW o \in Ops, NEW kind \in {"impl", "direct", "bound"},
         place[o] \notin Active, stack' = Append(stack, Frame(kind, o)),
         place'[o] = (IF kind = "impl" THEN "running" ELSE "handling"), OthersStay(o)
  PROVE  OnStack' /\ stack' \in Seq(Frames)
<1>1. /\ stack \in Seq(Frames) /\ Frame(kind, o) \in Frames
      /\ \A i \in 1 .. Len(stack) : stack[i].op \in Ops
  BY StackFrames DEF Frames, Frame
<1>2. /\ stack' \in Seq(Frames) /\ Len(stack') = Len(stack) + 1 /\ Len(stack) \in Nat
      /\ stack'[Len(stack) + 1] = Frame(kind, o)
      /\ \A i \in 1 .. Len(stack) : stack'[i] = stack[i]
  BY <1>1, PutOn
<1>3. \A i \in 1 .. Len(stack) : /\ place[stack[i].op] \in Active
                                 /\ stack[i].op \in Ops \ {o}
  BY <1>1 DEF OnStack, Frames, Active
<1>4. \A i \in 1 .. Len(stack') :
        place'[stack'[i].op] = IF stack'[i].kind = "impl" THEN "running" ELSE "handling"
  <2> SUFFICES ASSUME NEW i \in 1 .. Len(stack')
               PROVE  place'[stack'[i].op]
                        = IF stack'[i].kind = "impl" THEN "running" ELSE "handling"
    OBVIOUS
  <2>1. CASE i = Len(stack) + 1
    BY <2>1, <1>2 DEF Frame
  <2>2. CASE i \in 1 .. Len(stack)
    BY <2>2, <1>2, <1>3 DEF OnStack, OthersStay
  <2> QED  BY <2>1, <2>2, <1>2
<1>5. \A i, j \in 1 .. Len(stack') : stack'[i].op = stack'[j].op => i = j
  BY <1>2, <1>3 DEF OnStack, Frame
<1>6. \A p \in Ops : place'[p] \in Active => \E i \in 1 .. Len(stack') : stack'[i].op = p
  <2> SUFFICES ASSUME NEW p \in Ops, place'[p] \in Active
               PROVE  \E i \in 1 .. Len(stack') : stack'[i].op = p
    OBVIOUS
  <2>1. CASE p = o
    BY <2>1, <1>2 DEF Frame
  <2>2. CASE p # o
    <3>1. PICK i \in 1 .. Len(stack) : stack[i].op = p
      BY <2>2 DEF OnStack, Active, OthersStay
    <3> QED  BY <3>1, <1>2
  <2> QED  BY <2>1, <2>2
<1> QED  BY <1>2, <1>4, <1>5, <1>6 DEF OnStack, Active

\* The operation at the top goes on from its implementation to its handler.
LEMMA StackSwap ==
  ASSUME TypeOK, OnStack, NEW o \in Ops, stack # <<>>, stack[Len(stack)].op = o,
         stack' = Append(Below, Frame("direct", o)), place'[o] = "handling", OthersStay(o)
  PROVE  OnStack' /\ stack' \in Seq(Frames)
<1>1. /\ stack \in Seq(Frames) /\ Frame("direct", o) \in Frames
      /\ \A i \in 1 .. Len(stack) : stack[i].op \in Ops
  BY StackFrames DEF Frames, Frame
<1>2. /\ Len(stack) \in Nat \ {0} /\ Below \in Seq(Frames) /\ Len(Below) = Len(stack) - 1
      /\ \A i \in 1 .. Len(stack) - 1 : Below[i] = stack[i]
  BY <1>1, LastOff DEF Below
<1>3. /\ stack' \in Seq(Frames) /\ Len(stack') = Len(stack)
      /\ stack'[Len(stack)] = Frame("direct", o)
      /\ \A i \in 1 .. Len(stack) - 1 : stack'[i] = stack[i]
  BY <1>1, <1>2, PutOn
<1>4. \A i \in 1 .. Len(stack) : stack'[i].op = stack[i].op
  BY <1>2, <1>3 DEF Frame
<1>5. \A i \in 1 .. Len(stack) - 1 : stack[i].op # o /\ place[stack[i].op] \in Active
  BY <1>2 DEF OnStack, Active
<1>6. \A i \in 1 .. Len(stack') :
        place'[stack'[i].op] = IF stack'[i].kind = "impl" THEN "running" ELSE "handling"
  <2> SUFFICES ASSUME NEW i \in 1 .. Len(stack')
               PROVE  place'[stack'[i].op]
                        = IF stack'[i].kind = "impl" THEN "running" ELSE "handling"
    OBVIOUS
  <2>1. CASE i = Len(stack)
    BY <2>1, <1>3 DEF Frame
  <2>2. CASE i \in 1 .. Len(stack) - 1
    BY <2>2, <1>1, <1>2, <1>3, <1>5 DEF OnStack, OthersStay
  <2> QED  BY <2>1, <2>2, <1>2, <1>3
<1>7. \A i, j \in 1 .. Len(stack') : stack'[i].op = stack'[j].op => i = j
  BY <1>3, <1>4 DEF OnStack
<1>8. \A p \in Ops : place'[p] \in Active => \E i \in 1 .. Len(stack') : stack'[i].op = p
  <2> SUFFICES ASSUME NEW p \in Ops, place'[p] \in Active
               PROVE  \E i \in 1 .. Len(stack') : stack'[i].op = p
    OBVIOUS
  <2>1. CASE p = o
    BY <2>1, <1>2, <1>3 DEF Frame
  <2>2. CASE p # o
    <3>1. PICK i \in 1 .. Len(stack) : stack[i].op = p
      BY <2>2 DEF OnStack, Active, OthersStay
    <3> QED  BY <3>1, <1>3, <1>4
  <2> QED  BY <2>1, <2>2
<1> QED  BY <1>3, <1>6, <1>7, <1>8 DEF OnStack, Active

\* No call is made or returns.
LEMMA StackSame ==
  ASSUME TypeOK, OnStack, stack' = stack, AllStay
  PROVE  OnStack' /\ stack' \in Seq(Frames)
<1>1. /\ stack \in Seq(Frames)
      /\ \A i \in 1 .. Len(stack) : stack[i].op \in Ops
  BY StackFrames
<1>2. \A i \in 1 .. Len(stack) : stack[i].op \in Ops /\ place[stack[i].op] \in Active
  BY <1>1 DEF OnStack, Active, Frames
<1> QED  BY <1>1, <1>2 DEF OnStack, Active, AllStay

-----------------------------------------------------------------------------
(* composed_operation                                                      *)

\* The running operation is at the top of the stack.
LEMMA AtTop ==
  ASSUME Inv, NEW o \in Ops, NEW kind \in {"impl", "direct", "bound"}, stack # <<>>,
         stack[Len(stack)] = Frame(kind, o)
  PROVE  /\ stack[Len(stack)].op = o
         /\ place[o] = IF kind = "impl" THEN "running" ELSE "handling"
<1>1. Len(stack) \in 1 .. Len(stack)
  BY StackFrames, EmptySeq DEF Inv
<1> QED  BY <1>1 DEF Inv, OnStack, Frame

\* async_compose preserves the invariant.
LEMMA AsyncComposeStep ==
  ASSUME Inv, NEW o \in Ops, NEW es \in SUBSET Executors, async_compose(o, es)
  PROVE  Inv'
<1> USE DEF async_compose, Invoke, slotVars
<1>1. place[o] = "unborn" /\ place' = [place EXCEPT ![o] = "running"]
  OBVIOUS
<1>2. OnStack' /\ stack' \in Seq(Frames)
  BY <1>1, StackPush, "impl" \in {"impl", "direct", "bound"} DEF Inv, TypeOK, OthersStay, Active
<1>3. TypeOK'
  BY <1>2 DEF Inv, TypeOK, Frames, Counted
<1>4. InQueue'
  BY <1>1 DEF Inv, TypeOK, InQueue
<1>5. InHeap'
  BY <1>1 DEF Inv, TypeOK, InHeap
<1>6. Pointed'
  BY DEF Inv, Pointed
<1>7. HandledOnce' /\ GuardsMatchOps'
  BY <1>1 DEF Inv, TypeOK, HandledOnce, GuardsMatchOps
<1> QED  BY <1>2, <1>3, <1>4, <1>5, <1>6, <1>7 DEF Inv

\* Handing an operation to an executor preserves it.
LEMMA PostStep ==
  ASSUME Inv, NEW o \in Ops, NEW e \in Executors, post(o, e)
  PROVE  Inv'
<1> USE DEF post, slotVars, opVars
<1>1. /\ stack # <<>> /\ stack[Len(stack)].op = o /\ place[o] = "running"
      /\ place' = [place EXCEPT ![o] = "posted"]
  BY AtTop DEF Running
<1>2. OnStack' /\ stack' \in Seq(Frames)
  BY <1>1, StackPop DEF Inv, TypeOK, OthersStay, Active
<1>3. TypeOK'
  BY <1>2 DEF Inv, TypeOK, Frames
<1>4. InQueue'
  <2> DEFINE p == [op |-> o, on |-> e, kind |-> "impl"]
  <2>1. posted' = posted \cup {p} /\ p.op = o /\ p.kind = "impl"
    OBVIOUS
  <2>2. \A q \in posted : q.op \in Ops \ {o}
    BY <1>1 DEF Inv, TypeOK, InQueue
  <2> HIDE DEF p
  <2>3. /\ \A q \in posted' : place'[q.op] = IF q.kind = "impl" THEN "posted" ELSE "bound"
        /\ \A q, r \in posted' : q.op = r.op => q = r
    BY <1>1, <2>1, <2>2 DEF Inv, TypeOK, InQueue
  <2>4. \A u \in Ops : place'[u] \in {"posted", "bound"} => \E q \in posted' : q.op = u
    BY <1>1, <2>1 DEF Inv, TypeOK, InQueue
  <2> QED  BY <2>3, <2>4 DEF InQueue
<1>5. InHeap'
  BY <1>1 DEF Inv, TypeOK, InHeap
<1>6. Pointed'
  BY DEF Inv, Pointed
<1>7. HandledOnce' /\ GuardsMatchOps'
  BY <1>1 DEF Inv, TypeOK, HandledOnce, GuardsMatchOps
<1> QED  BY <1>2, <1>3, <1>4, <1>5, <1>6, <1>7 DEF Inv

\* complete_to_bound_handler preserves it.
LEMMA BoundStep ==
  ASSUME Inv, NEW o \in Ops, NEW e \in Executors, complete_to_bound_handler(o, e)
  PROVE  Inv'
<1> USE DEF complete_to_bound_handler, slotVars, opVars
<1>1. /\ stack # <<>> /\ stack[Len(stack)].op = o /\ place[o] = "running"
      /\ place' = [place EXCEPT ![o] = "bound"]
  BY AtTop DEF Running
<1>2. OnStack' /\ stack' \in Seq(Frames)
  BY <1>1, StackPop DEF Inv, TypeOK, OthersStay, Active
<1>3. TypeOK'
  BY <1>2 DEF Inv, TypeOK, Frames
<1>4. InQueue'
  <2> DEFINE p == [op |-> o, on |-> e, kind |-> "bound"]
  <2>1. posted' = posted \cup {p} /\ p.op = o /\ p.kind = "bound"
    OBVIOUS
  <2>2. \A q \in posted : q.op \in Ops \ {o}
    BY <1>1 DEF Inv, TypeOK, InQueue
  <2> HIDE DEF p
  <2>3. /\ \A q \in posted' : place'[q.op] = IF q.kind = "impl" THEN "posted" ELSE "bound"
        /\ \A q, r \in posted' : q.op = r.op => q = r
    BY <1>1, <2>1, <2>2 DEF Inv, TypeOK, InQueue
  <2>4. \A u \in Ops : place'[u] \in {"posted", "bound"} => \E q \in posted' : q.op = u
    BY <1>1, <2>1 DEF Inv, TypeOK, InQueue
  <2> QED  BY <2>3, <2>4 DEF InQueue
<1>5. InHeap'
  BY <1>1 DEF Inv, TypeOK, InHeap
<1>6. Pointed'
  BY DEF Inv, Pointed
<1>7. HandledOnce' /\ GuardsMatchOps'
  BY <1>1 DEF Inv, TypeOK, HandledOnce, GuardsMatchOps
<1> QED  BY <1>2, <1>3, <1>4, <1>5, <1>6, <1>7 DEF Inv

\* The destruction of a running operation preserves it.
LEMMA AbandonStep ==
  ASSUME Inv, NEW o \in Ops, abandon(o)
  PROVE  Inv'
<1> USE DEF abandon, slotVars, Released
<1>1. /\ stack # <<>> /\ stack[Len(stack)].op = o /\ place[o] = "running"
      /\ place' = [place EXCEPT ![o] = "destroyed"]
  BY AtTop DEF Running
<1>2. OnStack' /\ stack' \in Seq(Frames)
  BY <1>1, StackPop DEF Inv, TypeOK, OthersStay, Active
<1>3. TypeOK'
  BY <1>2 DEF Inv, TypeOK, Frames
<1>4. InQueue'
  BY <1>1 DEF Inv, TypeOK, InQueue
<1>5. InHeap'
  BY <1>1 DEF Inv, TypeOK, InHeap
<1>6. Pointed'
  BY DEF Inv, Pointed
<1>7. HandledOnce' /\ GuardsMatchOps'
  BY <1>1 DEF Inv, TypeOK, HandledOnce, GuardsMatchOps
<1> QED  BY <1>2, <1>3, <1>4, <1>5, <1>6, <1>7 DEF Inv

\* The return of a handler preserves it.
LEMMA ReturnsStep ==
  ASSUME Inv, NEW o \in Ops, returns(o)
  PROVE  Inv'
<1> USE DEF returns, slotVars, Released
<1>1. /\ stack # <<>> /\ stack[Len(stack)].op = o /\ place[o] = "handling"
      /\ place' = [place EXCEPT ![o] = "completed"]
  BY AtTop
<1>2. OnStack' /\ stack' \in Seq(Frames)
  BY <1>1, StackPop DEF Inv, TypeOK, OthersStay, Active
<1>3. TypeOK'
  BY <1>2 DEF Inv, TypeOK, Frames
<1>4. InQueue'
  BY <1>1 DEF Inv, TypeOK, InQueue
<1>5. InHeap'
  BY <1>1 DEF Inv, TypeOK, InHeap
<1>6. Pointed'
  BY DEF Inv, Pointed
<1>7. HandledOnce' /\ GuardsMatchOps'
  BY <1>1 DEF Inv, TypeOK, HandledOnce, GuardsMatchOps
<1> QED  BY <1>2, <1>3, <1>4, <1>5, <1>6, <1>7 DEF Inv

\* composed_operation::complete preserves it.
LEMMA CompleteStep ==
  ASSUME Inv, NEW o \in Ops, complete(o)
  PROVE  Inv'
<1> USE DEF complete, slotVars
<1>1. /\ stack # <<>> /\ stack[Len(stack)].op = o /\ place[o] = "running"
      /\ place' = [place EXCEPT ![o] = "handling"]
  BY AtTop DEF Running
<1>2. OnStack' /\ stack' \in Seq(Frames)
  BY <1>1, StackSwap DEF Inv, TypeOK, OthersStay, Active
<1>3. handled[o] = 0 /\ handled' = [handled EXCEPT ![o] = 1]
  <2>1. handled[o] = 0
    BY <1>1 DEF Inv, HandledOnce
  <2> QED  BY <2>1
<1>4. TypeOK'
  BY <1>2, <1>3 DEF Inv, TypeOK, Frames
<1>5. InQueue'
  BY <1>1 DEF Inv, TypeOK, InQueue
<1>6. InHeap'
  BY <1>1 DEF Inv, TypeOK, InHeap
<1>7. Pointed'
  BY DEF Inv, Pointed
<1>8. HandledOnce' /\ GuardsMatchOps'
  BY <1>1, <1>3 DEF Inv, TypeOK, HandledOnce, GuardsMatchOps
<1> QED  BY <1>2, <1>4, <1>5, <1>6, <1>7, <1>8 DEF Inv

\* The invocation of a posted function object preserves it.
LEMMA RunStep ==
  ASSUME Inv, NEW p \in posted, run(p)
  PROVE  Inv'
<1> USE DEF run, slotVars
<1> DEFINE o == p.op
<1>1. /\ o \in Ops /\ p.kind \in {"impl", "bound"} /\ posted' = posted \ {p}
      /\ place[o] = IF p.kind = "impl" THEN "posted" ELSE "bound"
  BY DEF Inv, TypeOK, InQueue
<1>2. /\ place' = [place EXCEPT ![o] = IF p.kind = "impl" THEN "running" ELSE "handling"]
      /\ stack' = Append(stack, Frame(p.kind, o))
  BY <1>1 DEF Invoke
<1> HIDE DEF o
<1>3. OnStack' /\ stack' \in Seq(Frames)
  BY <1>1, <1>2, StackPush DEF Inv, TypeOK, OthersStay, Active
<1>4. /\ UNCHANGED <<storage, broken, heap, given>>
      /\ p.kind = "impl" => state_' = Counted(o) /\ UNCHANGED <<work, handled>>
      /\ p.kind # "impl" => /\ handled' = [handled EXCEPT ![o] = @ + 1]
                            /\ work' = Released(o) /\ UNCHANGED state_
  BY DEF o, Invoke
<1>5. handled[o] = 0
  BY <1>1 DEF Inv, HandledOnce
<1>6. TypeOK'
  BY <1>1, <1>2, <1>3, <1>4, <1>5 DEF Inv, TypeOK, Frames, Counted, Released
<1>7. InQueue'
  <2>1. \A q \in posted' : q \in posted /\ q.op \in Ops \ {o}
    BY <1>1 DEF Inv, TypeOK, InQueue, o
  <2>2. \A u \in Ops : place'[u] \in {"posted", "bound"} => \E q \in posted' : q.op = u
    BY <1>1, <1>2 DEF Inv, TypeOK, InQueue, o
  <2> QED  BY <1>2, <2>1, <2>2 DEF Inv, TypeOK, InQueue
<1>8. InHeap'
  BY <1>1, <1>2, <1>4 DEF Inv, TypeOK, InHeap
<1>9. Pointed'
  BY <1>4 DEF Inv, Pointed
<1>10. HandledOnce' /\ GuardsMatchOps'
  BY <1>1, <1>2, <1>4, <1>5 DEF Inv, TypeOK, HandledOnce, GuardsMatchOps, Released
<1> QED  BY <1>3, <1>6, <1>7, <1>8, <1>9, <1>10 DEF Inv

-----------------------------------------------------------------------------
(* unique_handler                                                          *)

\* The operation that an object in order holds.
LEMMA HeldFacts ==
  ASSUME Inv, NEW s \in Slots, Usable(s)
  PROVE  /\ s \in Slots \ broken /\ storage[s] \in Blocks \cup {Null}
         /\ storage[s] \in Blocks => /\ Held(s) = heap[storage[s]] /\ Held(s) \in Ops
                                     /\ place[Held(s)] = "stored"
         /\ Held(s) # Null <=> storage[s] \in Blocks
BY PointersAssumption DEF Inv, TypeOK, Usable, Held, InHeap, Pointed

\* What becomes of the operations when the one that s holds is aborted.
LEMMA AbortFacts ==
  ASSUME Inv, NEW s \in Slots, Usable(s), heap' = Aborted(s), AbortOp(s),
         UNCHANGED <<state_, given, handled, posted, stack>>
  PROVE  /\ OnStack' /\ InQueue' /\ InHeap' /\ HandledOnce' /\ GuardsMatchOps'
         /\ heap' \in [Blocks -> Ops \cup {Null}] /\ work' \in [Ops -> SUBSET Executors]
         /\ place' \in [Ops -> {"unborn", "running", "posted", "bound", "stored",
                                 "handling", "completed", "destroyed"}]
         /\ stack' \in Seq(Frames)
<1>1. CASE storage[s] \notin Blocks
  <2>1. UNCHANGED <<heap, place, work>>
    BY <1>1, HeldFacts DEF Aborted, AbortOp
  <2> QED  BY <2>1, StackFrames
             DEF Inv, TypeOK, OnStack, InQueue, InHeap, HandledOnce, GuardsMatchOps
<1>2. CASE storage[s] \in Blocks
  <2> DEFINE h == Held(s)
  <2>1. /\ heap[storage[s]] = h /\ h \in Ops /\ place[h] = "stored"
        /\ heap' = [heap EXCEPT ![storage[s]] = Null]
        /\ place' = [place EXCEPT ![h] = "destroyed"]
        /\ work' = [work EXCEPT ![h] = {}]
    BY <1>2, HeldFacts DEF Aborted, AbortOp, Released
  <2> HIDE DEF h
  <2>2. OnStack' /\ stack' \in Seq(Frames)
    <3>1. AllStay
      BY <2>1 DEF Inv, TypeOK, Active, AllStay
    <3>2. TypeOK /\ OnStack /\ stack' = stack
      BY DEF Inv
    <3> QED  BY <3>1, <3>2, StackSame
  <2>3. InQueue'
    BY <2>1 DEF Inv, TypeOK, InQueue
  <2>4. InHeap'
    <3>1. \A b \in Blocks : heap'[b] # Null =>
            b # storage[s] /\ heap'[b] = heap[b] /\ heap[b] \in Ops \ {h}
      BY <1>2, <2>1, PointersAssumption DEF Inv, TypeOK, InHeap
    <3>2. \A b \in Blocks : b # storage[s] => heap'[b] = heap[b]
      BY <2>1 DEF Inv, TypeOK
    <3>3. \A u \in Ops : place'[u] = "stored" => u # h /\ place[u] = "stored"
      BY <2>1 DEF Inv, TypeOK
    <3>4. \A u \in Ops \ {h} : place'[u] = place[u]
      BY <2>1 DEF Inv, TypeOK
    <3>5. \A u \in Ops : place'[u] = "stored" => \E b \in Blocks : heap'[b] = u
      BY <1>2, <2>1, <3>2, <3>3 DEF Inv, InHeap
    <3> QED  BY <3>1, <3>4, <3>5 DEF Inv, InHeap
  <2>5. HandledOnce' /\ GuardsMatchOps'
    BY <2>1 DEF Inv, TypeOK, HandledOnce, GuardsMatchOps
  <2> QED  BY <2>1, <2>2, <2>3, <2>4, <2>5 DEF Inv, TypeOK
<1> QED  BY <1>1, <1>2

\* unique_handler() preserves it.
LEMMA ConstructStep ==
  ASSUME Inv, NEW s \in Slots, unique_handler(s)
  PROVE  Inv'
<1> USE DEF unique_handler, opVars
<1>1. storage[s] \notin Blocks /\ storage'[s] \notin Blocks
  BY PointersAssumption DEF Inv, TypeOK
<1>2. TypeOK'
  BY DEF Inv, TypeOK
<1>3. OnStack' /\ InQueue' /\ InHeap' /\ HandledOnce' /\ GuardsMatchOps'
  BY DEF Inv, OnStack, InQueue, InHeap, HandledOnce, GuardsMatchOps
<1>4. Pointed'
  BY <1>1 DEF Inv, TypeOK, Pointed
<1> QED  BY <1>2, <1>3, <1>4 DEF Inv

\* ~unique_handler() preserves it.
LEMMA DestroyStep ==
  ASSUME Inv, NEW s \in Slots, destroy(s)
  PROVE  Inv'
<1> USE DEF destroy
<1>1. /\ OnStack' /\ InQueue' /\ InHeap' /\ HandledOnce' /\ GuardsMatchOps' /\ TypeOK'
  BY AbortFacts DEF Inv, TypeOK, Frames
<1>2. Pointed'
  BY HeldFacts, PointersAssumption DEF Inv, TypeOK, Pointed, Aborted
<1> QED  BY <1>1, <1>2 DEF Inv

\* unique_handler::reset preserves it.
LEMMA ResetStep ==
  ASSUME Inv, NEW s \in Slots, reset(s)
  PROVE  Inv'
<1> USE DEF reset, Emptied
<1>1. /\ OnStack' /\ InQueue' /\ InHeap' /\ HandledOnce' /\ GuardsMatchOps' /\ TypeOK'
  BY AbortFacts DEF Inv, TypeOK, Frames
<1>2. Pointed'
  BY HeldFacts, PointersAssumption DEF Inv, TypeOK, Pointed, Aborted
<1> QED  BY <1>1, <1>2 DEF Inv

\* What the pointers are after a move.
LEMMA MovedFacts ==
  ASSUME Inv, NEW s \in Slots, NEW t \in Slots, storage' = Moved(s, t)
  PROVE  /\ storage' \in [Slots -> Blocks \cup {Null, Dead}]
         /\ storage'[t] = Null /\ (s # t => storage'[s] = storage[t])
         /\ \A u \in Slots \ {s, t} : storage'[u] = storage[u]
<1> DEFINE first == [storage EXCEPT ![s] = storage[t]]
<1>1. /\ first \in [Slots -> Blocks \cup {Null, Dead}] /\ first[s] = storage[t]
      /\ \A u \in Slots \ {s} : first[u] = storage[u]
  BY DEF Inv, TypeOK
<1>2. storage' = [first EXCEPT ![t] = Null]
  BY DEF Moved
<1> HIDE DEF first
<1> QED  BY <1>1, <1>2

\* Move construction of a unique_handler preserves it.
LEMMA MoveConstructStep ==
  ASSUME Inv, NEW s \in Slots, NEW t \in Slots, move_construct(s, t)
  PROVE  Inv'
<1> USE DEF move_construct, opVars
<1>1. /\ storage' \in [Slots -> Blocks \cup {Null, Dead}]
      /\ storage'[s] = storage[t] /\ storage'[t] = Null /\ s # t
      /\ \A u \in Slots \ {s, t} : storage'[u] = storage[u]
  BY MovedFacts DEF Usable
<1>2. TypeOK'
  BY <1>1 DEF Inv, TypeOK
<1>3. OnStack' /\ InQueue' /\ InHeap' /\ HandledOnce' /\ GuardsMatchOps'
  BY DEF Inv, OnStack, InQueue, InHeap, HandledOnce, GuardsMatchOps
<1>4. s \notin broken /\ t \notin broken /\ storage[s] \notin Blocks /\ Null \notin Blocks
  BY PointersAssumption DEF Inv, Pointed, Usable
<1>5. Pointed'
  <2>1. \A u \in Slots \ broken : storage'[u] \in Blocks => heap'[storage'[u]] # Null
    BY <1>1, <1>4 DEF Inv, Pointed
  <2>2. \A u, v \in Slots \ broken :
          storage'[u] = storage'[v] /\ storage'[u] \in Blocks => u = v
    BY <1>1, <1>4 DEF Inv, Pointed
  <2>3. \A b \in Blocks : heap'[b] # Null => \E u \in Slots \ broken : storage'[u] = b
    BY <1>1, <1>4 DEF Inv, Pointed
  <2>4. \A u \in broken : storage'[u] \in Blocks
    BY <1>1, <1>4 DEF Inv, TypeOK, Pointed
  <2> QED  BY <2>1, <2>2, <2>3, <2>4 DEF Pointed
<1> QED  BY <1>2, <1>3, <1>5 DEF Inv

\* Move assignment, also to itself, preserves it.
LEMMA MoveAssignStep ==
  ASSUME Inv, NEW s \in Slots, NEW t \in Slots, move_assign(s, t)
  PROVE  Inv'
<1> USE DEF move_assign
<1>1. /\ storage' \in [Slots -> Blocks \cup {Null, Dead}]
      /\ (s # t => storage'[s] = storage[t]) /\ storage'[t] = Null
      /\ \A u \in Slots \ {s, t} : storage'[u] = storage[u]
  BY MovedFacts
<1>2. /\ OnStack' /\ InQueue' /\ InHeap' /\ HandledOnce' /\ GuardsMatchOps' /\ TypeOK'
  BY <1>1, AbortFacts DEF Inv, TypeOK, Frames
<1>3. /\ s \notin broken /\ t \notin broken /\ Null \notin Blocks
      /\ \A b \in Blocks : heap'[b] = IF b = storage[s] THEN Null ELSE heap[b]
  BY PointersAssumption DEF Inv, TypeOK, Usable, Aborted
<1>4. Pointed'
  <2>1. \A u \in Slots \ broken : storage'[u] \in Blocks => heap'[storage'[u]] # Null
    BY <1>1, <1>3 DEF Inv, Pointed
  <2>2. \A u, v \in Slots \ broken :
          storage'[u] = storage'[v] /\ storage'[u] \in Blocks => u = v
    BY <1>1, <1>3 DEF Inv, Pointed
  <2>3. \A b \in Blocks : heap'[b] # Null => \E u \in Slots \ broken : storage'[u] = b
    BY <1>1, <1>3 DEF Inv, Pointed
  <2>4. \A u \in broken : storage'[u] \in Blocks
    BY <1>1, <1>3 DEF Inv, TypeOK, Pointed
  <2> QED  BY <2>1, <2>2, <2>3, <2>4 DEF Pointed
<1> QED  BY <1>2, <1>4 DEF Inv

\* unique_handler(handler) preserves it.
LEMMA ConstructOfStep ==
  ASSUME Inv, NEW s \in Slots, NEW o \in Ops, unique_handler_of(s, o)
  PROVE  Inv'
<1> USE DEF unique_handler_of, opVars
<1>1. PICK b \in Blocks : /\ heap[b] = Null /\ storage' = [storage EXCEPT ![s] = b]
                         /\ heap' = [heap EXCEPT ![b] = o]
  BY DEF Free
<1>2. /\ stack # <<>> /\ stack[Len(stack)].op = o /\ place[o] = "running"
      /\ place' = [place EXCEPT ![o] = "stored"]
  BY AtTop DEF Running
<1>3. OnStack' /\ stack' \in Seq(Frames)
  BY <1>2, StackPop DEF Inv, TypeOK, OthersStay, Active
<1>4. TypeOK'
  BY <1>1, <1>3 DEF Inv, TypeOK, Frames
<1>5. InQueue'
  BY <1>2 DEF Inv, TypeOK, InQueue
<1>6. InHeap'
  BY <1>1, <1>2, PointersAssumption DEF Inv, TypeOK, InHeap
<1>7. Pointed'
  BY <1>1, PointersAssumption DEF Inv, TypeOK, Pointed
<1>8. HandledOnce' /\ GuardsMatchOps'
  BY <1>2 DEF Inv, TypeOK, HandledOnce, GuardsMatchOps
<1> QED  BY <1>3, <1>4, <1>5, <1>6, <1>7, <1>8 DEF Inv

\* unique_handler::complete preserves it.
LEMMA CompleteSlotStep ==
  ASSUME Inv, NEW s \in Slots, complete_slot(s)
  PROVE  Inv'
<1> USE DEF complete_slot, Emptied, Invoke
<1> DEFINE h == Held(s)
<1>1. /\ h = heap[storage[s]] /\ h \in Ops /\ place[h] = "stored" /\ s \notin broken
      /\ heap' = [heap EXCEPT ![storage[s]] = Null] /\ state_' = Counted(h)
      /\ place' = [place EXCEPT ![h] = "running"]
      /\ stack' = Append(stack, Frame("impl", h))
  BY HeldFacts
<1> HIDE DEF h
<1>2. OnStack' /\ stack' \in Seq(Frames)
  BY <1>1, StackPush, "impl" \in {"impl", "direct", "bound"} DEF Inv, TypeOK, OthersStay, Active
<1>3. TypeOK'
  BY <1>1, <1>2 DEF Inv, TypeOK, Frames, Counted
<1>4. InQueue'
  BY <1>1 DEF Inv, TypeOK, InQueue
<1>5. InHeap'
  BY <1>1, PointersAssumption DEF Inv, TypeOK, InHeap
<1>6. Pointed'
  BY <1>1, PointersAssumption DEF Inv, TypeOK, Pointed
<1>7. HandledOnce' /\ GuardsMatchOps'
  BY <1>1 DEF Inv, TypeOK, HandledOnce, GuardsMatchOps
<1> QED  BY <1>2, <1>3, <1>4, <1>5, <1>6, <1>7 DEF Inv

\* An assignment whose allocation succeeds.
LEMMA AssignStored ==
  ASSUME Inv, NEW s \in Slots, NEW o \in Ops, Usable(s), Running(o), NEW b \in Blocks,
         Aborted(s)[b] = Null, storage' = [storage EXCEPT ![s] = b],
         heap' = [Aborted(s) EXCEPT ![b] = o], stack' = Below,
         place' = [[p \in Ops |-> IF p = Held(s) THEN "destroyed" ELSE place[p]]
                     EXCEPT ![o] = "stored"],
         work' = (IF Held(s) # Null THEN Released(Held(s)) ELSE work),
         UNCHANGED <<broken, state_, given, handled, posted>>
  PROVE  Inv'
<1>1. stack # <<>> /\ stack[Len(stack)].op = o /\ place[o] = "running"
  BY AtTop DEF Running
<1>2. \A p \in Ops : place'[p] = IF p = o THEN "stored"
                                 ELSE IF p = Held(s) THEN "destroyed" ELSE place[p]
  BY <1>1
<1>3. \A p \in Ops : p = Held(s) => place[p] = "stored" /\ p # o
  BY <1>1, HeldFacts, PointersAssumption
<1>4. OnStack' /\ stack' \in Seq(Frames)
  BY <1>1, <1>2, <1>3, StackPop DEF Inv, OthersStay, Active
<1>5. \A c \in Blocks : heap'[c] = IF c = b THEN o ELSE IF c = storage[s] THEN Null ELSE heap[c]
  BY DEF Aborted, Inv, TypeOK
<1>6. heap' \in [Blocks -> Ops \cup {Null}]
  BY DEF Aborted, Inv, TypeOK
<1>7. \A p \in Ops : work'[p] = IF p = Held(s) THEN {} ELSE work[p]
  BY PointersAssumption DEF Released, Inv, TypeOK
<1>8. TypeOK'
  <2>1. place' \in [Ops -> {"unborn", "running", "posted", "bound", "stored",
                            "handling", "completed", "destroyed"}]
    BY DEF Inv, TypeOK
  <2>2. work' \in [Ops -> SUBSET Executors]
    BY DEF Inv, TypeOK, Released
  <2> QED  BY <1>4, <1>6, <2>1, <2>2 DEF Inv, TypeOK, Frames
<1>9. InQueue'
  <2>1. \A p \in posted : p.op \in Ops /\ place'[p.op] = place[p.op]
    BY <1>1, <1>2, <1>3 DEF Inv, TypeOK, InQueue
  <2>2. \A p \in Ops : place'[p] \in {"posted", "bound"} => place[p] \in {"posted", "bound"}
    BY <1>2
  <2> QED  BY <2>1, <2>2 DEF Inv, InQueue
<1>10. \A c \in Blocks : heap[c] # Null /\ c # storage[s] => c # b
  BY DEF Aborted, Inv, TypeOK
<1>11. InHeap'
  <2>1. \A c \in Blocks : heap'[c] # Null /\ c # b =>
          heap'[c] = heap[c] /\ heap[c] # Null /\ heap[c] \in Ops /\ heap[c] # o
          /\ heap[c] # Held(s)
    BY <1>1, <1>5, HeldFacts DEF Inv, TypeOK, InHeap, Held
  <2>2. \A c \in Blocks : heap'[c] # Null => place'[heap'[c]] = "stored"
    BY <1>2, <1>5, <2>1 DEF Inv, InHeap
  <2>3. \A c, d \in Blocks : heap'[c] = heap'[d] /\ heap'[c] # Null => c = d
    BY <1>5, <2>1 DEF Inv, InHeap
  <2>4. \A p \in Ops : place'[p] = "stored" => \E c \in Blocks : heap'[c] = p
    <3> SUFFICES ASSUME NEW p \in Ops, place'[p] = "stored"
                 PROVE  \E c \in Blocks : heap'[c] = p
      OBVIOUS
    <3>1. CASE p = o
      BY <3>1, <1>5
    <3>2. CASE p # o
      <4>1. p # Held(s) /\ place[p] = "stored"
        BY <3>2, <1>2
      <4>2. PICK c \in Blocks : heap[c] = p
        BY <4>1 DEF Inv, InHeap
      <4>3. c # storage[s] /\ heap[c] # Null
        BY <4>1, <4>2, PointersAssumption DEF Held
      <4> QED  BY <4>2, <4>3, <1>5, <1>10
    <3> QED  BY <3>1, <3>2
  <2> QED  BY <2>2, <2>3, <2>4 DEF InHeap
<1>12. Pointed'
  <2>1. /\ storage'[s] = b /\ s \in Slots \ broken /\ Null \notin Ops
        /\ \A u \in Slots \ {s} : storage'[u] = storage[u]
    BY HeldFacts, PointersAssumption DEF Inv, TypeOK
  <2>2. \A u \in Slots \ broken : u # s /\ storage[u] \in Blocks =>
          storage[u] # storage[s] /\ storage[u] # b
    BY <1>10, <2>1 DEF Inv, Pointed
  <2>3. \A u \in Slots \ broken : storage'[u] \in Blocks => heap'[storage'[u]] # Null
    BY <1>5, <2>1, <2>2 DEF Inv, Pointed
  <2>4. \A u, v \in Slots \ broken :
          storage'[u] = storage'[v] /\ storage'[u] \in Blocks => u = v
    BY <2>1, <2>2 DEF Inv, Pointed
  <2>5. \A c \in Blocks : heap'[c] # Null => \E u \in Slots \ broken : storage'[u] = c
    BY <1>5, <2>1 DEF Inv, Pointed
  <2>6. \A u \in broken : storage'[u] \in Blocks
    BY <2>1 DEF Inv, TypeOK, Pointed
  <2> QED  BY <2>3, <2>4, <2>5, <2>6 DEF Pointed
<1>13. HandledOnce' /\ GuardsMatchOps'
  BY <1>1, <1>2, <1>3, <1>7 DEF Inv, TypeOK, HandledOnce, GuardsMatchOps
<1> QED  BY <1>4, <1>8, <1>9, <1>11, <1>12, <1>13 DEF Inv

\* An assignment whose allocation throws.
LEMMA AssignThrows ==
  ASSUME Inv, NEW s \in Slots, Usable(s), heap' = Aborted(s), AbortOp(s),
         broken' = (IF storage[s] = Null THEN broken ELSE broken \cup {s}),
         UNCHANGED <<storage, stack, state_, given, handled, posted>>
  PROVE  Inv'
<1>1. /\ OnStack' /\ InQueue' /\ InHeap' /\ HandledOnce' /\ GuardsMatchOps' /\ TypeOK'
  BY AbortFacts DEF Inv, TypeOK, Frames
<1>2. Pointed'
  BY HeldFacts, PointersAssumption DEF Inv, TypeOK, Pointed, Aborted
<1> QED  BY <1>1, <1>2 DEF Inv

\* unique_handler::operator=(handler) preserves it.
LEMMA AssignStep ==
  ASSUME Inv, NEW s \in Slots, NEW o \in Ops, assign(s, o)
  PROVE  Inv'
<1>1. CASE \E b \in {c \in Blocks : Aborted(s)[c] = Null} :
             /\ storage' = [storage EXCEPT ![s] = b]
             /\ heap' = [Aborted(s) EXCEPT ![b] = o]
             /\ place' = [[p \in Ops |-> IF p = Held(s) THEN "destroyed" ELSE place[p]]
                            EXCEPT ![o] = "stored"]
             /\ work' = IF Held(s) # Null THEN Released(Held(s)) ELSE work
             /\ stack' = Below
             /\ UNCHANGED broken
  BY <1>1, AssignStored DEF assign
<1>2. CASE /\ heap' = Aborted(s) /\ AbortOp(s)
           /\ broken' = IF storage[s] = Null THEN broken ELSE broken \cup {s}
           /\ UNCHANGED <<storage, stack>>
  BY <1>2, AssignThrows DEF assign
<1> QED  BY <1>1, <1>2 DEF assign

-----------------------------------------------------------------------------
\* The invariant holds initially.
LEMMA InvInit == Init => Inv
BY PointersAssumption
   DEF Init, Inv, TypeOK, OnStack, InQueue, InHeap, Pointed, HandledOnce, GuardsMatchOps

\* Every step preserves the invariant.
LEMMA InvNext == Inv /\ [Next]_vars => Inv'
<1> SUFFICES ASSUME Inv, [Next]_vars PROVE Inv'
  OBVIOUS
<1>1. CASE UNCHANGED vars
  BY <1>1 DEF vars, Inv, TypeOK, OnStack, InQueue, InHeap, Pointed, HandledOnce, GuardsMatchOps
<1>2. ASSUME NEW o \in Ops, ComposedNext(o) PROVE Inv'
  BY <1>2, AsyncComposeStep, PostStep, BoundStep, CompleteStep, AbandonStep, ReturnsStep
     DEF ComposedNext
<1>3. ASSUME NEW s \in Slots, SlotNext(s) PROVE Inv'
  BY <1>3, ConstructStep, DestroyStep, CompleteSlotStep, ResetStep, ConstructOfStep,
     AssignStep, MoveConstructStep, MoveAssignStep DEF SlotNext
<1>4. ASSUME NEW p \in posted, run(p) PROVE Inv'
  BY <1>4, RunStep
<1> QED  BY <1>1, <1>2, <1>3, <1>4 DEF Next

\* The inductive invariant of composed operations and unique_handlers.
THEOREM InvHolds == Spec => []Inv
BY InvInit, InvNext, PTL DEF Spec

\* Sets with no element and with exactly one.
LEMMA CountsOne ==
  ASSUME NEW S, \A x, y \in S : x = y
  PROVE  Cardinality(S) = IF S = {} THEN 0 ELSE 1
<1>1. CASE S = {}
  BY <1>1, FS_EmptySet
<1>2. CASE S # {}
  <2>1. PICK x : S = {x}
    BY <1>2
  <2> QED  BY <2>1, FS_Singleton
<1> QED  BY <1>1, <1>2

\* unique_handler: every pointer is to memory in use, and every piece of memory
\* in use is pointed to by exactly one object.
THEOREM StorageLiveInvariant == Spec => []StorageLive
<1>1. Inv => StorageLive
  <2> SUFFICES ASSUME Inv, NEW b \in Blocks
               PROVE  Cardinality({s \in Slots \ broken : storage[s] = b})
                        = IF heap[b] = Null THEN 0 ELSE 1
    BY DEF StorageLive, Inv
  <2> DEFINE S == {s \in Slots \ broken : storage[s] = b}
  <2>1. \A x, y \in S : x = y
    BY DEF Inv, Pointed
  <2>2. S = {} <=> heap[b] = Null
    BY DEF Inv, Pointed
  <2> HIDE DEF S
  <2>3. Cardinality(S) = IF heap[b] = Null THEN 0 ELSE 1
    BY <2>1, <2>2, CountsOne
  <2> QED  BY <2>3 DEF S
<1> QED  BY <1>1, InvHolds, PTL

\* compose.hpp, bound_handler.hpp and unique_handler.hpp together: an operation
\* is in exactly one place, and its handler is invoked at most once.
THEOREM InOnePlaceInvariant == Spec => []InOnePlace
<1>1. Inv => InOnePlace
  <2> SUFFICES ASSUME Inv, NEW o \in Ops
      PROVE  /\ (place[o] = "stored") = (Cardinality({b \in Blocks : heap[b] = o}) = 1)
             /\ (place[o] \in {"posted", "bound"})
                  = (Cardinality({p \in posted : p.op = o}) = 1)
             /\ (place[o] \in {"running", "handling"})
                  = (Cardinality({i \in DOMAIN stack : stack[i].op = o}) = 1)
             /\ handled[o] = IF place[o] \in {"handling", "completed"} THEN 1 ELSE 0
    BY DEF InOnePlace
  <2> DEFINE B == {b \in Blocks : heap[b] = o}
             P == {p \in posted : p.op = o}
             F == {i \in DOMAIN stack : stack[i].op = o}
  <2>1. (\A x, y \in B : x = y) /\ (B # {} <=> place[o] = "stored")
    BY PointersAssumption DEF Inv, InHeap
  <2>2. (\A x, y \in P : x = y) /\ (P # {} <=> place[o] \in {"posted", "bound"})
    BY DEF Inv, InQueue
  <2>3. (\A x, y \in F : x = y) /\ (F # {} <=> place[o] \in {"running", "handling"})
    <3>1. DOMAIN stack = 1 .. Len(stack)
      BY StackFrames DEF Inv
    <3> QED  BY <3>1 DEF Inv, OnStack
  <2> HIDE DEF B, P, F
  <2>4. /\ place[o] = "stored" <=> Cardinality(B) = 1
        /\ place[o] \in {"posted", "bound"} <=> Cardinality(P) = 1
        /\ place[o] \in {"running", "handling"} <=> Cardinality(F) = 1
    BY <2>1, <2>2, <2>3, CountsOne
  <2> QED  BY <2>4 DEF Inv, HandledOnce, B, P, F
<1> QED  BY <1>1, InvHolds, PTL

\* work.hpp: the executors of an operation have work exactly until its handler
\* is invoked or it is destroyed.
THEOREM GuardsMatchOpsInvariant == Spec => []GuardsMatchOps
<1>1. Inv => GuardsMatchOps
  BY DEF Inv
<1> QED  BY <1>1, InvHolds, PTL
=============================================================================
