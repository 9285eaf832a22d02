------------------------------ MODULE Handlers ------------------------------
(***************************************************************************)
(* Handlers on their way from the start of an operation to its completion: *)
(* composed_operation (compose.hpp) with its work guards (work.hpp),       *)
(* unique_handler (unique_handler.hpp) and bound_handler                   *)
(* (detail/bound_handler.hpp, bind_handler.hpp).  One thread runs all the  *)
(* executors.  The code that uses the library - the implementations of     *)
(* composed operations, and the handlers they complete - is anything that  *)
(* calls it; it runs nested, as one handler is invoked by another's code.  *)
(* Destructors of handlers do not call back into the unique_handler that   *)
(* is being assigned or destroyed.                                         *)
(***************************************************************************)
EXTENDS Naturals, Sequences, FiniteSets

CONSTANTS
  Slots,       \* unique_handler objects
  Ops,         \* composed operations, each with the handler of its caller
  Blocks,      \* the memory of the associated allocators
  Executors,
  Null, Dead   \* the storage_ of an empty slot; the slot does not exist

ASSUME PointersAssumption == Null # Dead /\ {Null, Dead} \cap Blocks = {} /\ Null \notin Ops

VARIABLES
  storage,   \* unique_handler::storage_
  broken,    \* slots that an exception has left with memory it had freed
  heap,      \* which operation a block holds; Null when it is free
  place,     \* where an operation is
  state_,    \* composed_operation::state_
  given,     \* the executors an operation was started with
  work,      \* the executors it holds a work guard of
  handled,   \* how often its handler has been invoked
  posted,    \* function objects that wait for an executor
  stack      \* the calls in progress, the innermost last

vars == <<storage, broken, heap, place, state_, given, work, handled, posted, stack>>
slotVars == <<storage, broken, heap>>
opVars == <<state_, given, work, handled>>

Frame(kind, o) == [kind |-> kind, op |-> o]
Below == SubSeq(stack, 1, Len(stack) - 1)
Running(o) == stack # <<>> /\ stack[Len(stack)] = Frame("impl", o)
Free == {b \in Blocks : heap[b] = Null}

Init ==
  /\ storage = [s \in Slots |-> Dead] /\ heap = [b \in Blocks |-> Null]
  /\ broken = {}
  /\ place = [o \in Ops |-> "unborn"] /\ state_ = [o \in Ops |-> 0]
  /\ given = [o \in Ops |-> {}] /\ work = [o \in Ops |-> {}]
  /\ handled = [o \in Ops |-> 0] /\ posted = {} /\ stack = <<>>

-----------------------------------------------------------------------------
(* composed_operation                                                      *)

\* state_: none, one or more invocations
Counted(o) == [state_ EXCEPT ![o] = IF @ < 2 THEN @ + 1 ELSE @]

\* composed_operation::operator(): the implementation is called.
Invoke(o) ==
  /\ state_' = Counted(o)
  /\ place' = [place EXCEPT ![o] = "running"]
  /\ stack' = Append(stack, Frame("impl", o))

\* async_compose and make_composed_operation, with make_work_tuple
async_compose(o, executors) ==
  /\ place[o] = "unborn"
  /\ given' = [given EXCEPT ![o] = executors]
  /\ work' = [work EXCEPT ![o] = executors]
  /\ Invoke(o)
  /\ UNCHANGED <<slotVars, handled, posted>>

\* The implementation hands itself over to an operation that will call back.
post(o, e) ==
  /\ Running(o)
  /\ place' = [place EXCEPT ![o] = "posted"]
  /\ posted' = posted \cup {[op |-> o, on |-> e, kind |-> "impl"]}
  /\ stack' = Below
  /\ UNCHANGED <<slotVars, opVars>>

\* composed_operation::complete: the handler, and then work_.reset()
complete(o) ==
  /\ Running(o)
  /\ place' = [place EXCEPT ![o] = "handling"]
  /\ handled' = [handled EXCEPT ![o] = @ + 1]
  /\ stack' = Append(Below, Frame("direct", o))
  /\ UNCHANGED <<slotVars, state_, given, work, posted>>

\* complete_to_bound_handler: bind_handler takes the handler and the work.
complete_to_bound_handler(o, e) ==
  /\ Running(o)
  /\ place' = [place EXCEPT ![o] = "bound"]
  /\ posted' = posted \cup {[op |-> o, on |-> e, kind |-> "bound"]}
  /\ stack' = Below
  /\ UNCHANGED <<slotVars, opVars>>

\* Mutant of Released: nothing is.
ReleasedNot(o) == work

\* work_tuple::reset() on all the guards, or their destruction.
Released(o) == [work EXCEPT ![o] = {}]

\* The implementation returns and has kept its operation nowhere.
abandon(o) ==
  /\ Running(o)
  /\ place' = [place EXCEPT ![o] = "destroyed"]
  /\ work' = Released(o)
  /\ stack' = Below
  /\ UNCHANGED <<slotVars, state_, given, handled, posted>>

\* Mutant of returns: what a bound_handler invoked does not.
returns_direct(o) ==
  /\ stack # <<>> /\ stack[Len(stack)] = Frame("direct", o)
  /\ place' = [place EXCEPT ![o] = "completed"]
  /\ work' = Released(o)
  /\ stack' = Below
  /\ UNCHANGED <<slotVars, state_, given, handled, posted>>

\* A handler returns to complete() or to bound_handler::operator().
returns(o) ==
  /\ stack # <<>> /\ stack[Len(stack)] \in {Frame("direct", o), Frame("bound", o)}
  /\ place' = [place EXCEPT ![o] = "completed"]
  /\ work' = Released(o)
  /\ stack' = Below
  /\ UNCHANGED <<slotVars, state_, given, handled, posted>>

\* An executor invokes a function object it was given: for a bound_handler
\* operator() resets the work first.
run(p) ==
  /\ stack = <<>> /\ p \in posted
  /\ posted' = posted \ {p}
  /\ IF p.kind = "impl"
       THEN Invoke(p.op) /\ UNCHANGED <<slotVars, given, work, handled>>
       ELSE /\ work' = Released(p.op)
            /\ place' = [place EXCEPT ![p.op] = "handling"]
            /\ handled' = [handled EXCEPT ![p.op] = @ + 1]
            /\ stack' = Append(stack, Frame("bound", p.op))
            /\ UNCHANGED <<slotVars, state_, given>>

-----------------------------------------------------------------------------
(* unique_handler                                                          *)

\* The object exists, and its storage_ is worth something.
Usable(s) == storage[s] # Dead /\ s \notin broken

Held(s) == IF storage[s] \in Blocks THEN heap[storage[s]] ELSE Null

\* storage_->abort(storage_), when there is a storage_: the handler dies.
Aborted(s) == IF storage[s] \in Blocks THEN [heap EXCEPT ![storage[s]] = Null] ELSE heap

\* Mutant of AbortOp: the memory goes without the handler.
AbortNothing(s) == UNCHANGED <<place, work>>

AbortOp(s) ==
  IF Held(s) # Null
    THEN /\ place' = [place EXCEPT ![Held(s)] = "destroyed"]
         /\ work' = Released(Held(s))
    ELSE UNCHANGED <<place, work>>

unique_handler(s) ==
  /\ storage[s] = Dead
  /\ storage' = [storage EXCEPT ![s] = Null]
  /\ UNCHANGED <<broken, heap, place, opVars, posted, stack>>

\* unique_handler(handler), where the handler is the running operation itself
unique_handler_of(s, o) ==
  /\ storage[s] = Dead /\ Running(o)
  /\ \E b \in Free :
       /\ storage' = [storage EXCEPT ![s] = b]
       /\ heap' = [heap EXCEPT ![b] = o]
  /\ place' = [place EXCEPT ![o] = "stored"]
  /\ stack' = Below
  /\ UNCHANGED <<broken, opVars, posted>>

\* ~unique_handler()
destroy(s) ==
  /\ Usable(s)
  /\ heap' = Aborted(s) /\ AbortOp(s)
  /\ storage' = [storage EXCEPT ![s] = Dead]
  /\ UNCHANGED <<broken, state_, given, handled, posted, stack>>

\* Mutant of Moved: the other object keeps its pointer.
MovedShared(s, t) == [storage EXCEPT ![s] = storage[t]]

\* storage_ of both after the move of t into s, which may be the same object.
Moved(s, t) == [[storage EXCEPT ![s] = storage[t]] EXCEPT ![t] = Null]

\* unique_handler(unique_handler&& other)
move_construct(s, t) ==
  /\ storage[s] = Dead /\ Usable(t)
  /\ storage' = Moved(s, t)
  /\ UNCHANGED <<broken, heap, place, opVars, posted, stack>>

\* operator=(unique_handler&& other)
move_assign(s, t) ==
  /\ Usable(s) /\ Usable(t)
  /\ heap' = Aborted(s) /\ AbortOp(s)
  /\ storage' = Moved(s, t)
  /\ UNCHANGED <<broken, state_, given, handled, posted, stack>>

\* operator=(handler).  When the allocation throws, the handler stays with the
\* caller and storage_ is what it was.
assign(s, o) ==
  /\ Usable(s) /\ Running(o)
  /\ \/ \E b \in {c \in Blocks : Aborted(s)[c] = Null} :
          /\ storage' = [storage EXCEPT ![s] = b]
          /\ heap' = [Aborted(s) EXCEPT ![b] = o]
          /\ place' = [[p \in Ops |-> IF p = Held(s) THEN "destroyed" ELSE place[p]]
                         EXCEPT ![o] = "stored"]
          /\ work' = IF Held(s) # Null THEN Released(Held(s)) ELSE work
          /\ stack' = Below
          /\ UNCHANGED broken
     \/ /\ heap' = Aborted(s) /\ AbortOp(s)
        /\ broken' = IF storage[s] = Null THEN broken ELSE broken \cup {s}
        /\ UNCHANGED <<storage, stack>>
  /\ UNCHANGED <<state_, given, handled, posted>>

\* complete() and reset() clear storage_ before they do anything with it.
Emptied(s) == [storage EXCEPT ![s] = Null]

\* complete(args): do_complete frees the storage and then invokes the handler.
\* An empty unique_handler throws, and nothing changes.
complete_slot(s) ==
  /\ Usable(s) /\ storage[s] \in Blocks
  /\ storage' = Emptied(s)
  /\ heap' = [heap EXCEPT ![storage[s]] = Null]
  /\ Invoke(Held(s))
  /\ UNCHANGED <<broken, given, work, handled, posted>>

reset(s) ==
  /\ Usable(s) /\ storage[s] \in Blocks
  /\ heap' = Aborted(s) /\ AbortOp(s)
  /\ storage' = Emptied(s)
  /\ UNCHANGED <<broken, state_, given, handled, posted, stack>>

-----------------------------------------------------------------------------
ComposedNext(o) ==
  \/ \E es \in SUBSET Executors \ {{}} : async_compose(o, es)
  \/ \E e \in Executors : post(o, e) \/ complete_to_bound_handler(o, e)
  \/ complete(o) \/ abandon(o) \/ returns(o)

SlotNext(s) ==
  \/ unique_handler(s) \/ destroy(s) \/ complete_slot(s) \/ reset(s)
  \/ \E o \in Ops : unique_handler_of(s, o) \/ assign(s, o)
  \/ \E t \in Slots : move_construct(s, t) \/ move_assign(s, t)

Next ==
  \/ \E o \in Ops : ComposedNext(o)
  \/ \E s \in Slots : SlotNext(s)
  \/ \E p \in posted : run(p)

\* The implementation is done with o: it has completed, posted, stored or
\* destroyed it.
Leaves(o) ==
  /\ Running(o) /\ (ComposedNext(o) \/ \E s \in Slots : SlotNext(s))
  /\ place'[o] # "running"

\* Executors run what was posted to them in turn, implementations get done with
\* their operation, and handlers return.
Spec ==
  /\ Init /\ [][Next]_vars
  /\ \A o \in Ops : /\ SF_vars(\E p \in posted : p.op = o /\ run(p))
                     /\ SF_vars(Leaves(o))
                     /\ SF_vars(returns(o))

-----------------------------------------------------------------------------
\* Every variable has its type; handlers are invoked at most once.
TypeOK ==
  /\ storage \in [Slots -> Blocks \cup {Null, Dead}] /\ broken \subseteq Slots
  /\ heap \in [Blocks -> Ops \cup {Null}]
  /\ place \in [Ops -> {"unborn", "running", "posted", "bound", "stored",
                        "handling", "completed", "destroyed"}]
  /\ state_ \in [Ops -> 0 .. 2] /\ handled \in [Ops -> 0 .. 1]
  /\ given \in [Ops -> SUBSET Executors] /\ work \in [Ops -> SUBSET Executors]
  /\ posted \subseteq [op : Ops, on : Executors, kind : {"impl", "bound"}]
  /\ stack \in Seq([kind : {"impl", "direct", "bound"}, op : Ops])

\* A unique_handler that says it stores a handler has one: its pointer is to
\* memory in use, which no other object points to, and no memory in use has
\* been lost, through any nesting of moves, completions and assignments.  Only
\* an assignment whose allocation throws breaks an object.
StorageLive ==
  TypeOK /\ \A b \in Blocks :
    Cardinality({s \in Slots \ broken : storage[s] = b}) = IF heap[b] = Null THEN 0 ELSE 1

\* An operation is in exactly one place, from where its handler is invoked once
\* or not at all: it cannot be stored twice, posted while it runs, or forgotten
\* without having been destroyed.
InOnePlace ==
  \A o \in Ops :
    /\ (place[o] = "stored") = (Cardinality({b \in Blocks : heap[b] = o}) = 1)
    /\ (place[o] \in {"posted", "bound"}) = (Cardinality({p \in posted : p.op = o}) = 1)
    /\ (place[o] \in {"running", "handling"})
         = (Cardinality({i \in DOMAIN stack : stack[i].op = o}) = 1)
    /\ handled[o] = IF place[o] \in {"handling", "completed"} THEN 1 ELSE 0

\* The executors of an operation have work until its handler is invoked, so
\* that run() does not return before, and none afterwards, so that it does.
GuardsMatchOps ==
  \A o \in Ops :
    /\ place[o] \in {"running", "posted", "bound", "stored"} => work[o] = given[o]
    /\ place[o] \in {"completed", "destroyed"} => work[o] = {}

\* What has been posted is run, whatever else runs, stores or completes
\* operations meanwhile.
PostedRuns ==
  \A o \in Ops : (place[o] \in {"posted", "bound"}) ~> (place[o] \notin {"posted", "bound"})

=============================================================================
