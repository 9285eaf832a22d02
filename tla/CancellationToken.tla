------------------------- MODULE CancellationToken -------------------------
(***************************************************************************)
(* cancellation_token_source and cancellation_token (cancellation_token.   *)
(* hpp, impl/cancellation_token.cpp).                                      *)
(*                                                                         *)
(* A source owns a shared_ptr<void> whose only purpose is its control      *)
(* block: a token is a weak_ptr to that block and is cancelled once the    *)
(* block has no owner left.  The state is which block each pointer refers  *)
(* to.  A block's storage is released when neither a shared_ptr nor a      *)
(* weak_ptr refers to it, and may then be handed out again: Blocks is a    *)
(* pool of addresses and an address is recycled as the allocator would.    *)
(***************************************************************************)
CONSTANTS
  Sources,   \* storage slots for cancellation_token_source objects
  Tokens,    \* storage slots for cancellation_token objects
  Blocks,    \* addresses of shared_ptr control blocks
  Null,      \* the empty shared_ptr / weak_ptr
  Gone       \* the slot holds no object (not constructed or destructed)

ASSUME PointerAssumption == Null \notin Blocks /\ Gone \notin Blocks /\ Null # Gone

VARIABLES
  ptr,       \* ptr[s]:  cancellation_token_source::ptr_
  weak       \* weak[t]: cancellation_token::ptr_

tokenVars == <<ptr, weak>>

TokenTypeOK ==
  /\ ptr \in [Sources -> Blocks \cup {Null, Gone}]
  /\ weak \in [Tokens -> Blocks \cup {Null, Gone}]

Live(s) == ptr[s] # Gone
Issued(t) == weak[t] # Gone

\* weak_ptr::expired(): no shared_ptr owns the block.
cancelled(t) == weak[t] = Null \/ \A s \in Sources : ptr[s] # weak[t]

\* Mutant of Fresh: a token that kept a plain address would not hold its block.
FreshRawToken(b) == \A s \in Sources : ptr[s] # b

\* An address the allocator may hand out: no strong and no weak reference.
Fresh(b) ==
  /\ \A s \in Sources : ptr[s] # b
  /\ \A t \in Tokens : weak[t] # b

\* ptr_.reset(0, null_deleter()): the new block is allocated while the old
\* one is still referred to.
Allocate(s) ==
  \E b \in Blocks : Fresh(b) /\ ptr' = [ptr EXCEPT ![s] = b]

-----------------------------------------------------------------------------
TokenInit ==
  /\ ptr = [s \in Sources |-> Gone]
  /\ weak = [t \in Tokens |-> Gone]

Construct(s) ==
  /\ ~Live(s)
  /\ Allocate(s)
  /\ UNCHANGED weak

\* Mutant of MoveConstruct: copying the shared_ptr instead of moving it.
MoveConstructCopies(s, other) ==
  /\ ~Live(s)
  /\ Live(other)
  /\ ptr' = [ptr EXCEPT ![s] = ptr[other]]
  /\ UNCHANGED weak

MoveConstruct(s, other) ==
  /\ ~Live(s)
  /\ Live(other)
  /\ ptr' = [ptr EXCEPT ![s] = ptr[other], ![other] = Null]
  /\ UNCHANGED weak

\* Mutant of MoveAssign: the sources exchange their control blocks.
MoveAssignSwaps(s, other) ==
  /\ Live(s)
  /\ Live(other)
  /\ ptr' = [ptr EXCEPT ![s] = ptr[other], ![other] = ptr[s]]
  /\ UNCHANGED weak

\* shared_ptr's move-assignment leaves a self-assigned pointer as it was.
MoveAssign(s, other) ==
  /\ Live(s)
  /\ Live(other)
  /\ ptr' = IF s = other THEN ptr
            ELSE [ptr EXCEPT ![s] = ptr[other], ![other] = Null]
  /\ UNCHANGED weak

source_cancel(s) ==
  /\ Live(s)
  /\ Allocate(s)
  /\ UNCHANGED weak

source_destroy(s) ==
  /\ Live(s)
  /\ ptr' = [ptr EXCEPT ![s] = Null]
  /\ UNCHANGED weak

\* The test "if (!ptr_)" is about the stored pointer, which is null with and
\* without a control block: reset() always allocates a new one.
source_reset(s) ==
  /\ Live(s)
  /\ Allocate(s)
  /\ UNCHANGED weak

Destruct(s) ==
  /\ Live(s)
  /\ ptr' = [ptr EXCEPT ![s] = Gone]
  /\ UNCHANGED weak

\* cancellation_token(const cancellation_token_source&)
Issue(t, s) ==
  /\ ~Issued(t)
  /\ Live(s)
  /\ weak' = [weak EXCEPT ![t] = ptr[s]]
  /\ UNCHANGED ptr

\* The implicit copy constructor and destructor of cancellation_token.
CopyToken(t, other) ==
  /\ ~Issued(t)
  /\ Issued(other)
  /\ weak' = [weak EXCEPT ![t] = weak[other]]
  /\ UNCHANGED ptr

DropToken(t) ==
  /\ Issued(t)
  /\ weak' = [weak EXCEPT ![t] = Gone]
  /\ UNCHANGED ptr

TokenNext ==
  \/ \E s \in Sources : Construct(s)
  \/ \E s, other \in Sources : MoveConstruct(s, other)
  \/ \E s, other \in Sources : MoveAssign(s, other)
  \/ \E s \in Sources : source_cancel(s)
  \/ \E s \in Sources : source_destroy(s)
  \/ \E s \in Sources : source_reset(s)
  \/ \E s \in Sources : Destruct(s)
  \/ \E t \in Tokens, s \in Sources : Issue(t, s)
  \/ \E t, other \in Tokens : CopyToken(t, other)
  \/ \E t \in Tokens : DropToken(t)

TokenSpec == TokenInit /\ [][TokenNext]_tokenVars

-----------------------------------------------------------------------------
\* No two sources own the same control block: a block shared by two sources
\* would keep the tokens of one alive after its cancel().
SoleOwner ==
  \A s, o \in Sources : s # o /\ ptr[s] \in Blocks => ptr[s] # ptr[o]

\* cancelled() never turns from true to false while the token lives, not even
\* when the storage of an expired control block is recycled by cancel() or
\* reset().
CancelledIsFinal ==
  [][\A t \in Tokens :
       Issued(t) /\ cancelled(t) /\ Issued(t)' => cancelled(t)']_tokenVars

\* The pointers implement the contract: a token watches the source whose
\* ptr_ it refers to.
Contract == INSTANCE CancellationContract WITH
  sources <- {s \in Sources : Live(s)},
  issuing <- {s \in Sources : ptr[s] \in Blocks},
  tokens <- {t \in Tokens : Issued(t)},
  watch <- [t \in Tokens |-> {s \in Sources : ptr[s] \in Blocks /\ ptr[s] = weak[t]}]

ImplementsContract == Contract!Spec

=============================================================================
