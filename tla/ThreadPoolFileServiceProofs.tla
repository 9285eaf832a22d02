-------------------- MODULE ThreadPoolFileServiceProofs --------------------
(***************************************************************************)
(* Proofs about ThreadPoolFileService, for any number of services, files,  *)
(* operations, native handles and threads; and, in the last section, about *)
(* CancellationToken, whose contract the service relies on: for any number *)
(* of sources, tokens and control blocks the pointers keep the contract.   *)
(***************************************************************************)
EXTENDS ThreadPoolFileService, CancellationToken, TLAPS

(* Ownership of native handles.                                             *)

\* A file that is half-way move-assigned holds no handle, so receiving the
\* other file's handle overwrites none; and nobody destroys either of the two.
TransitOK ==
  \A f \in Files : transit[f] # Nil =>
    /\ transit[f] # f
    /\ handle[f] = Closed
    /\ service[f] # Nil
    /\ service[transit[f]] # Nil

FileInv == FileTypes /\ TransitOK /\ HandlesOwnedOnce

LEMMA InitFileInv == Init => FileInv
  BY ServiceAssumption
  DEF Init, FileInv, FileTypes, TransitOK, HandlesOwnedOnce, is_open, Alive

\* Steps that leave the files and the native handles alone.
LEMMA SameFiles ==
  ASSUME FileInv, UNCHANGED <<fileVars, fdVars, listVars, cursor>>
  PROVE  FileInv'
  BY DEF FileInv, FileTypes, TransitOK, HandlesOwnedOnce, is_open, Alive, fileVars,
         fdVars, listVars

\* The pointer edits keep the types of the lists.
LEMMA PushFrontTypes ==
  ASSUME FileTypes, NEW s \in Services, NEW f \in Files, List!push_front(s, f)
  PROVE  /\ impl_list' \in [Services -> Files \cup {Nil}]
         /\ next' \in [Files -> Files \cup {Nil}]
         /\ prev' \in [Files -> Files \cup {Nil}]
  BY DEF FileTypes, List!push_front

LEMMA UnlinkTypes ==
  ASSUME FileTypes, NEW s \in Services, NEW f \in Files, List!unlink(s, f)
  PROVE  /\ impl_list' \in [Services -> Files \cup {Nil}]
         /\ next' \in [Files -> Files \cup {Nil}]
         /\ prev' \in [Files -> Files \cup {Nil}]
  BY DEF FileTypes, List!unlink

LEMMA ConstructFileInv ==
  ASSUME FileInv, NEW s \in Services, NEW f \in Files, construct(s, f)
  PROVE  FileInv'
<1> USE ServiceAssumption
<1>1. FileTypes'
  BY PushFrontTypes DEF FileInv, FileTypes, construct, fdVars, ctxVars
<1>2. TransitOK'
  BY DEF FileInv, FileTypes, TransitOK, construct, Alive
<1>3. HandlesOwnedOnce'
  BY DEF FileInv, FileTypes, HandlesOwnedOnce, construct, is_open, Alive, fdVars
<1> QED
  BY <1>1, <1>2, <1>3 DEF FileInv

LEMMA MoveConstructFileInv ==
  ASSUME FileInv, NEW f \in Files, NEW other \in Files, move_construct(f, other)
  PROVE  FileInv'
<1> USE ServiceAssumption
<1>1. service[other] \in Services /\ service[f] = Nil /\ f # other
  BY DEF FileInv, FileTypes, move_construct, Usable, Alive
<1>2. FileTypes'
  BY <1>1, PushFrontTypes DEF FileInv, FileTypes, move_construct, fdVars, ctxVars
<1>3. TransitOK'
  BY <1>1 DEF FileInv, FileTypes, TransitOK, move_construct, Usable, InTransit
<1>4. HandlesOwnedOnce'
  BY <1>1 DEF FileInv, FileTypes, HandlesOwnedOnce, move_construct, is_open, Alive, fdVars
<1> QED
  BY <1>2, <1>3, <1>4 DEF FileInv

\* Releasing f's handle and clearing handle_, as destroy, shutdown and the
\* first half of move_assign do.
LEMMA CloseForDestructionFileInv ==
  ASSUME FileInv, NEW f \in Files, close_for_destruction(f), UNCHANGED <<service, userFds>>
  PROVE  HandlesOwnedOnce'
  BY ServiceAssumption
  DEF FileInv, FileTypes, HandlesOwnedOnce, close_for_destruction, release_handle,
      is_open, Alive

LEMMA MoveAssignFileInv ==
  ASSUME FileInv, NEW f \in Files, NEW other \in Files,
         move_assign_begin(f, other) \/ move_assign_throws(f, other)
  PROVE  FileInv'
<1> USE ServiceAssumption
<1>1. /\ service[f] \in Services /\ service[other] \in Services /\ f # other
      /\ transit[f] = Nil /\ transit[other] = Nil
      /\ \A g \in Files : transit[g] # f /\ transit[g] # other
  BY DEF FileInv, FileTypes, move_assign_begin, move_assign_throws, Usable, Alive, InTransit
<1>2. CASE move_assign_throws(f, other)
  <2>1. FileTypes'
    BY <1>2 DEF FileInv, FileTypes, move_assign_throws, close_for_destruction,
                release_handle, is_open, listVars, ctxVars
  <2>2. TransitOK'
    BY <1>2 DEF FileInv, FileTypes, TransitOK, move_assign_throws, close_for_destruction
  <2> QED
    BY <1>2, <2>1, <2>2, CloseForDestructionFileInv DEF FileInv, move_assign_throws
<1>3. CASE move_assign_begin(f, other) /\ service[f] = service[other]
  <2>1. FileTypes'
    BY <1>3 DEF FileInv, FileTypes, move_assign_begin, release_handle, is_open, listVars,
                ctxVars
  <2>2. TransitOK'
    BY <1>1, <1>3 DEF FileInv, FileTypes, TransitOK, move_assign_begin
  <2>3. HandlesOwnedOnce'
    BY <1>1, <1>3 DEF FileInv, FileTypes, HandlesOwnedOnce, move_assign_begin,
                      release_handle, is_open, Alive
  <2> QED
    BY <2>1, <2>2, <2>3 DEF FileInv
<1>4. CASE move_assign_begin(f, other) /\ service[f] # service[other]
  <2>1. FileTypes'
    BY <1>1, <1>4, UnlinkTypes
    DEF FileInv, FileTypes, move_assign_begin, close_for_destruction, release_handle,
        is_open, ctxVars
  <2>2. TransitOK'
    BY <1>1, <1>4 DEF FileInv, FileTypes, TransitOK, move_assign_begin, close_for_destruction
  <2> QED
    BY <1>4, <2>1, <2>2, CloseForDestructionFileInv DEF FileInv, move_assign_begin
<1> QED
  BY <1>2, <1>3, <1>4

LEMMA MoveAssignEndFileInv ==
  ASSUME FileInv, NEW f \in Files, move_assign_end(f)
  PROVE  FileInv'
<1> USE ServiceAssumption
<1> DEFINE other == transit[f]
<1>1. other \in Files /\ other # f /\ handle[f] = Closed /\ service[other] \in Services
  BY DEF FileInv, FileTypes, TransitOK, move_assign_end
<1>2. FileTypes'
  BY <1>1, PushFrontTypes DEF FileInv, FileTypes, move_assign_end, fdVars, ctxVars
<1>3. TransitOK'
  BY <1>1 DEF FileInv, FileTypes, TransitOK, move_assign_end
<1>4. HandlesOwnedOnce'
  BY <1>1, SMTT(30) DEF FileInv, FileTypes, HandlesOwnedOnce, move_assign_end, is_open, Alive, fdVars
<1> QED
  BY <1>2, <1>3, <1>4 DEF FileInv

LEMMA DestroyFileInv ==
  ASSUME FileInv, NEW f \in Files, destroy(f)
  PROVE  FileInv'
<1> USE ServiceAssumption
<1>1. service[f] \in Services
  BY DEF FileInv, FileTypes, destroy, Alive
<1>2. FileTypes'
  BY <1>1, UnlinkTypes DEF FileInv, FileTypes, destroy, ctxVars
<1>3. TransitOK'
  BY DEF FileInv, FileTypes, TransitOK, destroy, InTransit
<1>4. HandlesOwnedOnce'
  BY DEF FileInv, FileTypes, HandlesOwnedOnce, destroy, is_open, Alive
<1> QED
  BY <1>2, <1>3, <1>4 DEF FileInv

\* open, assign and close.
LEMMA SyncFileInv ==
  ASSUME FileInv, NEW f \in Files,
         close(f) \/ \E fd \in Fds : open(f, fd) \/ assign(f, fd)
  PROVE  FileInv'
<1> USE ServiceAssumption
<1>1. FileTypes'
  BY DEF FileInv, FileTypes, open, assign, close, listVars, ctxVars
<1>2. TransitOK'
  BY DEF FileInv, FileTypes, TransitOK, open, assign, close, Usable, InTransit
<1>3. HandlesOwnedOnce'
  BY DEF FileInv, FileTypes, HandlesOwnedOnce, open, assign, close, Usable, is_open, Alive
<1> QED
  BY <1>1, <1>2, <1>3 DEF FileInv

\* Native handles opened and closed outside the files.
LEMMA UserFdsFileInv ==
  ASSUME FileInv, NEW fd \in Fds, user_open(fd) \/ user_close(fd)
  PROVE  FileInv'
<1> USE ServiceAssumption
<1>1. FileTypes'
  BY DEF FileInv, FileTypes, user_open, user_close, fileVars, listVars, ctxVars
<1>2. TransitOK'
  BY DEF FileInv, TransitOK, user_open, user_close, fileVars
<1>3. HandlesOwnedOnce'
  BY DEF FileInv, FileTypes, HandlesOwnedOnce, user_open, user_close, is_open, Alive, fileVars
<1> QED
  BY <1>1, <1>2, <1>3 DEF FileInv

\* The loop of shutdown_service.
LEMMA ShutdownFileInv ==
  ASSUME FileInv, NEW s \in Services, shutdown_begin(s) \/ shutdown_step(s)
  PROVE  FileInv'
<1> USE ServiceAssumption
<1>1. CASE shutdown_begin(s)
  BY <1>1 DEF FileInv, FileTypes, TransitOK, HandlesOwnedOnce, shutdown_begin, is_open,
              Alive, fileVars, fdVars, listVars
<1>2. CASE shutdown_step(s)
  <2>1. cursor[s] \in Files
    BY <1>2 DEF FileInv, FileTypes, shutdown_step
  <2>2. FileTypes'
    BY <1>2, <2>1 DEF FileInv, FileTypes, shutdown_step, close_for_destruction,
                      release_handle, is_open, listVars
  <2>3. TransitOK'
    BY <1>2, <2>1 DEF FileInv, FileTypes, TransitOK, shutdown_step, close_for_destruction
  <2> QED
    BY <1>2, <2>1, <2>2, <2>3, CloseForDestructionFileInv DEF FileInv, shutdown_step
<1> QED
  BY <1>1, <1>2

LEMMA NextFileInv == FileInv /\ [Next]_vars => FileInv'
<1> SUFFICES ASSUME FileInv, [Next]_vars PROVE FileInv'
  OBVIOUS
<1>1. CASE UNCHANGED vars
  BY <1>1, SameFiles DEF vars, ctxVars
<1>2. CASE UserNext
  <2>1. ASSUME NEW f \in Files, destroy_throws(f) \/ cancel(f)
                                  \/ (\E o \in Ops : async_init(o, f))
        PROVE  FileInv'
    BY <2>1, SameFiles DEF destroy_throws, cancel, async_init, ctxVars
  <2> QED
    BY <1>2, <2>1, ConstructFileInv, MoveConstructFileInv, MoveAssignFileInv,
       MoveAssignEndFileInv, DestroyFileInv, SyncFileInv, UserFdsFileInv DEF UserNext
<1>3. CASE OpNext
  <2>1. UNCHANGED <<fileVars, fdVars, listVars, cursor>>
    BY <1>3 DEF OpNext, op_begin, op_perform, handler_begin, handler_end, run,
                    run_returns, ctxVars
  <2> QED
    BY <2>1, SameFiles
<1>4. CASE ShutdownNext
  <2>1. ASSUME NEW s \in Services,
               shutdown_throws(s) \/ shutdown_stop(s) \/ service_destroy(s)
        PROVE  FileInv'
    BY <2>1, SameFiles DEF shutdown_throws, shutdown_stop, service_destroy, ctxVars
  <2>2. ASSUME NEW o \in Ops, drop_op(o)
        PROVE  FileInv'
    BY <2>2, SameFiles DEF drop_op, ctxVars
  <2> QED
    BY <1>4, <2>1, <2>2, ShutdownFileInv DEF ShutdownNext
<1> QED
  BY <1>1, <1>2, <1>3, <1>4 DEF Next

LEMMA FileInvInvariant == Spec => []FileInv
  BY InitFileInv, NextFileInv, PTL DEF Spec

\* Every open native handle has exactly one owner through any sequence of
\* moves, assignments, failed closes, destructions and shutdown.
THEOREM HandlesOwnedOnceInvariant == Spec => []HandlesOwnedOnce
<1>1. FileInv => HandlesOwnedOnce
  BY DEF FileInv
<1> QED
  BY FileInvInvariant, <1>1, PTL

-----------------------------------------------------------------------------
(* Cancellation of queued operations.                                       *)

\* The history flags and the result of an operation that has not got so far.
EarlyOps ==
  \A o \in Ops :
    /\ opst[o] = "free" => ~doomed[o]
    /\ opst[o] \in {"free", "queued", "started"} => opres[o] = "none"

\* While nothing has happened to its file, a queued operation and the file have
\* the same handle.
Holds(o, f) == assoc[o] = f /\ is_open(f) /\ opfd[o] = handle[f]

HandleHeld ==
  \A o \in Ops : opst[o] = "queued" /\ ~doomed[o] /\ ~orphaned[o] /\ ~detached[o] =>
    \E f \in Files : Holds(o, f)

TokenInv == OpTypes /\ EarlyOps /\ QueuedTokensAgree /\ DoomedNeverRuns /\ HandleHeld

LEMMA InitTokenInv == Init => TokenInv
  BY DEF Init, TokenInv, OpTypes, OpStates, Results, EarlyOps, QueuedTokensAgree,
         DoomedNeverRuns, HandleHeld

\* Steps that leave operations and their tokens alone, and open handles too.
LEMMA SameOps ==
  ASSUME TokenInv, UNCHANGED <<opVars, watch, histVars>>, issuing' \subseteq Files,
         \A g \in Files : is_open(g) => handle'[g] = handle[g]
  PROVE  TokenInv'
<1>1. OpTypes' /\ EarlyOps' /\ QueuedTokensAgree' /\ DoomedNeverRuns'
  BY DEF TokenInv, OpTypes, EarlyOps, QueuedTokensAgree, DoomedNeverRuns, opVars, histVars
<1>2. HandleHeld'
  BY DEF TokenInv, HandleHeld, Holds, is_open, opVars, histVars
<1> QED
  BY <1>1, <1>2 DEF TokenInv

\* A step that cancels the tokens of f, dooms its queued operations, and may
\* take them away from f.
LEMMA DoomOps ==
  ASSUME TokenInv, NEW f \in Files,
         watch' = Tok!WithoutWatchers(f), DoomQueued(f), issuing' \subseteq Files,
         UNCHANGED <<opVars, orphaned, detached>>,
         \A g \in Files \ {f} : handle'[g] = handle[g],
         assoc' \in [Ops -> Files \cup {Nil}],
         \A o \in Ops : assoc[o] # f => assoc'[o] = assoc[o]
  PROVE  TokenInv'
<1>1. OpTypes'
  BY DEF TokenInv, OpTypes, DoomQueued, Tok!WithoutWatchers, opVars
<1>2. EarlyOps'
  BY DEF TokenInv, EarlyOps, DoomQueued, opVars
<1>3. QueuedTokensAgree'
  BY DEF TokenInv, OpTypes, QueuedTokensAgree, DoomQueued, Tok!WithoutWatchers, opVars
<1>4. DoomedNeverRuns'
  BY DEF TokenInv, OpTypes, DoomedNeverRuns, DoomQueued, opVars
<1>5. HandleHeld'
  <2>1. SUFFICES ASSUME NEW o \in Ops, opst[o] = "queued", ~doomed'[o], ~orphaned[o],
                        ~detached[o]
                 PROVE  \E g \in Files : Holds(o, g)'
    BY DEF HandleHeld, opVars
  <2>2. ~doomed[o] /\ assoc[o] # f
    BY <2>1 DEF DoomQueued, TokenInv, OpTypes
  <2>3. PICK g \in Files : Holds(o, g)
    BY <2>1, <2>2 DEF TokenInv, HandleHeld
  <2>4. Holds(o, g)'
    BY <2>2, <2>3 DEF Holds, is_open, opVars
  <2> QED
    BY <2>4
<1> QED
  BY <1>1, <1>2, <1>3, <1>4, <1>5 DEF TokenInv

\* A closed file dooms its queued operations without reaching their tokens: these
\* lost their handle to close(), or were doomed before.
LEMMA DoomClosedOps ==
  ASSUME TokenInv, NEW f \in Files, ~is_open(f), DoomQueued(f),
         UNCHANGED <<opVars, watch, orphaned>>, issuing' \subseteq Files,
         detached' \in [Ops -> BOOLEAN], \A o \in Ops : detached[o] => detached'[o],
         assoc' \in [Ops -> Files \cup {Nil}],
         \A o \in Ops : detached'[o] \/ assoc'[o] = assoc[o],
         \A o \in Ops : ~detached'[o] /\ assoc[o] \in Files \ {f} =>
           handle'[assoc[o]] = handle[assoc[o]]
  PROVE  TokenInv'
<1>1. OpTypes'
  BY DEF TokenInv, OpTypes, DoomQueued, opVars
<1>2. EarlyOps'
  BY DEF TokenInv, EarlyOps, DoomQueued, opVars
<1>3. ASSUME NEW o \in Ops, opst[o] = "queued", assoc[o] = f
      PROVE  doomed[o] \/ orphaned[o] \/ detached[o]
  BY <1>3 DEF TokenInv, HandleHeld, Holds
<1>4. QueuedTokensAgree'
  BY <1>3 DEF TokenInv, OpTypes, QueuedTokensAgree, DoomQueued, opVars
<1>5. DoomedNeverRuns'
  BY <1>3 DEF TokenInv, OpTypes, DoomedNeverRuns, DoomQueued, opVars
<1>6. HandleHeld'
  BY <1>3 DEF TokenInv, OpTypes, HandleHeld, Holds, is_open, DoomQueued, opVars
<1> QED
  BY <1>1, <1>2, <1>4, <1>5, <1>6 DEF TokenInv

LEMMA CloseForDestructionOps ==
  ASSUME FileInv, TokenInv, NEW f \in Files, close_for_destruction(f),
         UNCHANGED <<opVars, assoc, orphaned, detached>>
  PROVE  TokenInv'
<1>0. \A g \in Files \ {f} : handle'[g] = handle[g]
  BY DEF close_for_destruction, FileInv, FileTypes
<1>1. CASE is_open(f)
  BY <1>0, <1>1, DoomOps DEF close_for_destruction, release_handle, TokenInv, OpTypes
<1>2. CASE ~is_open(f)
  BY <1>0, <1>2, DoomClosedOps DEF close_for_destruction, release_handle, tokVars, TokenInv, OpTypes
<1> QED
  BY <1>1, <1>2

LEMMA CloseOps ==
  ASSUME FileInv, TokenInv, NEW f \in Files, close(f)
  PROVE  TokenInv'
<1>1. OpTypes'
  BY DEF TokenInv, OpTypes, close, opVars, tokVars
<1>2. EarlyOps' /\ QueuedTokensAgree' /\ DoomedNeverRuns'
  BY DEF TokenInv, OpTypes, EarlyOps, QueuedTokensAgree, DoomedNeverRuns, close, opVars, tokVars
<1>3. HandleHeld'
  <2>1. SUFFICES ASSUME NEW o \in Ops, opst[o] = "queued", ~doomed[o], ~orphaned'[o],
                        ~detached[o]
                 PROVE  \E g \in Files : Holds(o, g)'
    BY DEF HandleHeld, close, opVars
  <2>2. ~orphaned[o] /\ assoc[o] # f
    BY <2>1 DEF close, TokenInv, OpTypes
  <2>3. PICK g \in Files : Holds(o, g)
    BY <2>1, <2>2 DEF TokenInv, HandleHeld
  <2>4. Holds(o, g)'
    BY <2>2, <2>3 DEF Holds, is_open, close, opVars, FileInv, FileTypes
  <2> QED
    BY <2>4
<1> QED
  BY <1>1, <1>2, <1>3 DEF TokenInv

LEMMA MoveConstructOps ==
  ASSUME FileInv, TokenInv, NEW f \in Files, NEW other \in Files, move_construct(f, other)
  PROVE  TokenInv'
<1>1. OpTypes'
  BY DEF TokenInv, OpTypes, move_construct, Reassociate, opVars
<1>2. EarlyOps' /\ DoomedNeverRuns'
  BY DEF TokenInv, EarlyOps, DoomedNeverRuns, move_construct, opVars
<1>3. QueuedTokensAgree'
  BY DEF TokenInv, OpTypes, QueuedTokensAgree, move_construct, Reassociate, opVars
<1>4. HandleHeld'
  <2>1. SUFFICES ASSUME NEW o \in Ops,
                        opst[o] = "queued", ~doomed[o], ~orphaned[o], ~detached[o]
                 PROVE  \E g \in Files : Holds(o, g)'
    BY DEF HandleHeld, move_construct, opVars
  <2>2. PICK g \in Files : Holds(o, g)
    BY <2>1 DEF TokenInv, HandleHeld
  <2>3. /\ handle' = [handle EXCEPT ![f] = handle[other], ![other] = Closed]
        /\ assoc' = [x \in Ops |-> IF assoc[x] = other THEN f ELSE assoc[x]]
        /\ opfd' = opfd /\ ~Alive(f) /\ Alive(other)
    BY DEF move_construct, Reassociate, Usable, opVars
  <2>4. f # other /\ f # g
    BY <2>2, <2>3 DEF FileInv, HandlesOwnedOnce, Holds
  <2>5. CASE g = other
    BY <2>2, <2>3, <2>4, <2>5 DEF FileInv, FileTypes, Holds, is_open
  <2>6. CASE g # other
    BY <2>2, <2>3, <2>4, <2>6 DEF FileInv, FileTypes, Holds, is_open
  <2> QED
    BY <2>5, <2>6
<1> QED
  BY <1>1, <1>2, <1>3, <1>4 DEF TokenInv

\* The operations that change hands are detached from then on.
LEMMA DetachOps ==
  ASSUME TokenInv, NEW f \in Files, NEW other \in Files \cup {Nil}, Reassociate(other, f),
         detached' = [o \in Ops |-> detached[o] \/ assoc[o] = other],
         ~is_open(f), \A g \in Files \ {f, other} : handle'[g] = handle[g],
         UNCHANGED <<opVars, watch, doomed, orphaned>>, issuing' \subseteq Files
  PROVE  TokenInv'
<1>1. OpTypes' /\ EarlyOps' /\ QueuedTokensAgree' /\ DoomedNeverRuns'
  BY DEF TokenInv, OpTypes, EarlyOps, QueuedTokensAgree, DoomedNeverRuns, Reassociate,
         opVars
<1>2. HandleHeld'
  <2>1. SUFFICES ASSUME NEW o \in Ops, opst[o] = "queued", ~doomed[o], ~orphaned[o],
                        ~detached'[o]
                 PROVE  \E g \in Files : Holds(o, g)'
    BY DEF HandleHeld, opVars
  <2>2. ~detached[o] /\ assoc[o] # other /\ assoc'[o] = assoc[o]
    BY <2>1 DEF Reassociate, TokenInv, OpTypes
  <2>3. PICK g \in Files : Holds(o, g)
    BY <2>1, <2>2 DEF TokenInv, HandleHeld
  <2>4. Holds(o, g)'
    BY <2>2, <2>3 DEF Holds, is_open, opVars
  <2> QED
    BY <2>4
<1> QED
  BY <1>1, <1>2 DEF TokenInv

LEMMA MoveAssignOps ==
  ASSUME FileInv, TokenInv, NEW f \in Files, NEW other \in Files,
         move_assign_begin(f, other) \/ move_assign_throws(f, other)
  PROVE  TokenInv'
<1>1. CASE move_assign_throws(f, other)
  BY <1>1, CloseForDestructionOps DEF move_assign_throws
<1>2. CASE move_assign_begin(f, other) /\ service[f] # service[other]
  BY <1>2, CloseForDestructionOps DEF move_assign_begin
<1>3. CASE move_assign_begin(f, other) /\ service[f] = service[other]
  <2>0. /\ DoomQueued(f) /\ Reassociate(other, f)
        /\ detached' = [o \in Ops |-> detached[o] \/ assoc[o] = other]
        /\ UNCHANGED <<opst, opfd, opsvc, opres, guard, orphaned>> /\ f # other
        /\ \A g \in Files \ {f, other} : handle'[g] = handle[g]
    BY <1>3 DEF move_assign_begin, release_handle, opVars, FileInv, FileTypes
  <2>1. CASE ~is_open(f)
    BY <1>3, <2>0, <2>1, DoomClosedOps
    DEF move_assign_begin, release_handle, tokVars, opVars, TokenInv, OpTypes, Reassociate
  <2>2. CASE is_open(f)
    <3>0. /\ issuing' = issuing \ {f}
          /\ watch' = [o \in Ops |-> watch[o] \ {f}]
      BY <1>3, <2>2 DEF move_assign_begin, release_handle, Tok!WithoutWatchers
    <3>1. OpTypes'
      BY <2>0, <3>0 DEF TokenInv, OpTypes, DoomQueued, Reassociate
    <3>2. EarlyOps'
      BY <2>0, <3>0 DEF TokenInv, EarlyOps, DoomQueued
    <3>3. QueuedTokensAgree'
      BY <2>0, <3>0 DEF TokenInv, OpTypes, QueuedTokensAgree, DoomQueued, Reassociate
    <3>4. DoomedNeverRuns'
      BY <2>0, <3>0 DEF TokenInv, OpTypes, DoomedNeverRuns, DoomQueued
    <3>5. HandleHeld'
      BY <2>0 DEF TokenInv, OpTypes, HandleHeld, Holds, is_open, DoomQueued, Reassociate
    <3> QED
      BY <3>1, <3>2, <3>3, <3>4, <3>5 DEF TokenInv
  <2> QED
    BY <2>1, <2>2
<1> QED
  BY <1>1, <1>2, <1>3

LEMMA DestroyOps ==
  ASSUME FileInv, TokenInv, NEW f \in Files, destroy(f)
  PROVE  TokenInv'
<1>1. \A g \in Files \ {f} : handle'[g] = handle[g]
  BY DEF destroy, FileInv, FileTypes
<1> QED
  BY <1>1, DoomOps DEF destroy, TokenInv, OpTypes

LEMMA AsyncInitOps ==
  ASSUME FileInv, TokenInv, NEW o \in Ops, NEW f \in Files, async_init(o, f)
  PROVE  TokenInv'
<1>1. OpTypes'
  BY DEF FileInv, FileTypes, TokenInv, OpTypes, OpStates, async_init, is_open
<1>2. EarlyOps'
  BY DEF TokenInv, OpTypes, EarlyOps, async_init
<1>3. QueuedTokensAgree'
  BY DEF TokenInv, OpTypes, EarlyOps, QueuedTokensAgree, async_init
<1>4. DoomedNeverRuns'
  BY DEF TokenInv, OpTypes, EarlyOps, DoomedNeverRuns, async_init
<1>5. HandleHeld'
  BY DEF TokenInv, OpTypes, HandleHeld, Holds, is_open, async_init, fileVars
<1> QED
  BY <1>1, <1>2, <1>3, <1>4, <1>5 DEF TokenInv

\* The check of the token in thread_pool_fs_op decides what happens next.
LEMMA OpBeginOps ==
  ASSUME TokenInv, NEW o \in Ops, op_begin(o)
  PROVE  TokenInv'
<1>1. CASE watch[o] = {}
  <2> USE <1>1 DEF op_begin, post_completion
  <2>1. OpTypes'
    BY DEF TokenInv, OpTypes, OpStates, Results
  <2>2. EarlyOps'
    BY DEF TokenInv, OpTypes, EarlyOps
  <2>3. QueuedTokensAgree'
    BY DEF TokenInv, OpTypes, QueuedTokensAgree
  <2>4. DoomedNeverRuns'
    BY DEF TokenInv, OpTypes, DoomedNeverRuns
  <2>5. HandleHeld'
    BY DEF TokenInv, OpTypes, HandleHeld, Holds, is_open, fileVars
  <2> QED
    BY <2>1, <2>2, <2>3, <2>4, <2>5 DEF TokenInv
<1>2. CASE watch[o] # {}
  <2> USE <1>2 DEF op_begin
  <2>1. OpTypes'
    BY DEF TokenInv, OpTypes, OpStates
  <2>2. EarlyOps'
    BY DEF TokenInv, OpTypes, EarlyOps
  <2>3. QueuedTokensAgree'
    BY DEF TokenInv, OpTypes, QueuedTokensAgree
  <2>4. doomed[o] => detached[o] \/ orphaned[o]
    BY DEF TokenInv, QueuedTokensAgree
  <2>5. DoomedNeverRuns'
    BY <2>4 DEF TokenInv, OpTypes, DoomedNeverRuns
  <2>6. HandleHeld'
    BY DEF TokenInv, OpTypes, HandleHeld, Holds, is_open, fileVars, histVars
  <2> QED
    BY <2>1, <2>2, <2>3, <2>5, <2>6 DEF TokenInv
<1> QED
  BY <1>1, <1>2

LEMMA OpPerformOps ==
  ASSUME TokenInv, NEW o \in Ops, NEW result \in {"ok", "error"}, op_perform(o, result)
  PROVE  TokenInv'
<1> USE DEF op_perform, post_completion
<1>1. OpTypes'
  BY DEF TokenInv, OpTypes, OpStates, Results
<1>2. EarlyOps'
  BY DEF TokenInv, OpTypes, EarlyOps
<1>3. QueuedTokensAgree'
  BY DEF TokenInv, OpTypes, QueuedTokensAgree
<1>4. doomed[o] => detached[o] \/ orphaned[o]
  BY DEF TokenInv, EarlyOps, DoomedNeverRuns
<1>5. DoomedNeverRuns'
  BY <1>4 DEF TokenInv, OpTypes, DoomedNeverRuns
<1>6. HandleHeld'
  BY DEF TokenInv, OpTypes, HandleHeld, Holds, is_open, fileVars
<1> QED
  BY <1>1, <1>2, <1>3, <1>5, <1>6 DEF TokenInv

\* Calling a handler changes neither its result nor its history.
LEMMA HandlerBeginOps ==
  ASSUME TokenInv, NEW o \in Ops, handler_begin(o)
  PROVE  TokenInv'
<1> USE DEF handler_begin, tokVars, histVars
<1>1. OpTypes'
  BY DEF TokenInv, OpTypes, OpStates
<1>2. EarlyOps'
  BY DEF TokenInv, OpTypes, EarlyOps
<1>3. QueuedTokensAgree'
  BY DEF TokenInv, OpTypes, QueuedTokensAgree
<1>4. DoomedNeverRuns'
  BY DEF TokenInv, OpTypes, DoomedNeverRuns
<1>5. HandleHeld'
  BY DEF TokenInv, OpTypes, HandleHeld, Holds, is_open, fileVars, histVars
<1> QED
  BY <1>1, <1>2, <1>3, <1>4, <1>5 DEF TokenInv

LEMMA RetireOps ==
  ASSUME TokenInv, NEW o \in Ops, NEW state \in {"done", "dropped"}, retire(o, state),
         UNCHANGED <<issuing, handle>>
  PROVE  TokenInv'
<1> USE DEF retire
<1>1. OpTypes'
  BY DEF TokenInv, OpTypes, OpStates, Results
<1>2. EarlyOps'
  BY DEF TokenInv, OpTypes, EarlyOps
<1>3. QueuedTokensAgree'
  BY DEF TokenInv, OpTypes, QueuedTokensAgree
<1>4. DoomedNeverRuns'
  BY DEF TokenInv, OpTypes, DoomedNeverRuns
<1>5. HandleHeld'
  BY DEF TokenInv, OpTypes, HandleHeld, Holds, is_open, fileVars, histVars
<1> QED
  BY <1>1, <1>2, <1>3, <1>4, <1>5 DEF TokenInv

LEMMA NextTokenInv == FileInv /\ TokenInv /\ [Next]_vars => TokenInv'
<1> SUFFICES ASSUME FileInv, TokenInv, [Next]_vars PROVE TokenInv'
  OBVIOUS
<1>0. issuing \subseteq Files
  BY DEF TokenInv, OpTypes
<1>1. CASE UNCHANGED vars
  BY <1>0, <1>1, SameOps DEF vars, tokVars, fileVars
<1>2. CASE UserNext
  <2>1. ASSUME NEW f \in Files, \/ \E s \in Services : construct(s, f)
                                \/ destroy_throws(f)
                                \/ \E fd \in Fds : open(f, fd) \/ assign(f, fd)
        PROVE  TokenInv'
    BY <1>0, <2>1, SameOps
    DEF construct, destroy_throws, open, assign, tokVars, fileVars, is_open, FileInv, FileTypes
  <2>2. ASSUME NEW fd \in Fds, user_open(fd) \/ user_close(fd)
        PROVE  TokenInv'
    BY <1>0, <2>2, SameOps DEF user_open, user_close, tokVars, fileVars
  <2>3. ASSUME NEW f \in Files, cancel(f)
        PROVE  TokenInv'
    BY <1>0, <2>3, DoomOps DEF cancel, fileVars, TokenInv, OpTypes
  <2>4. ASSUME NEW f \in Files, move_assign_end(f)
        PROVE  TokenInv'
    <3>1. ~is_open(f) /\ transit[f] \in Files
      BY <2>4 DEF move_assign_end, FileInv, FileTypes, TransitOK, is_open
    <3>2. \A g \in Files \ {f, transit[f]} : handle'[g] = handle[g]
      BY <2>4 DEF move_assign_end, FileInv, FileTypes
    <3> QED
      BY <1>0, <2>4, <3>1, <3>2, DetachOps DEF move_assign_end, tokVars
  <2> QED
    BY <1>2, <2>1, <2>2, <2>3, <2>4, MoveConstructOps, MoveAssignOps, DestroyOps,
       CloseOps, AsyncInitOps DEF UserNext
<1>3. CASE OpNext
  <2>1. ASSUME NEW s \in Services, run(s) \/ run_returns(s)
        PROVE  TokenInv'
    BY <1>0, <2>1, SameOps DEF run, run_returns, tokVars, fileVars
  <2>2. ASSUME NEW o \in Ops, handler_end(o)
        PROVE  TokenInv'
    BY <2>2, RetireOps DEF handler_end, fileVars
  <2> QED
    BY <1>3, <2>1, <2>2, OpBeginOps, HandlerBeginOps, OpPerformOps DEF OpNext
<1>4. CASE ShutdownNext
  <2>1. ASSUME NEW s \in Services, \/ shutdown_begin(s) \/ shutdown_throws(s)
                                   \/ shutdown_stop(s) \/ service_destroy(s)
        PROVE  TokenInv'
    BY <1>0, <2>1, SameOps
    DEF shutdown_begin, shutdown_throws, shutdown_stop, service_destroy, tokVars, fileVars
  <2>2. ASSUME NEW s \in Services, shutdown_step(s)
        PROVE  TokenInv'
    <3>1. cursor[s] \in Files
      BY <2>2 DEF shutdown_step, FileInv, FileTypes
    <3> QED
      BY <2>2, <3>1, CloseForDestructionOps DEF shutdown_step
  <2>3. ASSUME NEW o \in Ops, drop_op(o)
        PROVE  TokenInv'
    BY <2>3, RetireOps DEF drop_op, fileVars
  <2> QED
    BY <1>4, <2>1, <2>2, <2>3 DEF ShutdownNext
<1> QED
  BY <1>1, <1>2, <1>3, <1>4 DEF Next

LEMMA TokenInvInvariant == Spec => []TokenInv
  BY InitTokenInv, NextTokenInv, FileInvInvariant, PTL DEF Spec

\* The token of a queued operation watches its own file until that file is
\* cancelled, destroyed, assigned over or shut down, and then is cancelled unless
\* close() had taken the handle from the file before.
THEOREM QueuedTokensAgreeInvariant == Spec => []QueuedTokensAgree
<1>1. TokenInv => QueuedTokensAgree
  BY DEF TokenInv
<1> QED
  BY TokenInvInvariant, <1>1, PTL

\* An operation that was queued when its file was cancelled, destroyed, assigned
\* over or shut down never performs its system call, unless the file had been
\* closed before.
THEOREM DoomedNeverRunsInvariant == Spec => []DoomedNeverRuns
<1>1. TokenInv => DoomedNeverRuns
  BY DEF TokenInv
<1> QED
  BY TokenInvInvariant, <1>1, PTL

\* An operation that a pool thread may still let through its token check has the
\* handle that its file holds now.
THEOREM LiveTokenLiveHandleInvariant == Spec => []LiveTokenLiveHandle
<1>1. TokenInv => LiveTokenLiveHandle
  <2>1. SUFFICES ASSUME TokenInv, NEW o \in Ops, opst[o] = "queued", watch[o] # {},
                        ~detached[o], ~orphaned[o]
                 PROVE  \E f \in Files : Holds(o, f)
    BY DEF LiveTokenLiveHandle, Holds
  <2>2. ~doomed[o]
    BY <2>1 DEF TokenInv, QueuedTokensAgree
  <2> QED
    BY <2>1, <2>2 DEF TokenInv, HandleHeld
<1> QED
  BY TokenInvInvariant, <1>1, PTL

-----------------------------------------------------------------------------
(* What is left of the types, and run() waiting for the operations.        *)

\* An operation in the hands of the pool holds work.
WorkInv ==
  /\ phase \in [Services -> Phases]
  /\ running \in [Services -> BOOLEAN]
  /\ terminated \in BOOLEAN
  /\ \A o \in Ops : opst[o] \in {"queued", "started", "posted"} => o \in guard

LEMMA InitWorkInv == Init => WorkInv
<1> SUFFICES ASSUME Init PROVE WorkInv
  OBVIOUS
<1>1. phase \in [Services -> Phases]
  BY DEF Init, Phases
<1>2. running \in [Services -> BOOLEAN]
  BY DEF Init
<1>3. terminated \in BOOLEAN
  BY DEF Init
<1>4. \A o \in Ops : opst[o] = "free"
  BY DEF Init
<1> QED
  BY <1>1, <1>2, <1>3, <1>4 DEF WorkInv

LEMMA NextWorkInv == TokenInv /\ WorkInv /\ [Next]_vars => WorkInv'
<1> SUFFICES ASSUME TokenInv, WorkInv, [Next]_vars PROVE WorkInv'
  OBVIOUS
<1> DEFINE Held == \A o \in Ops : opst[o] \in {"queued", "started", "posted"} => o \in guard
<1>1. CASE UNCHANGED vars
  BY <1>1 DEF vars, opVars, ctxVars, WorkInv
<1>2. CASE UserNext
  <2>1. UNCHANGED ctxVars /\ terminated' \in BOOLEAN
    BY <1>2 DEF UserNext, construct, move_construct, move_assign_begin,
       move_assign_throws, move_assign_end, destroy, destroy_throws, open, assign, close,
       cancel, user_open, user_close, async_init, WorkInv
  <2>2. CASE UNCHANGED opVars
    BY <2>1, <2>2 DEF opVars, ctxVars, WorkInv
  <2>3. ASSUME NEW o \in Ops, NEW f \in Files, async_init(o, f)
        PROVE  Held'
    BY <2>3 DEF async_init, WorkInv, TokenInv, OpTypes
  <2> QED
    BY <1>2, <2>1, <2>2, <2>3
    DEF UserNext, construct, move_construct, move_assign_begin, move_assign_throws,
        move_assign_end, destroy, destroy_throws, open, assign, close, cancel, user_open,
        user_close, ctxVars, WorkInv
<1>3. CASE OpNext
  <2>1. ASSUME NEW o \in Ops, op_begin(o)
        PROVE  WorkInv'
    BY <2>1 DEF op_begin, post_completion, ctxVars, WorkInv, TokenInv, OpTypes
  <2>2. ASSUME NEW o \in Ops, NEW result \in {"ok", "error"}, op_perform(o, result)
        PROVE  WorkInv'
    BY <2>2 DEF op_perform, post_completion, ctxVars, WorkInv, TokenInv, OpTypes
  <2>3. ASSUME NEW o \in Ops, handler_begin(o)
        PROVE  WorkInv'
    BY <2>3 DEF handler_begin, ctxVars, WorkInv, TokenInv, OpTypes
  <2>4. ASSUME NEW o \in Ops, handler_end(o)
        PROVE  WorkInv'
    BY <2>4 DEF handler_end, retire, ctxVars, WorkInv, TokenInv, OpTypes
  <2>5. ASSUME NEW s \in Services, run(s) \/ run_returns(s)
        PROVE  WorkInv'
    BY <2>5 DEF run, run_returns, opVars, WorkInv
  <2> QED
    BY <1>3, <2>1, <2>2, <2>3, <2>4, <2>5 DEF OpNext
<1>4. CASE ShutdownNext
  <2>1. ASSUME NEW s \in Services,
               \/ shutdown_begin(s) \/ shutdown_step(s) \/ shutdown_throws(s)
               \/ shutdown_stop(s) \/ service_destroy(s)
        PROVE  WorkInv'
    BY <2>1 DEF shutdown_begin, shutdown_step, shutdown_throws, shutdown_stop,
                service_destroy, opVars, ctxVars, WorkInv, Phases
  <2>2. ASSUME NEW o \in Ops, drop_op(o)
        PROVE  WorkInv'
    BY <2>2 DEF drop_op, retire, ctxVars, WorkInv, TokenInv, OpTypes
  <2> QED
    BY <1>4, <2>1, <2>2 DEF ShutdownNext
<1> QED
  BY <1>1, <1>2, <1>3, <1>4 DEF Next

LEMMA WorkInvInvariant == Spec => []WorkInv
  BY InitWorkInv, NextWorkInv, TokenInvInvariant, PTL DEF Spec

\* Every variable keeps its type.
THEOREM TypeInvariant == Spec => []TypeOK
<1>1. FileInv /\ TokenInv /\ WorkInv => TypeOK
  BY DEF FileInv, TokenInv, WorkInv, TypeOK
<1> QED
  BY FileInvInvariant, TokenInvInvariant, WorkInvInvariant, <1>1, PTL

\* run() does not return before every operation of its io_context has had its
\* handler called, whatever is done to the files meanwhile.
THEOREM RunOutlivesOpsHolds == Spec => RunOutlivesOps
<1>1. TokenInv /\ WorkInv /\ [Next]_vars =>
        [\A s \in Services : running[s] /\ ~running'[s] =>
           \A o \in Ops : opsvc[o] = s =>
             opst[o] \notin {"queued", "started", "posted", "handling"}]_vars
  <2> SUFFICES ASSUME TokenInv, WorkInv, Next, NEW s \in Services,
                      running[s], ~running'[s]
               PROVE  \A o \in Ops : opsvc[o] = s =>
                        opst[o] \notin {"queued", "started", "posted", "handling"}
    OBVIOUS
  <2>1. run_returns(s)
    <3>1. CASE UserNext
      BY <3>1 DEF UserNext, construct, move_construct, move_assign_begin,
         move_assign_throws, move_assign_end, destroy, destroy_throws, open, assign,
         close, cancel, user_open, user_close, async_init, ctxVars
    <3>2. CASE OpNext
      BY <3>2 DEF OpNext, op_begin, op_perform, handler_begin, handler_end, run,
         run_returns, ctxVars, WorkInv
    <3>3. CASE ShutdownNext
      BY <3>3 DEF ShutdownNext, shutdown_begin, shutdown_step, shutdown_throws,
         shutdown_stop, drop_op, service_destroy, ctxVars
    <3> QED
      BY <3>1, <3>2, <3>3 DEF Next
  <2> QED
    BY <2>1 DEF run_returns, HasWork, WorkInv
<1> QED
  BY TokenInvInvariant, WorkInvInvariant, <1>1, PTL DEF Spec, RunOutlivesOps

-----------------------------------------------------------------------------
(* The lists of implementations, and the walk of shutdown_service.          *)

\* The proofs about the lists, for the files' own lists.
Walks == INSTANCE ImplListProofs WITH Impls <- Files, member <- registered

\* Steps that leave the lists and the registration alone.
LEMMA SameLists ==
  ASSUME UNCHANGED <<listVars, service, transit>>
  PROVE  UNCHANGED List!vars
  BY DEF listVars, List!vars, registered

\* construct and both move operations that insert into a list.
LEMMA InsertsIntoList ==
  ASSUME FileInv, NEW s \in Services, NEW f \in Files, registered[f] = Nil,
         List!push_front(s, f), service' = [service EXCEPT ![f] = s],
         transit' = [transit EXCEPT ![f] = Nil]
  PROVE  List!Next
<1>1. registered' = [registered EXCEPT ![f] = s]
  BY DEF FileInv, FileTypes, registered
<1>2. List!Insert(s, f)
  BY <1>1 DEF List!Insert
<1> QED
  BY <1>2 DEF List!Next

\* What takes a file out of its list: destruction and move-assignment from a
\* file of another service.
LEMMA RemovesFromList ==
  ASSUME FileInv, NEW f \in Files, service[f] \in Services, transit[f] = Nil,
         List!unlink(service[f], f),
         registered' = [registered EXCEPT ![f] = Nil]
  PROVE  List!Next
<1>1. registered[f] = service[f]
  BY DEF registered
<1>2. List!Remove(service[f], f)
  BY <1>1 DEF List!Remove
<1> QED
  BY <1>2 DEF List!Next

LEMMA StepUsesLists == FileInv /\ [Next]_vars => [List!Next]_(List!vars)
<1> SUFFICES ASSUME FileInv, [Next]_vars PROVE [List!Next]_(List!vars)
  OBVIOUS
<1> USE ServiceAssumption
<1>1. ASSUME NEW s \in Services, NEW f \in Files, construct(s, f)
      PROVE  List!Next
  <2>1. transit[f] = Nil /\ service[f] = Nil
    BY <1>1 DEF construct, Alive, FileInv, TransitOK
  <2>2. registered[f] = Nil /\ transit' = [transit EXCEPT ![f] = Nil]
    BY <1>1, <2>1 DEF construct, registered, FileInv, FileTypes
  <2> QED
    BY <1>1, <2>2, InsertsIntoList DEF construct
<1>2. ASSUME NEW f \in Files, NEW other \in Files, move_construct(f, other)
      PROVE  List!Next
  <2>1. transit[f] = Nil /\ service[f] = Nil /\ service[other] \in Services
    BY <1>2 DEF move_construct, Usable, Alive, FileInv, FileTypes, TransitOK
  <2>2. registered[f] = Nil /\ transit' = [transit EXCEPT ![f] = Nil]
    BY <1>2, <2>1 DEF move_construct, registered, FileInv, FileTypes
  <2> QED
    BY <1>2, <2>1, <2>2, InsertsIntoList DEF move_construct
<1>3. ASSUME NEW f \in Files, move_assign_end(f)
      PROVE  List!Next
  <2>1. transit[f] \in Files /\ service[transit[f]] \in Services
    BY <1>3 DEF move_assign_end, FileInv, FileTypes, TransitOK
  <2>2. registered[f] = Nil
    BY <1>3 DEF move_assign_end, registered
  <2> QED
    BY <1>3, <2>1, <2>2, InsertsIntoList DEF move_assign_end
<1>4. ASSUME NEW f \in Files, NEW other \in Files, move_assign_begin(f, other),
             service[f] # service[other]
      PROVE  List!Next
  <2>1. transit[f] = Nil /\ service[f] \in Services
    BY <1>4 DEF move_assign_begin, Usable, Alive, InTransit, FileInv, FileTypes
  <2>2. service' = service /\ transit' = [transit EXCEPT ![f] = other]
    BY <1>4 DEF move_assign_begin
  <2>3. registered' = [registered EXCEPT ![f] = Nil]
    BY <2>2 DEF registered, FileInv, FileTypes
  <2> QED
    BY <1>4, <2>1, <2>3, RemovesFromList DEF move_assign_begin
<1>5. ASSUME NEW f \in Files, destroy(f)
      PROVE  List!Next
  <2>1. transit[f] = Nil /\ service[f] \in Services
    BY <1>5 DEF destroy, Alive, InTransit, FileInv, FileTypes
  <2>2. registered' = [registered EXCEPT ![f] = Nil]
    BY <1>5, <2>1 DEF destroy, registered, FileInv, FileTypes
  <2> QED
    BY <1>5, <2>1, <2>2, RemovesFromList DEF destroy
<1>6. CASE UNCHANGED vars
  BY <1>6, SameLists DEF vars, fileVars
<1>7. CASE UserNext
  <2>1. ASSUME NEW f \in Files, NEW other \in Files,
               \/ move_assign_begin(f, other) /\ service[f] = service[other]
               \/ move_assign_throws(f, other)
        PROVE  UNCHANGED List!vars
    BY <2>1, SameLists DEF move_assign_begin, move_assign_throws
  <2>2. ASSUME NEW f \in Files,
               \/ destroy_throws(f) \/ close(f) \/ cancel(f)
               \/ \E fd \in Fds : open(f, fd) \/ assign(f, fd)
               \/ \E o \in Ops : async_init(o, f)
        PROVE  UNCHANGED List!vars
    BY <2>2, SameLists
    DEF destroy_throws, close, cancel, open, assign, async_init, fileVars
  <2>3. ASSUME NEW fd \in Fds, user_open(fd) \/ user_close(fd)
        PROVE  UNCHANGED List!vars
    BY <2>3, SameLists DEF user_open, user_close, fileVars
  <2> QED
    BY <1>1, <1>2, <1>3, <1>4, <1>5, <1>7, <2>1, <2>2, <2>3 DEF UserNext
<1>8. CASE OpNext
  BY <1>8, SameLists
  DEF OpNext, op_begin, op_perform, handler_begin, handler_end, run, run_returns, fileVars
<1>9. CASE ShutdownNext
  BY <1>9, SameLists
  DEF ShutdownNext, shutdown_begin, shutdown_step, shutdown_throws, shutdown_stop,
      drop_op, service_destroy, fileVars
<1> QED
  BY <1>6, <1>7, <1>8, <1>9 DEF Next

\* Files enter and leave the lists of implementations only by the insertions
\* and removals of ImplList, each into and out of the list of the service it
\* belongs to then, so what is proved of those lists holds of these.
THEOREM UsesListsHolds == Spec => UsesLists
<1>1. Init => List!Init
  BY ServiceAssumption DEF Init, List!Init, registered
<1> QED
  BY <1>1, StepUsesLists, FileInvInvariant, PTL DEF Spec, UsesLists, List!Spec

\* What is proved about the lists holds of the files' lists.
LEMMA ListsLinked ==
  Spec => [](Walks!LinkInv /\ Walks!WalkVisitsAll)
<1>1. Nil \notin Files /\ Nil \notin Services
  BY ServiceAssumption
<1>2. UsesLists => Walks!Spec
  BY DEF UsesLists, List!Spec, Walks!Spec, List!Init, Walks!Init, List!Next, Walks!Next,
     List!vars, Walks!vars, List!Insert, Walks!Insert, List!Remove, Walks!Remove,
     List!push_front, Walks!push_front, List!unlink, Walks!unlink
<1>3. Walks!Spec => []Walks!LinkInv
  BY <1>1, Walks!LinkInvInvariant
<1>4. Walks!Spec => []Walks!WalkVisitsAll
  BY <1>1, Walks!WalkVisitsAllInvariant
<1> QED
  BY UsesListsHolds, <1>2, <1>3, <1>4, PTL

-----------------------------------------------------------------------------
(* The walk of shutdown_service.                                            *)

\* The files that shutdown_service of s finds in its list.
Members(s) == {f \in Files : registered[f] = s}

\* R holds everything the rest of the walk of s's list visits.
RestOfWalk(s, R) ==
  /\ cursor[s] # Nil => cursor[s] \in R
  /\ \A f \in R : next[f] # Nil => next[f] \in R

\* Once a shutdown has begun nobody is half-way through moving a file of s;
\* while it goes on, each file that is still open is ahead of the cursor;
\* after it, no file is open.
ShutdownOK(s) ==
  /\ phase[s] # "up" => \A f \in Files : service[f] = s => ~InTransit(f)
  /\ phase[s] = "closing" =>
       /\ cursor[s] \in Members(s) \cup {Nil}
       /\ \A R \in SUBSET Members(s) :
            RestOfWalk(s, R) => \A f \in Members(s) : is_open(f) => f \in R
  /\ phase[s] \in {"stopped", "destroyed"} =>
       \A f \in Files : service[f] = s => ~is_open(f)

ShutdownInv == \A s \in Services : ShutdownOK(s)

LEMMA InitShutdownInv == Init => ShutdownInv
  BY DEF Init, ShutdownInv, ShutdownOK

\* Steps that leave s's shutdown and s's files alone: whatever happens to the
\* files of other services, s's part of the pointers stays as it is.
LEMMA ShutdownFrame ==
  ASSUME ShutdownInv, NEW s \in Services, phase[s] # "up",
         phase'[s] = phase[s], cursor'[s] = cursor[s],
         \A f \in Files : service'[f] = s => service[f] = s,
         \A f \in Files : service[f] = s =>
           /\ (is_open(f))' => is_open(f)
           /\ ~InTransit(f)',
         phase[s] = "closing" =>
           /\ Members(s)' = Members(s)
           /\ \A f \in Members(s) : next'[f] = next[f]
  PROVE  ShutdownOK(s)'
<1>1. ShutdownOK(s)
  BY DEF ShutdownInv
<1>2. CASE phase[s] = "closing"
  <2>1. ASSUME NEW R \in SUBSET Members(s)', RestOfWalk(s, R)'
        PROVE  \A f \in Members(s)' : (is_open(f))' => f \in R
    <3>1. RestOfWalk(s, R)
      BY <1>2, <2>1 DEF RestOfWalk
    <3>2. \A f \in Members(s) : is_open(f) => f \in R
      BY <1>1, <1>2, <2>1, <3>1 DEF ShutdownOK
    <3>3. \A f \in Members(s) : f \in Files /\ service[f] = s
      BY ServiceAssumption DEF Members, registered
    <3> QED
      BY <1>2, <3>2, <3>3
  <2> QED
    BY <1>1, <1>2, <2>1 DEF ShutdownOK
<1>3. CASE phase[s] # "closing"
  BY <1>1, <1>3 DEF ShutdownOK
<1> QED
  BY <1>2, <1>3

\* A step on the list of another service t changes none of s's pointers.
LEMMA OtherListsNext ==
  ASSUME Walks!LinkInv, NEW s \in Services, NEW t \in Services, s # t, NEW f \in Files,
         \/ List!push_front(t, f) /\ registered[f] = Nil
         \/ List!unlink(t, f) /\ registered[f] = t
  PROVE  \A g \in Members(s) : next'[g] = next[g]
  BY ServiceAssumption
  DEF Walks!LinkInv, Walks!TypeOK, Walks!WellLinked, List!push_front, List!unlink, Members

\* Steps that touch neither the lists nor the services' lives.
LEMMA SameShutdown ==
  ASSUME ShutdownInv, UNCHANGED <<service, transit, next, phase, cursor>>,
         \A f \in Files : (is_open(f))' => is_open(f) \/ phase[service[f]] = "up"
  PROVE  ShutdownInv'
<1> SUFFICES ASSUME NEW s \in Services PROVE ShutdownOK(s)'
  BY DEF ShutdownInv
<1>1. CASE phase[s] = "up"
  BY <1>1 DEF ShutdownOK
<1>2. CASE phase[s] # "up"
  <2>1. Members(s)' = Members(s)
    BY DEF Members, registered
  <2>2. \A f \in Files : service[f] = s => ~InTransit(f)'
    BY <1>2 DEF ShutdownInv, ShutdownOK, InTransit
  <2> QED
    BY <1>2, <2>1, <2>2, ShutdownFrame
<1> QED
  BY <1>1, <1>2

\* Files come and go, move and are assigned only in services that are up,
\* or are destroyed in one that has been shut down.
LEMMA RegistrationShutdown ==
  ASSUME FileInv, Walks!LinkInv, ShutdownInv, UNCHANGED <<phase, cursor>>,
         NEW t \in Services, phase[t] \in {"up", "stopped"}, NEW f \in Files,
         \/ List!push_front(t, f) /\ registered[f] = Nil
         \/ List!unlink(t, f) /\ registered[f] = t,
         \A g \in Files \ {f} : UNCHANGED <<service[g], transit[g]>>,
         service[f] \in {Nil, t} \/ phase[service[f]] = "up",
         service'[f] = Nil \/ phase[service'[f]] = "up",
         \A g \in Files : (is_open(g))' => is_open(g) \/ phase[service'[g]] = "up",
         transit'[f] # Nil => transit'[f] \in Files /\ phase[service[transit'[f]]] = "up"
  PROVE  ShutdownInv'
<1> SUFFICES ASSUME NEW s \in Services PROVE ShutdownOK(s)'
  BY DEF ShutdownInv
<1>1. CASE phase[s] = "up"
  BY <1>1 DEF ShutdownOK
<1>2. CASE phase[s] # "up"
  <2>1. service'[f] # s
    BY <1>2, ServiceAssumption
  <2>2. \A g \in Files : service'[g] = s => g # f /\ service[g] = s
    BY <2>1
  <2>3. \A g \in Files : service[g] = s => ~InTransit(g)
    BY <1>2 DEF ShutdownInv, ShutdownOK
  <2>4. \A g \in Files : service'[g] = s => ~InTransit(g)' /\ ((is_open(g))' => is_open(g))
    BY <1>2, <2>2, <2>3 DEF InTransit
  <2>5. CASE phase[s] = "closing"
    <3>1. s # t
      BY <2>5
    <3>2. \A g \in Members(s) : next'[g] = next[g]
      BY <3>1, OtherListsNext
    <3>3. service[f] # s
      BY <2>5, <3>1, ServiceAssumption
    <3>4. Members(s)' = Members(s)
      BY <2>2, <3>3, ServiceAssumption DEF Members, registered
    <3> QED
      BY <1>2, <2>2, <2>4, <2>5, <3>2, <3>3, <3>4, ShutdownFrame
  <2>6. CASE phase[s] # "closing"
    BY <1>2, <2>2, <2>4, <2>6 DEF ShutdownInv, ShutdownOK
  <2> QED
    BY <2>5, <2>6
<1> QED
  BY <1>1, <1>2

\* The walk starts at the head of the list, moves on along next_, and ends.
LEMMA WalkShutdown ==
  ASSUME FileInv, Walks!LinkInv, Walks!WalkVisitsAll,
         ShutdownInv, phase \in [Services -> Phases], NEW s \in Services,
         shutdown_begin(s) \/ shutdown_step(s) \/ shutdown_stop(s) \/ service_destroy(s)
  PROVE  ShutdownInv'
<1> USE ServiceAssumption
<1>1. UNCHANGED <<service, transit, next>>
  BY DEF shutdown_begin, shutdown_step, shutdown_stop, service_destroy, fileVars, listVars
<1>2. \A t \in Services \ {s} : phase'[t] = phase[t] /\ cursor'[t] = cursor[t]
  BY DEF shutdown_begin, shutdown_step, shutdown_stop, service_destroy, FileInv, FileTypes
<1>3. \A f \in Files : (is_open(f))' => is_open(f)
  BY DEF shutdown_begin, shutdown_step, shutdown_stop, service_destroy, fileVars,
         close_for_destruction, is_open, FileInv, FileTypes
<1>4. \A t \in Services : Members(t)' = Members(t)
  BY <1>1 DEF Members, registered
<1>5. \A f \in Files : InTransit(f)' = InTransit(f)
  BY <1>1 DEF InTransit
<1>6. ASSUME NEW t \in Services \ {s} PROVE ShutdownOK(t)'
  <2>1. CASE phase[t] = "up"
    BY <1>2, <2>1 DEF ShutdownOK
  <2>2. CASE phase[t] # "up"
    <3>1. \A f \in Files : service[f] = t => ~InTransit(f)'
      BY <1>5, <2>2 DEF ShutdownInv, ShutdownOK
    <3> QED
      BY <1>1, <1>2, <1>3, <1>4, <2>2, <3>1, ShutdownFrame
  <2> QED
    BY <2>1, <2>2
<1>7. ShutdownOK(s)'
  <2>1. CASE shutdown_begin(s)
    <3>1. \A f \in Files : service'[f] = s => ~InTransit(f)'
      BY <1>1, <1>5, <2>1 DEF shutdown_begin
    <3>2. phase'[s] = "closing" /\ cursor'[s] = impl_list[s]
      BY <2>1 DEF shutdown_begin, FileInv, FileTypes
    <3>3. cursor'[s] \in Members(s) \cup {Nil}
      BY <3>2 DEF Walks!LinkInv, Walks!TypeOK, Walks!WellLinked, Members
    <3>4. ASSUME NEW R \in SUBSET Members(s), RestOfWalk(s, R)' PROVE Members(s) \subseteq R
      BY <1>1, <3>2, <3>4 DEF RestOfWalk, Walks!WalkVisitsAll, Walks!ClosedUnderNext, Members
    <3> QED
      BY <1>4, <3>1, <3>2, <3>3, <3>4 DEF ShutdownOK
  <2>2. CASE shutdown_step(s)
    <3> DEFINE c == cursor[s]
    <3>1. phase[s] = "closing" /\ phase'[s] = "closing" /\ c # Nil /\ cursor'[s] = next[c]
      BY <2>2 DEF shutdown_step, FileInv, FileTypes
    <3>2. c \in Members(s)
      BY <3>1 DEF ShutdownInv, ShutdownOK
    <3>3. next[c] \in Members(s) \cup {Nil}
      BY <3>2 DEF Walks!LinkInv, Walks!TypeOK, Walks!WellLinked, Members
    <3>4. handle'[c] = Closed
      BY <2>2, <3>2 DEF shutdown_step, close_for_destruction, FileInv, FileTypes,
                        Members
    <3>5. ASSUME NEW R \in SUBSET Members(s), RestOfWalk(s, R)'
          PROVE  \A f \in Members(s) : (is_open(f))' => f \in R
      <4>1. RestOfWalk(s, R \cup {c})
        BY <1>1, <3>1, <3>5 DEF RestOfWalk
      <4>2. \A f \in Members(s) : is_open(f) => f \in R \cup {c}
        BY <3>1, <3>2, <4>1 DEF ShutdownInv, ShutdownOK
      <4> QED
        BY <1>3, <3>4, <4>2 DEF Members, is_open
    <3>6. \A f \in Files : service'[f] = s => ~InTransit(f)'
      BY <1>1, <1>5, <3>1 DEF ShutdownInv, ShutdownOK
    <3> QED
      BY <1>4, <3>1, <3>3, <3>5, <3>6 DEF ShutdownOK
  <2>3. CASE shutdown_stop(s)
    <3>1. phase[s] = "closing" /\ phase'[s] = "stopped" /\ cursor[s] = Nil
      BY <2>3 DEF shutdown_stop
    <3>2. RestOfWalk(s, {})
      BY <3>1 DEF RestOfWalk
    <3>3. \A f \in Members(s) : ~is_open(f)
      BY <3>1, <3>2 DEF ShutdownInv, ShutdownOK
    <3>4. \A f \in Files : service[f] = s => ~InTransit(f) /\ f \in Members(s)
      BY <3>1 DEF ShutdownInv, ShutdownOK, Members, registered, InTransit
    <3> QED
      BY <1>1, <1>3, <1>5, <3>1, <3>3, <3>4 DEF ShutdownOK
  <2>4. CASE service_destroy(s)
    BY <1>1, <2>4 DEF service_destroy, ShutdownOK
  <2> QED
    BY <2>1, <2>2, <2>3, <2>4
<1> QED
  BY <1>6, <1>7 DEF ShutdownInv

LEMMA NextShutdownInv ==
  ASSUME FileInv, Walks!LinkInv, Walks!WalkVisitsAll,
         ShutdownInv, phase \in [Services -> Phases], [Next]_vars
  PROVE  ShutdownInv'
<1> USE ServiceAssumption
<1>1. CASE UNCHANGED vars
  BY <1>1, SameShutdown DEF vars, fileVars, listVars, ctxVars, is_open
<1>2. CASE UserNext
  <2>1. ASSUME NEW s \in Services, NEW f \in Files, construct(s, f)
        PROVE  ShutdownInv'
    <3>1. registered[f] = Nil /\ service[f] = Nil /\ phase[s] = "up"
      BY <2>1 DEF construct, Alive, registered, FileInv, TransitOK
    <3>2. /\ transit' = transit /\ transit[f] = Nil
          /\ service'[f] = s
          /\ \A g \in Files \ {f} : service'[g] = service[g]
          /\ UNCHANGED <<phase, cursor, handle>>
          /\ List!push_front(s, f)
      BY <2>1 DEF construct, Alive, ctxVars, FileInv, FileTypes, TransitOK
    <3>3. \A g \in Files : (is_open(g))' => is_open(g)
      BY <3>2 DEF is_open
    <3> QED
      BY <3>1, <3>2, <3>3, RegistrationShutdown
  <2>2. ASSUME NEW f \in Files, NEW other \in Files, move_construct(f, other)
        PROVE  ShutdownInv'
    <3>1. service[f] = Nil /\ service[other] \in Services /\ phase[service[other]] = "up"
          /\ transit[f] = Nil
      BY <2>2 DEF move_construct, Usable, Alive, FileInv, FileTypes, TransitOK
    <3>2. registered[f] = Nil
      BY <3>1 DEF registered
    <3>3. /\ transit' = transit
          /\ service'[f] = service[other]
          /\ \A g \in Files \ {f} : service'[g] = service[g]
          /\ UNCHANGED <<phase, cursor>>
          /\ List!push_front(service[other], f)
      BY <2>2 DEF move_construct, ctxVars, FileInv, FileTypes
    <3>4. \A g \in Files : (is_open(g))' => is_open(g) \/ g = f
      BY <2>2 DEF move_construct, is_open, FileInv, FileTypes
    <3> QED
      BY <3>1, <3>2, <3>3, <3>4, RegistrationShutdown
  <2>3. ASSUME NEW f \in Files, NEW other \in Files, move_assign_begin(f, other)
        PROVE  ShutdownInv'
    <3>1. /\ service[f] \in Services /\ service[other] \in Services
          /\ phase[service[f]] = "up" /\ phase[service[other]] = "up"
          /\ transit[f] = Nil /\ UNCHANGED <<service, phase, cursor>>
      BY <2>3 DEF move_assign_begin, Usable, Alive, InTransit, ctxVars, FileInv, FileTypes
    <3>2. \A g \in Files : (is_open(g))' => is_open(g) \/ g = f
      BY <2>3 DEF move_assign_begin, close_for_destruction, is_open, FileInv, FileTypes
    <3>3. CASE service[f] = service[other]
      BY <2>3, <3>1, <3>2, <3>3, SameShutdown DEF move_assign_begin, listVars
    <3>4. CASE service[f] # service[other]
      <4>1. /\ List!unlink(service[f], f) /\ registered[f] = service[f]
            /\ transit'[f] = other
            /\ \A g \in Files \ {f} : transit'[g] = transit[g]
        BY <2>3, <3>1, <3>4 DEF move_assign_begin, registered, FileInv, FileTypes
      <4> QED
        BY <3>1, <3>2, <4>1, RegistrationShutdown
    <3> QED
      BY <3>3, <3>4
  <2>4. ASSUME NEW f \in Files, NEW other \in Files, move_assign_throws(f, other)
        PROVE  ShutdownInv'
    <3>1. \A g \in Files : (is_open(g))' => is_open(g)
      BY <2>4 DEF move_assign_throws, close_for_destruction, is_open, FileInv, FileTypes
    <3> QED
      BY <2>4, <3>1, SameShutdown DEF move_assign_throws, listVars, ctxVars
  <2>5. ASSUME NEW f \in Files, move_assign_end(f)
        PROVE  ShutdownInv'
    <3> DEFINE other == transit[f]
    <3>1. /\ other \in Files /\ service[other] \in Services /\ service[f] \in Services
          /\ registered[f] = Nil /\ InTransit(f) /\ InTransit(other)
      BY <2>5 DEF move_assign_end, registered, FileInv, FileTypes, TransitOK, InTransit
    <3>2. phase[service[other]] = "up" /\ phase[service[f]] = "up"
      BY <3>1 DEF ShutdownInv, ShutdownOK
    <3>3. /\ transit'[f] = Nil
          /\ service'[f] = service[other]
          /\ \A g \in Files \ {f} : service'[g] = service[g] /\ transit'[g] = transit[g]
          /\ UNCHANGED <<phase, cursor>>
          /\ List!push_front(service[other], f)
      BY <2>5 DEF move_assign_end, ctxVars, FileInv, FileTypes
    <3>4. \A g \in Files : (is_open(g))' => is_open(g) \/ g = f
      BY <2>5 DEF move_assign_end, is_open, FileInv, FileTypes
    <3> HIDE DEF other
    <3> QED
      BY <3>1, <3>2, <3>3, <3>4, RegistrationShutdown
  <2>6. ASSUME NEW f \in Files, destroy(f)
        PROVE  ShutdownInv'
    <3>1. /\ service[f] \in Services /\ phase[service[f]] \in {"up", "stopped"}
          /\ transit[f] = Nil /\ registered[f] = service[f]
      BY <2>6 DEF destroy, Alive, InTransit, registered, FileInv, FileTypes
    <3>2. /\ transit' = transit
          /\ service'[f] = Nil
          /\ \A g \in Files \ {f} : service'[g] = service[g]
          /\ UNCHANGED <<phase, cursor>>
          /\ List!unlink(service[f], f)
      BY <2>6 DEF destroy, ctxVars, FileInv, FileTypes
    <3>3. \A g \in Files : (is_open(g))' => is_open(g)
      BY <2>6 DEF destroy, is_open, FileInv, FileTypes
    <3> QED
      BY <3>1, <3>2, <3>3, RegistrationShutdown
  <2>7. ASSUME NEW f \in Files,
               \/ destroy_throws(f) \/ close(f) \/ cancel(f)
               \/ \E fd \in Fds : open(f, fd) \/ assign(f, fd)
               \/ \E o \in Ops : async_init(o, f)
        PROVE  ShutdownInv'
    <3>1. /\ UNCHANGED <<service, transit, next, phase, cursor>>
          /\ \A g \in Files : (is_open(g))' => is_open(g) \/ phase[service[g]] = "up"
      BY <2>7 DEF destroy_throws, close, cancel, open, assign, async_init, fileVars,
                  listVars, ctxVars, is_open, Usable, FileInv, FileTypes
    <3> QED
      BY <3>1, SameShutdown
  <2>8. ASSUME NEW fd \in Fds, user_open(fd) \/ user_close(fd)
        PROVE  ShutdownInv'
    BY <2>8, SameShutdown DEF user_open, user_close, fileVars, listVars, ctxVars, is_open
  <2> QED
    BY <1>2, <2>1, <2>2, <2>3, <2>4, <2>5, <2>6, <2>7, <2>8 DEF UserNext
<1>3. CASE OpNext
  <2>1. UNCHANGED <<fileVars, listVars, phase, cursor>>
    BY <1>3 DEF OpNext, op_begin, op_perform, handler_begin, handler_end, run,
                run_returns, ctxVars
  <2> QED
    BY <2>1, SameShutdown DEF fileVars, listVars, is_open
<1>4. CASE ShutdownNext
  <2>1. ASSUME NEW s \in Services, shutdown_throws(s)
        PROVE  ShutdownInv'
    BY <2>1, SameShutdown DEF shutdown_throws, fileVars, listVars, ctxVars, is_open
  <2>2. ASSUME NEW o \in Ops, drop_op(o)
        PROVE  ShutdownInv'
    BY <2>2, SameShutdown DEF drop_op, fileVars, listVars, is_open
  <2> QED
    BY <1>4, <2>1, <2>2, WalkShutdown DEF ShutdownNext
<1> QED
  BY <1>1, <1>2, <1>3, <1>4 DEF Next

LEMMA ShutdownInvInvariant == Spec => []ShutdownInv
<1>1. WorkInv => phase \in [Services -> Phases]
  BY DEF WorkInv
<1>2. FileInv /\ WorkInv /\ Walks!LinkInv /\ Walks!WalkVisitsAll
        /\ ShutdownInv /\ [Next]_vars => ShutdownInv'
  BY <1>1, NextShutdownInv
<1> QED
  BY <1>2, InitShutdownInv, FileInvInvariant, WorkInvInvariant, ListsLinked, PTL DEF Spec

\* shutdown_service closes every file of its service, however many there are
\* and however they were constructed, moved, assigned across services and
\* destroyed before, and whatever the files of other services do meanwhile.
THEOREM ShutdownClosesAllInvariant == Spec => []ShutdownClosesAll
<1>1. ShutdownInv => ShutdownClosesAll
  BY DEF ShutdownInv, ShutdownOK, ShutdownClosesAll
<1> QED
  BY <1>1, ShutdownInvInvariant, PTL

-----------------------------------------------------------------------------
(* The files' token sources and the operations' tokens.                     *)

\* Only a file that is alive issues tokens or is watched, and an operation that
\* has given its token up watches nothing.
WatchInv ==
  /\ \A f \in issuing : service[f] # Nil
  /\ \A o \in Ops : \A f \in watch[o] : service[f] # Nil
  /\ \A o \in Ops : opst[o] \notin {"queued", "started"} => watch[o] = {}

LEMMA InitWatchInv == Init => WatchInv
  BY DEF Init, WatchInv

\* Steps that touch neither token sources nor tokens.
LEMMA SameTokens ==
  ASSUME WatchInv, UNCHANGED <<opst, issuing, watch>>,
         \A f \in Files : (service[f] = Nil) = (service'[f] = Nil), TokenInv
  PROVE  WatchInv' /\ UNCHANGED Tok!vars
<1>1. UNCHANGED Tok!vars
  BY DEF Tok!vars
<1>2. WatchInv'
  BY DEF WatchInv, TokenInv, OpTypes
<1> QED
  BY <1>1, <1>2

LEMMA ReleaseTokens ==
  ASSUME FileInv, TokenInv, WatchInv, NEW f \in Files, service[f] # Nil, release_handle(f),
         UNCHANGED <<opst, service>>
  PROVE  WatchInv' /\ [Tok!Next]_(Tok!vars)
<1>1. CASE ~is_open(f)
  BY <1>1, SameTokens DEF release_handle, tokVars
<1>2. CASE is_open(f)
  <2>1. WatchInv'
    BY <1>2 DEF release_handle, Tok!WithoutWatchers, WatchInv, TokenInv, OpTypes
  <2>2. Tok!Destroy(f)
    BY <1>2 DEF release_handle, Tok!Destroy
  <2> QED
    BY <2>1, <2>2 DEF Tok!Next
<1> QED
  BY <1>1, <1>2

\* The operation o gives its token up.
LEMMA DropTokens ==
  ASSUME TokenInv, WatchInv, NEW o \in Ops, opst[o] \in {"queued", "started"},
         NEW state \in OpStates \ {"queued", "started"},
         opst' = [opst EXCEPT ![o] = state], watch' = [watch EXCEPT ![o] = {}],
         UNCHANGED <<service, issuing>>
  PROVE  WatchInv' /\ Tok!Next
<1>1. WatchInv'
  BY DEF WatchInv, TokenInv, OpTypes
<1>2. {p \in Ops : opst'[p] \in {"queued", "started"}}
        = {p \in Ops : opst[p] \in {"queued", "started"}} \ {o}
  BY DEF TokenInv, OpTypes
<1>3. Tok!DropToken(o)
  BY <1>2 DEF Tok!DropToken
<1> QED
  BY <1>1, <1>3 DEF Tok!Next

\* The operation o goes on, keeping its token or still without one.
LEMMA TokenKept ==
  ASSUME TokenInv, WatchInv, NEW o \in Ops, NEW state, opst' = [opst EXCEPT ![o] = state],
         \/ /\ {opst[o], state} \subseteq {"queued", "started"}
            /\ watch' = watch
         \/ /\ {opst[o], state} \cap {"queued", "started"} = {}
            /\ watch' = watch \/ watch' = [watch EXCEPT ![o] = {}],
         UNCHANGED <<service, issuing>>
  PROVE  WatchInv' /\ UNCHANGED Tok!vars
<1>1. watch' = watch
  BY DEF WatchInv, TokenInv, OpTypes
<1>2. {p \in Ops : opst'[p] \in {"queued", "started"}}
        = {p \in Ops : opst[p] \in {"queued", "started"}}
  BY DEF TokenInv, OpTypes
<1>3. WatchInv'
  BY <1>1, <1>2 DEF WatchInv, TokenInv, OpTypes
<1> QED
  BY <1>1, <1>2, <1>3 DEF Tok!vars

LEMMA UserTokens ==
  ASSUME FileInv, TokenInv, WatchInv, UserNext
  PROVE  WatchInv' /\ [Tok!Next]_(Tok!vars)
<1> USE ServiceAssumption
<1>1. ASSUME NEW s \in Services, NEW f \in Files, construct(s, f)
      PROVE  WatchInv' /\ Tok!Next
  <2>1. WatchInv'
    BY <1>1 DEF construct, Alive, opVars, WatchInv, FileInv, FileTypes, TokenInv, OpTypes
  <2>2. {g \in Files : service'[g] # Nil} = {g \in Files : service[g] # Nil} \cup {f}
    BY <1>1 DEF construct, FileInv, FileTypes
  <2>3. Tok!Construct(f)
    BY <1>1, <2>2 DEF construct, Alive, opVars, Tok!Construct
  <2> QED
    BY <2>1, <2>3 DEF Tok!Next
<1>2. ASSUME NEW f \in Files, NEW other \in Files, move_construct(f, other)
      PROVE  WatchInv' /\ Tok!Next
  <2>1. service[f] = Nil /\ service[other] \in Services /\ f # other
    BY <1>2 DEF move_construct, Usable, Alive, FileInv, FileTypes
  <2>2. WatchInv'
    BY <1>2, <2>1 DEF move_construct, opVars, WatchInv, FileInv, FileTypes, TokenInv, OpTypes
  <2>3. {g \in Files : service'[g] # Nil} = {g \in Files : service[g] # Nil} \cup {f}
    BY <1>2, <2>1 DEF move_construct, FileInv, FileTypes
  <2>4. f \notin issuing /\ \A o \in Ops : watch[o] \ {f} = watch[o]
    BY <2>1 DEF WatchInv
  <2>5. issuing' = (issuing \ {f, other}) \cup {x \in {f} : other \in issuing}
    BY <1>2, <2>4 DEF move_construct
  <2>6. watch' = [o \in Ops |-> IF other \in watch[o] THEN {f} ELSE watch[o] \ {f}]
    BY <1>2, <2>4 DEF move_construct
  <2>7. Tok!Move(f, other)
    BY <1>2, <2>1, <2>3, <2>5, <2>6 DEF move_construct, opVars, Tok!Move
  <2> QED
    BY <2>2, <2>7 DEF Tok!Next
<1>3. ASSUME NEW f \in Files, NEW other \in Files,
             move_assign_begin(f, other) \/ move_assign_throws(f, other)
      PROVE  WatchInv' /\ [Tok!Next]_(Tok!vars)
  <2>1. service[f] # Nil /\ release_handle(f) /\ UNCHANGED <<opst, service>>
    BY <1>3 DEF move_assign_begin, move_assign_throws, close_for_destruction, Usable,
                Alive, opVars
  <2> QED
    BY <2>1, ReleaseTokens
<1>4. ASSUME NEW f \in Files, move_assign_end(f)
      PROVE  WatchInv' /\ UNCHANGED Tok!vars
  <2>1. service[f] # Nil /\ service[transit[f]] # Nil
    BY <1>4 DEF move_assign_end, FileInv, TransitOK
  <2>2. \A g \in Files : (service[g] = Nil) = (service'[g] = Nil)
    BY <1>4, <2>1 DEF move_assign_end, FileInv, FileTypes
  <2> QED
    BY <1>4, <2>2, SameTokens DEF move_assign_end, tokVars, opVars
<1>5. ASSUME NEW f \in Files, destroy(f)
      PROVE  WatchInv' /\ Tok!Next
  <2>1. WatchInv'
    BY <1>5 DEF destroy, Tok!WithoutWatchers, opVars, WatchInv, FileInv, FileTypes,
                TokenInv, OpTypes
  <2>2. {g \in Files : service'[g] # Nil} = {g \in Files : service[g] # Nil} \ {f}
    BY <1>5 DEF destroy, FileInv, FileTypes
  <2>3. Tok!Destruct(f)
    BY <1>5, <2>2 DEF destroy, Alive, opVars, Tok!Destruct
  <2> QED
    BY <2>1, <2>3 DEF Tok!Next
<1>6. ASSUME NEW f \in Files, cancel(f)
      PROVE  WatchInv' /\ Tok!Next
  <2>1. service[f] # Nil /\ UNCHANGED <<opst, service>>
    BY <1>6 DEF cancel, Usable, Alive, opVars, fileVars
  <2>2. WatchInv'
    BY <1>6, <2>1 DEF cancel, Tok!WithoutWatchers, WatchInv, TokenInv, OpTypes
  <2>3. Tok!Cancel(f)
    BY <1>6, <2>1 DEF cancel, Tok!Cancel
  <2> QED
    BY <2>2, <2>3 DEF Tok!Next
<1>7. ASSUME NEW o \in Ops, NEW f \in Files, async_init(o, f)
      PROVE  WatchInv' /\ Tok!Next
  <2>1. /\ opst[o] = "free" /\ opst' = [opst EXCEPT ![o] = "queued"]
        /\ service[f] # Nil /\ UNCHANGED <<service, issuing>>
        /\ watch' = [watch EXCEPT ![o] = {x \in {f} : f \in issuing}]
    BY <1>7 DEF async_init, Usable, Alive, fileVars
  <2>2. WatchInv'
    BY <2>1 DEF WatchInv, TokenInv, OpTypes
  <2>3. {p \in Ops : opst'[p] \in {"queued", "started"}}
          = {p \in Ops : opst[p] \in {"queued", "started"}} \cup {o}
    BY <2>1 DEF TokenInv, OpTypes
  <2>4. Tok!Issue(o, f)
    BY <2>1, <2>3 DEF Tok!Issue
  <2> QED
    BY <2>2, <2>4 DEF Tok!Next
<1>8. ASSUME NEW f \in Files,
             \/ destroy_throws(f) \/ close(f)
             \/ \E fd \in Fds : open(f, fd) \/ assign(f, fd)
      PROVE  WatchInv' /\ UNCHANGED Tok!vars
  BY <1>8, SameTokens DEF destroy_throws, close, open, assign, tokVars, opVars, fileVars
<1>9. ASSUME NEW fd \in Fds, user_open(fd) \/ user_close(fd)
      PROVE  WatchInv' /\ UNCHANGED Tok!vars
  BY <1>9, SameTokens DEF user_open, user_close, tokVars, opVars, fileVars
<1> QED
  BY <1>1, <1>2, <1>3, <1>4, <1>5, <1>6, <1>7, <1>8, <1>9 DEF UserNext

LEMMA OpTokens ==
  ASSUME TokenInv, WatchInv, OpNext \/ \E o \in Ops : drop_op(o)
  PROVE  WatchInv' /\ [Tok!Next]_(Tok!vars)
<1>1. ASSUME NEW o \in Ops, op_begin(o)
      PROVE  WatchInv' /\ [Tok!Next]_(Tok!vars)
  <2>1. CASE watch[o] = {}
    BY <1>1, <2>1, DropTokens DEF op_begin, post_completion, fileVars, OpStates
  <2>2. CASE watch[o] # {}
    BY <1>1, <2>2, TokenKept DEF op_begin, fileVars
  <2> QED
    BY <2>1, <2>2
<1>2. ASSUME NEW o \in Ops, NEW result \in {"ok", "error"}, op_perform(o, result)
      PROVE  WatchInv' /\ Tok!Next
  BY <1>2, DropTokens DEF op_perform, post_completion, fileVars, OpStates
<1>3. ASSUME NEW o \in Ops, handler_begin(o) \/ handler_end(o)
      PROVE  WatchInv' /\ UNCHANGED Tok!vars
  <2>1. CASE handler_begin(o)
    BY <2>1, TokenKept DEF handler_begin, fileVars, tokVars
  <2>2. CASE handler_end(o)
    BY <2>2, TokenKept DEF handler_end, retire, fileVars
  <2> QED
    BY <1>3, <2>1, <2>2
<1>4. ASSUME NEW s \in Services, run(s) \/ run_returns(s)
      PROVE  WatchInv' /\ UNCHANGED Tok!vars
  BY <1>4, SameTokens DEF run, run_returns, fileVars, tokVars, opVars
<1>5. ASSUME NEW o \in Ops, drop_op(o)
      PROVE  WatchInv' /\ [Tok!Next]_(Tok!vars)
  <2>1. CASE opst[o] = "queued"
    BY <1>5, <2>1, DropTokens DEF drop_op, retire, fileVars, OpStates
  <2>2. CASE opst[o] = "posted"
    BY <1>5, <2>2, TokenKept DEF drop_op, retire, fileVars
  <2> QED
    BY <1>5, <2>1, <2>2 DEF drop_op
<1> QED
  BY <1>1, <1>2, <1>3, <1>4, <1>5 DEF OpNext

LEMMA StepUsesTokens ==
  FileInv /\ TokenInv /\ WatchInv /\ ShutdownInv /\ [Next]_vars
    => WatchInv' /\ [Tok!Next]_(Tok!vars)
<1> SUFFICES ASSUME FileInv, TokenInv, WatchInv, ShutdownInv, [Next]_vars
             PROVE  WatchInv' /\ [Tok!Next]_(Tok!vars)
  OBVIOUS
<1>1. CASE UNCHANGED vars
  BY <1>1, SameTokens DEF vars, tokVars, opVars, fileVars
<1>2. ASSUME NEW s \in Services, \/ shutdown_begin(s) \/ shutdown_throws(s)
                                 \/ shutdown_stop(s) \/ service_destroy(s)
      PROVE  WatchInv' /\ UNCHANGED Tok!vars
  BY <1>2, SameTokens DEF shutdown_begin, shutdown_throws, shutdown_stop, service_destroy,
                          tokVars, opVars, fileVars
<1>3. ASSUME NEW s \in Services, shutdown_step(s)
      PROVE  WatchInv' /\ [Tok!Next]_(Tok!vars)
  <2>1. cursor[s] \in Files /\ service[cursor[s]] # Nil
    BY <1>3, ServiceAssumption DEF shutdown_step, ShutdownInv, ShutdownOK, Members, registered
  <2> QED
    BY <1>3, <2>1, ReleaseTokens DEF shutdown_step, close_for_destruction, opVars
<1> QED
  BY <1>1, <1>2, <1>3, UserTokens, OpTokens DEF Next, ShutdownNext

\* Files create, move, cancel and destroy token sources, and operations take
\* and give up tokens, only in the ways CancellationContract allows, shutdown
\* included.
THEOREM UsesTokensHolds == Spec => UsesTokens
<1>1. Init => Tok!Init
  BY DEF Init, Tok!Init
<1>2. Spec => []WatchInv
  BY InitWatchInv, StepUsesTokens, FileInvInvariant, TokenInvInvariant,
     ShutdownInvInvariant, PTL DEF Spec
<1> QED
  BY <1>1, <1>2, StepUsesTokens, FileInvInvariant, TokenInvInvariant,
     ShutdownInvInvariant, PTL DEF Spec, UsesTokens, Tok!Spec

-----------------------------------------------------------------------------
(* The tokens.                                                              *)


\* Every pointer refers to a control block, to nothing, or is not there.
THEOREM TokenTypeInvariant == TokenSpec => []TokenTypeOK
<1>1. TokenInit => TokenTypeOK
  BY DEF TokenInit, TokenTypeOK
<1>2. TokenTypeOK /\ [TokenNext]_tokenVars => TokenTypeOK'
  BY DEF TokenTypeOK, TokenNext, tokenVars, Construct, MoveConstruct, MoveAssign, source_cancel,
         source_destroy,
         source_reset, Destruct, Issue, CopyToken, DropToken, Allocate, Live, Issued
<1> QED
  BY <1>1, <1>2, PTL DEF TokenSpec

\* The inductive invariant: the types, and that no control block is shared by
\* two sources.  Fresh(b) is what keeps an allocation from sharing one.
SourcesInv == TokenTypeOK /\ SoleOwner

LEMMA SourcesInvInit == TokenInit => SourcesInv
  BY PointerAssumption DEF TokenInit, SourcesInv, TokenTypeOK, SoleOwner

\* Allocation hands out a block that no source and no token refers to.
LEMMA AllocateInv ==
  ASSUME SourcesInv, NEW s \in Sources, Allocate(s)
  PROVE  SoleOwner'
  BY DEF SourcesInv, TokenTypeOK, SoleOwner, Allocate, Fresh

LEMMA SourcesInvNext == SourcesInv /\ [TokenNext]_tokenVars => SourcesInv'
<1> SUFFICES ASSUME SourcesInv, [TokenNext]_tokenVars PROVE SourcesInv'
  OBVIOUS
<1>1. TokenTypeOK'
  BY DEF SourcesInv, TokenTypeOK, TokenNext, tokenVars, Construct, MoveConstruct, MoveAssign,
         source_cancel,
         source_destroy, source_reset, Destruct, Issue, CopyToken, DropToken, Allocate, Live, Issued
<1>2. SoleOwner'
  <2>1. CASE \E s \in Sources : Construct(s) \/ source_cancel(s) \/ source_reset(s)
    BY <2>1, AllocateInv DEF Construct, source_cancel, source_reset
  <2>2. CASE \E s, other \in Sources : MoveConstruct(s, other) \/ MoveAssign(s, other)
    BY <2>2, PointerAssumption
    DEF MoveConstruct, MoveAssign, SourcesInv, TokenTypeOK, SoleOwner, Live
  <2>3. CASE \E s \in Sources : source_destroy(s) \/ Destruct(s)
    BY <2>3, PointerAssumption DEF source_destroy, Destruct, SourcesInv, TokenTypeOK, SoleOwner
  <2>4. CASE UNCHANGED ptr
    BY <2>4 DEF SourcesInv, SoleOwner
  <2> QED
    BY <2>1, <2>2, <2>3, <2>4 DEF TokenNext, tokenVars, Issue, CopyToken, DropToken
<1> QED
  BY <1>1, <1>2 DEF SourcesInv

\* No two sources ever own the same control block, however sources are
\* constructed, moved, cancelled, destroyed, reset and destructed.
THEOREM SoleOwnerInvariant == TokenSpec => []SoleOwner
<1>1. SourcesInv => SoleOwner
  BY DEF SourcesInv
<1> QED
  BY SourcesInvInit, SourcesInvNext, <1>1, PTL DEF TokenSpec

LEMMA SourcesInvInvariant == TokenSpec => []SourcesInv
  BY SourcesInvInit, SourcesInvNext, PTL DEF TokenSpec

\* A step never revives an expired token.
LEMMA CancelledStep ==
  ASSUME SourcesInv, [TokenNext]_tokenVars, NEW t \in Tokens, Issued(t), cancelled(t), Issued(t)'
  PROVE  cancelled(t)'
<1>1. CASE UNCHANGED tokenVars
  BY <1>1 DEF tokenVars, cancelled
<1>2. CASE \E s \in Sources : Construct(s) \/ source_cancel(s) \/ source_reset(s)
  BY <1>2 DEF SourcesInv, TokenTypeOK, Construct, source_cancel, source_reset, Allocate, Fresh,
              cancelled
<1>3. CASE \E s, other \in Sources : MoveConstruct(s, other) \/ MoveAssign(s, other)
  BY <1>3, PointerAssumption
  DEF SourcesInv, TokenTypeOK, MoveConstruct, MoveAssign, cancelled, Live, Issued
<1>4. CASE \E s \in Sources : source_destroy(s) \/ Destruct(s)
  BY <1>4 DEF SourcesInv, TokenTypeOK, source_destroy, Destruct, cancelled, Issued
<1>5. CASE \E u \in Tokens : DropToken(u) \/ (\E s \in Sources : Issue(u, s))
                              \/ (\E other \in Tokens : CopyToken(u, other))
  BY <1>5 DEF SourcesInv, TokenTypeOK, Issue, CopyToken, DropToken, cancelled, Issued
<1> QED
  BY <1>1, <1>2, <1>3, <1>4, <1>5 DEF TokenNext

\* cancelled() never turns from true to false while a token lives, though the
\* storage of expired control blocks is recycled.
THEOREM CancelledIsFinalHolds == TokenSpec => CancelledIsFinal
<1>1. SourcesInv /\ [TokenNext]_tokenVars =>
        [\A t \in Tokens : Issued(t) /\ cancelled(t) /\ Issued(t)' => cancelled(t)']_tokenVars
  BY CancelledStep
<1> QED
  BY SourcesInvInvariant, <1>1, PTL DEF TokenSpec, CancelledIsFinal

-----------------------------------------------------------------------------
(* The refinement: one lemma per operation of the contract.                *)

\* What the contract's watch becomes is decided token by token.
LEMMA ConstructImplements ==
  ASSUME SourcesInv, NEW s \in Sources, Construct(s)
  PROVE  Contract!Construct(s)
  BY PointerAssumption
  DEF SourcesInv, TokenTypeOK, Construct, Allocate, Fresh, Live, Issued, Contract!Construct

\* Both move operations; SoleOwner makes the moved block other's alone.
LEMMA MoveImplements ==
  ASSUME SourcesInv, NEW s \in Sources, NEW other \in Sources, s # other,
         MoveConstruct(s, other) \/ MoveAssign(s, other)
  PROVE  Contract!Move(s, other)
<1>1. /\ ptr' = [ptr EXCEPT ![s] = ptr[other], ![other] = Null]
      /\ weak' = weak
      /\ ptr[other] # Gone
  BY DEF MoveConstruct, MoveAssign, Live
<1>2. {x \in Sources : Live(x)}' = {x \in Sources : Live(x)} \cup {s}
  BY <1>1, PointerAssumption DEF SourcesInv, TokenTypeOK, Live
<1>3. {x \in Sources : ptr[x] \in Blocks}' =
        ({x \in Sources : ptr[x] \in Blocks} \ {s, other})
          \cup {x \in {s} : other \in {y \in Sources : ptr[y] \in Blocks}}
  BY <1>1, PointerAssumption DEF SourcesInv, TokenTypeOK
<1>4. ASSUME NEW t \in Tokens
      PROVE  {x \in Sources : ptr'[x] \in Blocks /\ ptr'[x] = weak'[t]} =
               IF other \in {x \in Sources : ptr[x] \in Blocks /\ ptr[x] = weak[t]}
               THEN {s}
               ELSE {x \in Sources : ptr[x] \in Blocks /\ ptr[x] = weak[t]} \ {s}
  BY <1>1, PointerAssumption DEF SourcesInv, TokenTypeOK, SoleOwner
<1> QED
  BY <1>1, <1>2, <1>3, <1>4 DEF Contract!Move, Live, Issued

LEMMA CancelImplements ==
  ASSUME SourcesInv, NEW s \in Sources, source_cancel(s)
  PROVE  Contract!Cancel(s)
  BY PointerAssumption
  DEF SourcesInv, TokenTypeOK, source_cancel, Allocate, Fresh, Live, Issued, Contract!Cancel,
      Contract!WithoutWatchers

LEMMA DestroyImplements ==
  ASSUME SourcesInv, NEW s \in Sources, source_destroy(s)
  PROVE  Contract!Destroy(s)
  BY PointerAssumption
  DEF SourcesInv, TokenTypeOK, source_destroy, Live, Issued, Contract!Destroy,
      Contract!WithoutWatchers

LEMMA ResetImplements ==
  ASSUME SourcesInv, NEW s \in Sources, source_reset(s)
  PROVE  Contract!Reset(s)
  BY PointerAssumption
  DEF SourcesInv, TokenTypeOK, source_reset, Allocate, Fresh, Live, Issued, Contract!Reset,
      Contract!Cancel, Contract!WithoutWatchers

LEMMA DestructImplements ==
  ASSUME SourcesInv, NEW s \in Sources, Destruct(s)
  PROVE  Contract!Destruct(s)
  BY PointerAssumption
  DEF SourcesInv, TokenTypeOK, Destruct, Live, Issued, Contract!Destruct, Contract!WithoutWatchers

LEMMA IssueImplements ==
  ASSUME SourcesInv, NEW t \in Tokens, NEW s \in Sources, Issue(t, s)
  PROVE  Contract!Issue(t, s)
  BY PointerAssumption, ZenonT(40)
  DEF SourcesInv, TokenTypeOK, SoleOwner, Issue, Live, Issued, Contract!Issue

LEMMA CopyTokenImplements ==
  ASSUME SourcesInv, NEW t \in Tokens, NEW other \in Tokens, CopyToken(t, other)
  PROVE  Contract!CopyToken(t, other)
  BY PointerAssumption DEF SourcesInv, TokenTypeOK, CopyToken, Issued, Live, Contract!CopyToken

LEMMA DropTokenImplements ==
  ASSUME SourcesInv, NEW t \in Tokens, DropToken(t)
  PROVE  Contract!DropToken(t)
  BY PointerAssumption DEF SourcesInv, TokenTypeOK, DropToken, Issued, Live, Contract!DropToken

LEMMA NextImplements == SourcesInv /\ [TokenNext]_tokenVars => [Contract!Next]_(Contract!vars)
<1> SUFFICES ASSUME SourcesInv, [TokenNext]_tokenVars PROVE [Contract!Next]_(Contract!vars)
  OBVIOUS
<1>1. CASE UNCHANGED tokenVars
  BY <1>1 DEF tokenVars, Contract!vars, Live, Issued
<1>2. ASSUME NEW s \in Sources,
             Construct(s) \/ source_cancel(s) \/ source_destroy(s) \/ source_reset(s) \/ Destruct(s)
      PROVE  Contract!Next
  BY <1>2, ConstructImplements, CancelImplements, DestroyImplements,
     ResetImplements, DestructImplements DEF Contract!Next
<1>3. ASSUME NEW s \in Sources, NEW other \in Sources,
             MoveConstruct(s, other) \/ MoveAssign(s, other)
      PROVE  [Contract!Next]_(Contract!vars)
  <2>1. CASE s # other
    BY <1>3, <2>1, MoveImplements DEF Contract!Next
  <2>2. CASE s = other
    BY <1>3, <2>2 DEF MoveConstruct, MoveAssign, Contract!vars, Live, Issued
  <2> QED
    BY <2>1, <2>2
<1>4. ASSUME NEW t \in Tokens, NEW s \in Sources, Issue(t, s)
      PROVE  Contract!Next
  BY <1>4, IssueImplements DEF Contract!Next
<1>5. ASSUME NEW t \in Tokens, NEW other \in Tokens, CopyToken(t, other)
      PROVE  Contract!Next
  BY <1>5, CopyTokenImplements DEF Contract!Next
<1>6. ASSUME NEW t \in Tokens, DropToken(t)
      PROVE  Contract!Next
  BY <1>6, DropTokenImplements DEF Contract!Next
<1> QED
  BY <1>1, <1>2, <1>3, <1>4, <1>5, <1>6 DEF TokenNext

\* The pointer implementation, moves and self-moves included, keeps the
\* contract of cancellation_token_source and cancellation_token.
THEOREM TokenRefinement == TokenSpec => ImplementsContract
<1>1. TokenInit => Contract!Init
  BY PointerAssumption DEF TokenInit, Contract!Init, Live, Issued
<1> QED
  BY SourcesInvInvariant, NextImplements, <1>1, PTL
  DEF TokenSpec, ImplementsContract, Contract!Spec

=============================================================================
