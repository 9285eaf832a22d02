----------------------- MODULE ThreadPoolFileService -----------------------
(***************************************************************************)
(* thread_pool_file_service and the basic_file objects that use it.        *)
(*                                                                         *)
(* User threads construct, move, open, cancel, close and destroy files and *)
(* start asynchronous operations on them (distinct files concurrently, one *)
(* file by one thread at a time, as basic_file requires).  A started       *)
(* operation carries a copy of the file's native handle and a cancellation *)
(* token; a pool thread checks the token, performs the system call on the  *)
(* copied handle and posts the completion handler to the io_context, whose *)
(* run() calls it.  The destructor of the io_context shuts the service     *)
(* down.  The list of implementations is a module of its own (ImplList);   *)
(* cancellation tokens appear as the contract that CancellationToken       *)
(* implements: watch[o] = {} is an expired token.                          *)
(***************************************************************************)
EXTENDS Integers, FiniteSets

CONSTANTS
  Services,     \* one thread_pool_file_service per io_context
  Files,        \* storage slots for basic_file objects
  Ops,          \* asynchronous operations; each is started at most once
  Fds,          \* native handles the kernel may hand out
  NumThreads,   \* threads of a service's pool
  Closed,       \* the invalid native handle (-1)
  Nil           \* the null pointer

ASSUME ServiceAssumption ==
  /\ NumThreads \in Nat \ {0}
  /\ Closed \notin Fds
  /\ Nil \notin Files /\ Nil \notin Services

VARIABLES
  service,      \* service[f]: io_object_holder::service_, Nil if f is not alive
  handle,       \* handle[f]: implementation_type::handle_
  issuing,      \* the files whose cancel_token_ is not destroyed
  watch,        \* watch[o]: the files whose cancel_token_ can cancel o's token
  impl_list, next, prev,   \* the lists of implementations
  transit,      \* transit[f]: the file f is half-way being move-assigned from
  openFds,      \* kernel: the native handles that are open
  userFds,      \* the open native handles owned by code outside the files
  opst,         \* opst[o]: where operation o is
  opfd,         \* opfd[o]: the copy of the handle in thread_pool_fs_read etc.
  opsvc,        \* opsvc[o]: thread_pool_fs_op::svc_
  opres,        \* opres[o]: the error code o's handler is called with
  phase,        \* phase[s]: life of the service
  cursor,       \* cursor[s]: loop variable of shutdown_service
  running,      \* running[s]: a thread is inside io_context::run()
  guard,        \* the operations whose work_tuple still holds io_context work
  terminated,   \* std::terminate was called
  assoc,        \* history: the file o is associated with
  doomed,       \* history: o was still queued when its file was cancelled,
                \* destroyed, assigned over or shut down
  orphaned,     \* history: o was started on a closed file, or close() was
                \* called on its file since
  detached      \* history: o was started on a file with a destroyed token
                \* source, or its file was move-assigned since

listVars == <<impl_list, next, prev>>
tokVars  == <<issuing, watch>>
fileVars == <<service, handle, transit>>
fdVars   == <<openFds, userFds>>
opVars   == <<opst, opfd, opsvc, opres, guard>>
ctxVars  == <<phase, cursor, running>>
histVars == <<assoc, doomed, orphaned, detached>>
vars == <<listVars, tokVars, fileVars, fdVars, opVars, ctxVars, histVars,
          terminated>>

\* The service a file is registered with: none while it is half-way moved.
registered ==
  [f \in Files |-> IF transit[f] = Nil THEN service[f] ELSE Nil]

Tok == INSTANCE CancellationContract WITH
  Sources <- Files, Tokens <- Ops,
  sources <- {f \in Files : service[f] # Nil},
  tokens <- {o \in Ops : opst[o] \in {"queued", "started"}}
List == INSTANCE ImplList WITH Impls <- Files, member <- registered

OpStates == {"free", "queued", "started", "posted", "handling", "done", "dropped"}
Phases   == {"up", "closing", "stopped", "destroyed"}
Results  == {"none", "ok", "error", "operation_aborted"}

FileTypes ==
  /\ service \in [Files -> Services \cup {Nil}]
  /\ handle \in [Files -> Fds \cup {Closed}]
  /\ transit \in [Files -> Files \cup {Nil}]
  /\ openFds \subseteq Fds
  /\ userFds \subseteq Fds
  /\ impl_list \in [Services -> Files \cup {Nil}]
  /\ next \in [Files -> Files \cup {Nil}]
  /\ prev \in [Files -> Files \cup {Nil}]
  /\ cursor \in [Services -> Files \cup {Nil}]

OpTypes ==
  /\ opst \in [Ops -> OpStates]
  /\ opfd \in [Ops -> Fds \cup {Closed}]
  /\ opsvc \in [Ops -> Services \cup {Nil}]
  /\ opres \in [Ops -> Results]
  /\ guard \subseteq Ops
  /\ issuing \subseteq Files
  /\ watch \in [Ops -> SUBSET Files]
  /\ assoc \in [Ops -> Files \cup {Nil}]
  /\ doomed \in [Ops -> BOOLEAN]
  /\ orphaned \in [Ops -> BOOLEAN]
  /\ detached \in [Ops -> BOOLEAN]

TypeOK ==
  /\ FileTypes
  /\ OpTypes
  /\ phase \in [Services -> Phases]
  /\ running \in [Services -> BOOLEAN]
  /\ terminated \in BOOLEAN

-----------------------------------------------------------------------------
(* Helpers.                                                                 *)

Alive(f) == service[f] # Nil
is_open(f) == handle[f] # Closed
InTransit(f) == transit[f] # Nil \/ \E g \in Files : transit[g] = f

\* A user thread may call a member function of f.
Usable(f) ==
  /\ ~terminated
  /\ Alive(f)
  /\ ~InTransit(f)
  /\ phase[service[f]] = "up"

\* The operations of f that no pool thread has taken yet should not touch its
\* handle any more, whether or not f has one.
DoomQueued(f) ==
  doomed' = [o \in Ops |-> doomed[o] \/ (assoc[o] = f /\ opst[o] = "queued")]

\* f's operations are now g's.
Reassociate(f, g) ==
  assoc' = [o \in Ops |-> IF assoc[o] = f THEN g ELSE assoc[o]]

-----------------------------------------------------------------------------

Init ==
  /\ service = [f \in Files |-> Nil]
  /\ handle = [f \in Files |-> Closed]
  /\ transit = [f \in Files |-> Nil]
  /\ issuing = {}
  /\ watch = [o \in Ops |-> {}]
  /\ impl_list = [s \in Services |-> Nil]
  /\ next = [f \in Files |-> Nil]
  /\ prev = [f \in Files |-> Nil]
  /\ openFds = {}
  /\ userFds = {}
  /\ opst = [o \in Ops |-> "free"]
  /\ opfd = [o \in Ops |-> Closed]
  /\ opsvc = [o \in Ops |-> Nil]
  /\ opres = [o \in Ops |-> "none"]
  /\ phase = [s \in Services |-> "up"]
  /\ cursor = [s \in Services |-> Nil]
  /\ running = [s \in Services |-> FALSE]
  /\ guard = {}
  /\ terminated = FALSE
  /\ assoc = [o \in Ops |-> Nil]
  /\ doomed = [o \in Ops |-> FALSE]
  /\ orphaned = [o \in Ops |-> FALSE]
  /\ detached = [o \in Ops |-> FALSE]

-----------------------------------------------------------------------------
(* Life of a file.                                                          *)

construct(s, f) ==
  /\ ~terminated /\ ~Alive(f) /\ phase[s] = "up"
  /\ service' = [service EXCEPT ![f] = s]
  /\ issuing' = issuing \cup {f}
  /\ UNCHANGED watch
  /\ List!push_front(s, f)
  /\ UNCHANGED <<handle, transit, fdVars, opVars, ctxVars, histVars, terminated>>

\* Mutant of move_construct: the token source is not moved along.
move_construct_keeps_token(f, other) ==
  /\ Usable(other)
  /\ ~Alive(f)
  /\ service' = [service EXCEPT ![f] = service[other]]
  /\ handle' = [handle EXCEPT ![f] = handle[other], ![other] = Closed]
  /\ issuing' = issuing \cup {f}
  /\ List!push_front(service[other], f)
  /\ Reassociate(other, f)
  /\ UNCHANGED <<watch, transit, fdVars, opVars, ctxVars, doomed, orphaned, detached,
                 terminated>>

move_construct(f, other) ==
  /\ Usable(other)
  /\ ~Alive(f)
  /\ service' = [service EXCEPT ![f] = service[other]]
  /\ handle' = [handle EXCEPT ![f] = handle[other], ![other] = Closed]
  /\ issuing' = (issuing \ {other}) \cup {x \in {f} : other \in issuing}
  /\ watch' = [o \in Ops |-> IF other \in watch[o] THEN {f} ELSE watch[o]]
  /\ List!push_front(service[other], f)
  /\ Reassociate(other, f)
  /\ UNCHANGED <<transit, fdVars, opVars, ctxVars, doomed, orphaned, detached,
                 terminated>>

\* Mutant of release_handle: the token source is closed for new tokens only.
release_handle_keeps_tokens(f) ==
  /\ DoomQueued(f)
  /\ IF is_open(f)
     THEN /\ issuing' = issuing \ {f}
          /\ openFds' = openFds \ {handle[f]}
          /\ UNCHANGED watch
     ELSE UNCHANGED <<tokVars, openFds>>

\* close_for_destruction, except for handle_: the token source is destroyed
\* only if there is a handle to close.
release_handle(f) ==
  /\ DoomQueued(f)
  /\ IF is_open(f)
     THEN /\ issuing' = issuing \ {f}
          /\ watch' = Tok!WithoutWatchers(f)
          /\ openFds' = openFds \ {handle[f]}
     ELSE UNCHANGED <<tokVars, openFds>>

close_for_destruction(f) ==
  /\ release_handle(f)
  /\ handle' = [handle EXCEPT ![f] = Closed]

\* move_assign within one service, or its first half across services: up to
\* the removal from the old list.
move_assign_begin(f, other) ==
  /\ Usable(f) /\ Usable(other) /\ f # other
  /\ IF service[f] = service[other]
     THEN /\ release_handle(f)
          /\ handle' = [handle EXCEPT ![f] = handle[other], ![other] = Closed]
          /\ Reassociate(other, f)
          /\ detached' = [o \in Ops |-> detached[o] \/ assoc[o] = other]
          /\ UNCHANGED <<listVars, transit>>
     ELSE /\ close_for_destruction(f)
          /\ List!unlink(service[f], f)
          /\ transit' = [transit EXCEPT ![f] = other]
          /\ UNCHANGED <<assoc, detached>>
  /\ UNCHANGED <<service, userFds, opVars, ctxVars, orphaned, terminated>>

\* close_for_destruction threw: move_assign does nothing more.
move_assign_throws(f, other) ==
  /\ Usable(f) /\ Usable(other) /\ f # other
  /\ is_open(f)
  /\ close_for_destruction(f)
  /\ UNCHANGED <<service, transit, listVars, userFds, opVars, ctxVars, assoc,
                 orphaned, detached, terminated>>

\* Mutant of move_assign_end: the insertion into the other list is missing.
move_assign_end_unlinked(f) ==
  LET other == transit[f] IN
  /\ ~terminated
  /\ other # Nil
  /\ handle' = [handle EXCEPT ![f] = handle[other], ![other] = Closed]
  /\ service' = [service EXCEPT ![f] = service[other]]
  /\ transit' = [transit EXCEPT ![f] = Nil]
  /\ Reassociate(other, f)
  /\ detached' = [o \in Ops |-> detached[o] \/ assoc[o] = other]
  /\ UNCHANGED <<listVars, tokVars, fdVars, opVars, ctxVars, doomed, orphaned,
                 terminated>>

\* Mutant of move_assign_end: the moved-from handle is not cleared.
move_assign_end_keeps_handle(f) ==
  LET other == transit[f] IN
  /\ ~terminated
  /\ other # Nil
  /\ handle' = [handle EXCEPT ![f] = handle[other]]
  /\ List!push_front(service[other], f)
  /\ service' = [service EXCEPT ![f] = service[other]]
  /\ transit' = [transit EXCEPT ![f] = Nil]
  /\ Reassociate(other, f)
  /\ detached' = [o \in Ops |-> detached[o] \/ assoc[o] = other]
  /\ UNCHANGED <<tokVars, fdVars, opVars, ctxVars, doomed, orphaned,
                 terminated>>

\* The second half of move_assign across services, and the holder's service_.
move_assign_end(f) ==
  LET other == transit[f] IN
  /\ ~terminated
  /\ other # Nil
  /\ handle' = [handle EXCEPT ![f] = handle[other], ![other] = Closed]
  /\ List!push_front(service[other], f)
  /\ service' = [service EXCEPT ![f] = service[other]]
  /\ transit' = [transit EXCEPT ![f] = Nil]
  /\ Reassociate(other, f)
  /\ detached' = [o \in Ops |-> detached[o] \/ assoc[o] = other]
  /\ UNCHANGED <<tokVars, fdVars, opVars, ctxVars, doomed, orphaned,
                 terminated>>

destroy(f) ==
  /\ ~terminated /\ Alive(f) /\ ~InTransit(f)
  /\ phase[service[f]] \in {"up", "stopped"}
  /\ service' = [service EXCEPT ![f] = Nil]
  /\ handle' = [handle EXCEPT ![f] = Closed]
  /\ openFds' = openFds \ {handle[f]}
  /\ issuing' = issuing \ {f}
  /\ watch' = Tok!WithoutWatchers(f)
  /\ List!unlink(service[f], f)
  /\ DoomQueued(f)
  /\ assoc' = [o \in Ops |-> IF assoc[o] = f THEN Nil ELSE assoc[o]]
  /\ UNCHANGED <<transit, userFds, opVars, ctxVars, orphaned, detached, terminated>>

\* close() threw inside the destructor of io_object_holder.
destroy_throws(f) ==
  /\ ~terminated /\ Alive(f) /\ ~InTransit(f)
  /\ phase[service[f]] \in {"up", "stopped"}
  /\ is_open(f)
  /\ terminated' = TRUE
  /\ UNCHANGED <<listVars, tokVars, fileVars, fdVars, opVars, ctxVars, histVars>>

-----------------------------------------------------------------------------
(* Synchronous operations of a file.                                        *)

\* open() of a closed file; fd is what asioext::open returns.  On an open file,
\* and when asioext::open fails, open() changes nothing but the error code.
open(f, fd) ==
  /\ Usable(f) /\ ~is_open(f)
  /\ fd \notin openFds
  /\ handle' = [handle EXCEPT ![f] = fd]
  /\ openFds' = openFds \cup {fd}
  /\ UNCHANGED <<service, transit, listVars, tokVars, userFds, opVars, ctxVars,
                 histVars, terminated>>

\* assign() to a closed file: it takes a native handle over from its caller.
assign(f, fd) ==
  /\ Usable(f) /\ ~is_open(f)
  /\ fd \in userFds
  /\ handle' = [handle EXCEPT ![f] = fd]
  /\ userFds' = userFds \ {fd}
  /\ UNCHANGED <<service, transit, listVars, tokVars, openFds, opVars, ctxVars,
                 histVars, terminated>>

\* close(): the native handle is gone whether or not the call reports an error;
\* there is no effect on the token source or on operations under way.
close(f) ==
  /\ Usable(f) /\ is_open(f)
  /\ handle' = [handle EXCEPT ![f] = Closed]
  /\ openFds' = openFds \ {handle[f]}
  /\ orphaned' = [o \in Ops |-> orphaned[o] \/ assoc[o] = f]
  /\ UNCHANGED <<service, transit, listVars, tokVars, userFds, opVars, ctxVars,
                 assoc, doomed, detached, terminated>>

\* cancel() of an open file; on a closed one it only reports an error.
cancel(f) ==
  /\ Usable(f) /\ is_open(f)
  /\ issuing' = issuing \cup {f}
  /\ watch' = Tok!WithoutWatchers(f)
  /\ DoomQueued(f)
  /\ UNCHANGED <<fileVars, listVars, fdVars, opVars, ctxVars, assoc, orphaned,
                 detached, terminated>>

\* Code outside the files opens and closes native handles of its own.
user_open(fd) ==
  /\ ~terminated /\ fd \notin openFds
  /\ openFds' = openFds \cup {fd}
  /\ userFds' = userFds \cup {fd}
  /\ UNCHANGED <<fileVars, listVars, tokVars, opVars, ctxVars, histVars, terminated>>

user_close(fd) ==
  /\ ~terminated /\ fd \in userFds
  /\ openFds' = openFds \ {fd}
  /\ userFds' = userFds \ {fd}
  /\ UNCHANGED <<fileVars, listVars, tokVars, opVars, ctxVars, histVars, terminated>>

-----------------------------------------------------------------------------
(* Asynchronous operations.                                                 *)

\* Mutant of async_init: the composed operation holds no work.
async_init_no_work(o, f) ==
  /\ Usable(f)
  /\ opst[o] = "free"
  /\ opst' = [opst EXCEPT ![o] = "queued"]
  /\ opfd' = [opfd EXCEPT ![o] = handle[f]]
  /\ opsvc' = [opsvc EXCEPT ![o] = service[f]]
  /\ watch' = [watch EXCEPT ![o] = {x \in {f} : f \in issuing}]
  /\ assoc' = [assoc EXCEPT ![o] = f]
  /\ detached' = [detached EXCEPT ![o] = f \notin issuing]
  /\ orphaned' = [orphaned EXCEPT ![o] = ~is_open(f)]
  /\ UNCHANGED <<fileVars, listVars, issuing, fdVars, opres, guard, ctxVars, doomed,
                 terminated>>

\* async_read_some, async_write_some and the _at forms: thread_pool_fs_init
\* posts a composed operation, holding io_context work, to the pool.
async_init(o, f) ==
  /\ Usable(f)
  /\ opst[o] = "free"
  /\ opst' = [opst EXCEPT ![o] = "queued"]
  /\ opfd' = [opfd EXCEPT ![o] = handle[f]]
  /\ opsvc' = [opsvc EXCEPT ![o] = service[f]]
  /\ watch' = [watch EXCEPT ![o] = {x \in {f} : f \in issuing}]
  /\ guard' = guard \cup {o}
  /\ assoc' = [assoc EXCEPT ![o] = f]
  /\ detached' = [detached EXCEPT ![o] = f \notin issuing]
  /\ orphaned' = [orphaned EXCEPT ![o] = ~is_open(f)]
  /\ UNCHANGED <<fileVars, listVars, issuing, fdVars, opres, ctxVars, doomed,
                 terminated>>

Busy(s) == Cardinality({o \in Ops : opsvc[o] = s /\ opst[o] = "started"})

\* asio::post(ex, self.complete_to_bound_handler(ec, n)): the handler and its
\* work move into the io_context's queue; the operation object and its token
\* are destroyed.
post_completion(o, result) ==
  /\ opst' = [opst EXCEPT ![o] = "posted"]
  /\ opfd' = [opfd EXCEPT ![o] = Closed]
  /\ opres' = [opres EXCEPT ![o] = result]
  /\ watch' = [watch EXCEPT ![o] = {}]
  /\ assoc' = [assoc EXCEPT ![o] = Nil]

\* The operation is over; nothing of it is left.
retire(o, state) ==
  /\ opst' = [opst EXCEPT ![o] = state]
  /\ opfd' = [opfd EXCEPT ![o] = Closed]
  /\ opsvc' = [opsvc EXCEPT ![o] = Nil]
  /\ opres' = [opres EXCEPT ![o] = "none"]
  /\ guard' = guard \ {o}
  /\ watch' = [watch EXCEPT ![o] = {}]
  /\ assoc' = [assoc EXCEPT ![o] = Nil]
  /\ doomed' = [doomed EXCEPT ![o] = FALSE]
  /\ orphaned' = [orphaned EXCEPT ![o] = FALSE]
  /\ detached' = [detached EXCEPT ![o] = FALSE]

\* Mutant of op_begin: the token is not checked.
op_begin_unchecked(o) ==
  /\ ~terminated
  /\ opst[o] = "queued"
  /\ phase[opsvc[o]] \in {"up", "closing"}
  /\ Busy(opsvc[o]) < NumThreads
  /\ opst' = [opst EXCEPT ![o] = "started"]
  /\ UNCHANGED <<fileVars, listVars, tokVars, fdVars, opfd, opsvc, opres, guard, ctxVars,
                 histVars, terminated>>

\* Mutant of op_begin: a cancelled operation returns without posting.
op_begin_lost(o) ==
  /\ ~terminated
  /\ opst[o] = "queued"
  /\ phase[opsvc[o]] \in {"up", "closing"}
  /\ Busy(opsvc[o]) < NumThreads
  /\ IF watch[o] = {}
     THEN retire(o, "dropped")
     ELSE /\ opst' = [opst EXCEPT ![o] = "started"]
          /\ UNCHANGED <<opfd, opsvc, opres, guard, watch, histVars>>
  /\ UNCHANGED <<fileVars, listVars, issuing, fdVars, phase, cursor, running, terminated>>

\* A pool thread takes o from the pool's queue and checks its token.
op_begin(o) ==
  /\ ~terminated
  /\ opst[o] = "queued"
  /\ phase[opsvc[o]] \in {"up", "closing"}
  /\ Busy(opsvc[o]) < NumThreads
  /\ IF watch[o] = {}
     THEN post_completion(o, "operation_aborted")
     ELSE /\ opst' = [opst EXCEPT ![o] = "started"]
          /\ UNCHANGED <<opfd, opres, watch, assoc>>
  /\ UNCHANGED <<fileVars, listVars, issuing, fdVars, opsvc, guard, ctxVars, doomed,
                 orphaned, detached, terminated>>

\* The pool thread performs the system call on the copied handle.
op_perform(o, result) ==
  /\ ~terminated
  /\ opst[o] = "started"
  /\ result = "ok" => opfd[o] \in openFds
  /\ post_completion(o, result)
  /\ UNCHANGED <<fileVars, listVars, issuing, fdVars, opsvc, guard, ctxVars, doomed,
                 orphaned, detached, terminated>>

\* run() calls the bound handler, which releases its work ...
handler_begin(o) ==
  /\ ~terminated
  /\ opst[o] = "posted"
  /\ running[opsvc[o]]
  /\ opst' = [opst EXCEPT ![o] = "handling"]
  /\ guard' = guard \ {o}
  /\ UNCHANGED <<fileVars, listVars, tokVars, fdVars, opfd, opsvc, opres, ctxVars,
                 histVars, terminated>>

\* ... and invokes the user's handler, which returns.
handler_end(o) ==
  /\ ~terminated
  /\ opst[o] = "handling"
  /\ retire(o, "done")
  /\ UNCHANGED <<fileVars, listVars, issuing, fdVars, ctxVars, terminated>>

\* Outstanding work of s's io_context: work guards, handlers posted to it, and
\* handlers it is calling.
HasWork(s) ==
  \E o \in Ops : opsvc[o] = s /\ (o \in guard \/ opst[o] \in {"posted", "handling"})

run(s) ==
  /\ ~terminated /\ phase[s] = "up" /\ ~running[s]
  /\ running' = [running EXCEPT ![s] = TRUE]
  /\ UNCHANGED <<fileVars, listVars, tokVars, fdVars, opVars, phase, cursor, histVars, terminated>>

run_returns(s) ==
  /\ ~terminated /\ running[s] /\ ~HasWork(s)
  /\ running' = [running EXCEPT ![s] = FALSE]
  /\ UNCHANGED <<fileVars, listVars, tokVars, fdVars, opVars, phase, cursor, histVars, terminated>>

-----------------------------------------------------------------------------
(* Shutdown, from the destructor of the io_context: no thread is in run()   *)
(* and no user thread is inside an operation of one of its files.           *)

shutdown_begin(s) ==
  /\ ~terminated /\ phase[s] = "up" /\ ~running[s]
  /\ \A f \in Files : service[f] = s => ~InTransit(f)
  /\ phase' = [phase EXCEPT ![s] = "closing"]
  /\ cursor' = [cursor EXCEPT ![s] = impl_list[s]]
  /\ UNCHANGED <<fileVars, listVars, tokVars, fdVars, opVars, running, histVars, terminated>>

\* Mutant of shutdown_step: the loop follows prev_ instead of next_.
shutdown_step_backwards(s) ==
  /\ ~terminated /\ phase[s] = "closing" /\ cursor[s] # Nil
  /\ close_for_destruction(cursor[s])
  /\ cursor' = [cursor EXCEPT ![s] = prev[cursor[s]]]
  /\ UNCHANGED <<service, transit, listVars, userFds, opVars, phase, running,
                 assoc, orphaned, detached, terminated>>

shutdown_step(s) ==
  /\ ~terminated /\ phase[s] = "closing" /\ cursor[s] # Nil
  /\ close_for_destruction(cursor[s])
  /\ cursor' = [cursor EXCEPT ![s] = next[cursor[s]]]
  /\ UNCHANGED <<service, transit, listVars, userFds, opVars, phase, running,
                 assoc, orphaned, detached, terminated>>

\* close() threw out of shutdown_service, called by a destructor.
shutdown_throws(s) ==
  /\ ~terminated /\ phase[s] = "closing" /\ cursor[s] # Nil
  /\ is_open(cursor[s])
  /\ terminated' = TRUE
  /\ UNCHANGED <<fileVars, listVars, tokVars, fdVars, opVars, ctxVars, histVars>>

\* pool_.stop()
shutdown_stop(s) ==
  /\ ~terminated /\ phase[s] = "closing" /\ cursor[s] = Nil
  /\ phase' = [phase EXCEPT ![s] = "stopped"]
  /\ UNCHANGED <<fileVars, listVars, tokVars, fdVars, opVars, cursor, running,
                 histVars, terminated>>

\* The io_context destroys a posted handler, or the pool, once joined, an
\* operation it never ran: the handler is not called.
drop_op(o) ==
  /\ ~terminated
  /\ opst[o] \in {"queued", "posted"}
  /\ phase[opsvc[o]] = "stopped"
  /\ opst[o] = "queued" => Busy(opsvc[o]) = 0
  /\ retire(o, "dropped")
  /\ UNCHANGED <<fileVars, listVars, issuing, fdVars, phase, cursor, running, terminated>>

service_destroy(s) ==
  /\ ~terminated /\ phase[s] = "stopped"
  /\ \A f \in Files : service[f] # s
  /\ \A o \in Ops : opsvc[o] # s
  /\ phase' = [phase EXCEPT ![s] = "destroyed"]
  /\ UNCHANGED <<fileVars, listVars, tokVars, fdVars, opVars, cursor, running,
                 histVars, terminated>>

-----------------------------------------------------------------------------
UserNext ==
  \/ \E s \in Services, f \in Files : construct(s, f)
  \/ \E f, other \in Files : move_construct(f, other)
  \/ \E f, other \in Files : move_assign_begin(f, other)
  \/ \E f, other \in Files : move_assign_throws(f, other)
  \/ \E f \in Files : move_assign_end(f)
  \/ \E f \in Files : destroy(f)
  \/ \E f \in Files : destroy_throws(f)
  \/ \E f \in Files, fd \in Fds : open(f, fd)
  \/ \E f \in Files, fd \in Fds : assign(f, fd)
  \/ \E f \in Files : close(f)
  \/ \E f \in Files : cancel(f)
  \/ \E fd \in Fds : user_open(fd)
  \/ \E fd \in Fds : user_close(fd)
  \/ \E o \in Ops, f \in Files : async_init(o, f)

OpNext ==
  \/ \E o \in Ops : op_begin(o)
  \/ \E o \in Ops, result \in {"ok", "error"} : op_perform(o, result)
  \/ \E o \in Ops : handler_begin(o)
  \/ \E o \in Ops : handler_end(o)
  \/ \E s \in Services : run(s)
  \/ \E s \in Services : run_returns(s)

ShutdownNext ==
  \/ \E s \in Services : shutdown_begin(s)
  \/ \E s \in Services : shutdown_step(s)
  \/ \E s \in Services : shutdown_throws(s)
  \/ \E s \in Services : shutdown_stop(s)
  \/ \E o \in Ops : drop_op(o)
  \/ \E s \in Services : service_destroy(s)

Next == UserNext \/ OpNext \/ ShutdownNext

Spec == Init /\ [][Next]_vars

\* The pool's threads keep taking operations and their system calls return;
\* a thread inside run() keeps calling the handlers that are ready.
Fairness ==
  \A o \in Ops : /\ WF_vars(op_begin(o))
                 /\ WF_vars(\E result \in {"ok", "error"} : op_perform(o, result))
                 /\ WF_vars(handler_begin(o))
                 /\ WF_vars(handler_end(o))

FairSpec == Spec /\ Fairness

-----------------------------------------------------------------------------
\* Every open native handle has exactly one owner, a file or the code outside:
\* no sequence of moves, failed closes, destructions and shutdown leaks one,
\* closes one twice or closes one that belongs to somebody else.
HandlesOwnedOnce ==
  /\ openFds = userFds \cup ({handle[f] : f \in Files} \ {Closed})
  /\ \A f \in Files : handle[f] \notin userFds
  /\ \A f, g \in Files : f # g /\ is_open(f) => handle[f] # handle[g]
  /\ \A f \in Files : is_open(f) => Alive(f)

\* The token of a queued operation tells what became of its file since the
\* operation was started, through any sequence of move-constructions: it watches
\* the token source of its file as long as nobody cancelled, destroyed, assigned
\* over or shut down that file, and is cancelled once somebody did.  The second
\* half excepts operations whose file was closed first (close_for_destruction
\* leaves their token alone if the file holds no handle by then).  Excepted from
\* both are operations whose token is detached from their file: move_assign leaves
\* the token source of the assigned file behind, and moved-from files have none.
QueuedTokensAgree ==
  \A o \in Ops : opst[o] = "queued" /\ ~detached[o] =>
    /\ ~doomed[o] => watch[o] = {assoc[o]}
    /\ doomed[o] /\ ~orphaned[o] => watch[o] = {}

\* An operation that was still queued when its file was cancelled, destroyed,
\* assigned over or shut down never reaches the system call, unless it was
\* started on a closed file, close() was called on the file in between, or its
\* token is detached.
DoomedNeverRuns ==
  \A o \in Ops : doomed[o] /\ ~detached[o] /\ ~orphaned[o] =>
    opst[o] \in {"queued", "dropped"} \/ opres[o] = "operation_aborted"

\* An operation that a pool thread may still let through its token check has a
\* copy of the handle that its file holds now: however the file was moved, closed
\* for destruction and used again, the copy is not a descriptor that was closed
\* and may be somebody else's by now.  (Excepted as in DoomedNeverRuns.)
LiveTokenLiveHandle ==
  \A o \in Ops :
    opst[o] = "queued" /\ watch[o] # {} /\ ~detached[o] /\ ~orphaned[o] =>
      \E f \in Files : assoc[o] = f /\ is_open(f) /\ opfd[o] = handle[f]

\* When shutdown_service has stopped the pool, no file of the service still
\* holds a handle: the walk missed none.
ShutdownClosesAll ==
  \A s \in Services, f \in Files :
    phase[s] \in {"stopped", "destroyed"} /\ service[f] = s => ~is_open(f)

\* run() does not return while an operation's handler is still to be called,
\* though the operation is in the hands of the pool for most of its life.
RunOutlivesOps ==
  [][\A s \in Services : running[s] /\ ~running'[s] =>
       \A o \in Ops : opsvc[o] = s => opst[o] \notin {"queued", "started", "posted", "handling"}]_vars

\* The files and operations use token sources, tokens and lists as those
\* modules specify, so what is shown there holds here.
UsesTokens == Tok!Spec
UsesLists == List!Spec

\* Every operation started while a thread is in run() gets its handler called
\* before run() returns, whatever is done to its file meanwhile.
OpsComplete ==
  \A o \in Ops :
    (opst[o] = "queued" /\ running[opsvc[o]]) ~> (opst[o] = "done" \/ terminated)

=============================================================================
