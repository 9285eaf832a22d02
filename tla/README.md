# Verification of asio-extensions

TLA+ specifications of the parts of asio-extensions that keep state, TLC
configurations that check them on small instances, and TLAPS proofs of the main
results for every instance. All source paths below are relative to
`src/include/asioext/`.

## The system

asio-extensions is a C++ library on top of Asio. It has no threads of its own
except those of the file service's pool; everything else runs inside the calls
of its users, in completion handlers, and in destructors.

| Component | State | Operations | Hard because |
|---|---|---|---|
| `thread_pool_file_service` | a thread pool, a mutex, the list of file implementations; per file a native handle and a token source | construct, move_construct, move_assign, destroy, open, assign, close, cancel, async_*, shutdown_service | user threads, pool threads, `run()` and shutdown interleave; operations keep a *copy* of the handle |
| `basic_file`, `io_object_holder` | the service pointer, the implementation, the executor | forwards to the service | destructor may meet a throwing close |
| list of implementations | `impl_list_`, `next_`, `prev_` | insertion, removal, the walk of shutdown | two lists, two mutexes, elements moving between them |
| `cancellation_token_source`, `cancellation_token` | a `shared_ptr<void>` / `weak_ptr<void>` used only for the control block | cancel, destroy, reset, moves, cancelled | no flag anywhere: everything follows from who owns which block |
| `composed_operation`, `bind_handler`, `work_tuple` | handler, work guards, step counter | call, complete, complete_to_bound_handler | work must outlive the time an operation spends in the pool |
| `buffered_stream` | two write buffers, a read buffer, `flush_pending_` | flush, async_flush, fill, async_fill, close | partial writes, failing flushes, close under a pending operation |
| `linear_buffer`, `dynamic_linear_buffer` | memory, size, capacity, maximum | append, insert, erase, resize, grow, shrink, consume, prepare, commit, moves | raw memory, limits, sentinel values |
| `file_handle`, `unique_file_handle`, `duplicate`, `posix_file_ops`, `win_file_ops` | a native handle | open, close, read, write, seek, attributes | ownership, failing close, retry on EINTR, read-modify-write |
| `read_file`, `write_file` | none | size, read, write | the file changes between two calls |
| SOCKS client | a coroutine and a buffer per operation | greet, login, exec for v5, exec for v4 | everything the proxy answers |
| `connect` | a pending operation | resolve, then try each endpoint | which error is reported, closing meanwhile |
| `url_parser`, `chrono`, `open_flags` | none | pure functions | boundaries, overflow |
| `unique_handler` | a pointer to allocated storage | complete, reset, moves | re-entrance, exactly one invocation |

The file service uses the token source (`impl.cancel_token_`), the list and the
composed operation; `buffered_stream` uses `linear_buffer` through
`dynamic_linear_buffer`; `read_file`, `write_file` and the file service use
`file_handle` and `open`. What should hold of each: a native handle has one
owner; an operation is called back exactly once and not on somebody else's
handle; shutdown misses nothing; bytes arrive in order and once; an error is
reported as documented. `PROJECT.json` lists the hazards one by one, with the
line at which each bites.

## Modules

| Module | Models |
|---|---|
| `CancellationContract` | what token sources and tokens promise: which sources can cancel a token |
| `CancellationToken` | `impl/cancellation_token.cpp`: which control block each pointer refers to; blocks are recycled as an allocator would |
| `ImplList` | the intrusive lists of `impl/thread_pool_file_service.cpp` |
| `ThreadPoolFileService` | the service, its files and their asynchronous operations; composes `CancellationContract` (as `Tok`) and `ImplList` (as `List`) |
| `BufferedStream` | `experimental/buffered_stream.hpp` and the buffer operations it calls |
| `LinearBuffer` | `basic_linear_buffer`, memory block by memory block |
| `DynamicLinearBuffer` | `dynamic_linear_buffer`, extends `LinearBuffer` |
| `PosixFileOps` | `detail/impl/posix_file_ops.cpp`, `open_flags`, `open_args`, as functions of a kernel state |
| `FileHandles` | `file_handle`, `unique_file_handle`, the synchronous part of `basic_file` and the service, `duplicate`, `open`, `read_file`, `write_file`; extends `PosixFileOps` |
| `Chrono` | `detail/impl/chrono.hpp` with integers of bounded width |
| `FileMetadata` | permissions, attributes and times in every layer; extends `Chrono` |
| `Connect` | `connect` and `async_connect` |
| `SocksClient` | the SOCKS 4 and 5 operations and their packets; extends `Connect` |
| `Handlers` | `composed_operation`, `work_tuple`, `bound_handler` and `unique_handler` together |
| `UrlParser` | `detail/impl/url_parser.cpp` and `url_view`; next to it the regular expression of RFC 3986 |
| `MCThreadPoolFileService`, `MCLinearBuffer`, `MCUrlParser`, `CancelRequests` | symmetry, inputs, and a history variable for TLC |
| `ImplListProofs`, `ThreadPoolFileServiceProofs`, `HandlersProofs`, `LinearBufferProofs`, `BufferedStreamProofs`, `FileHandlesProofs`, `SocksClientProofs`, `UrlParserProofs` | theorems; those about `CancellationToken` are in `ThreadPoolFileServiceProofs`, those about `FileMetadata` in `FileHandlesProofs` |

Names follow the source (`move_construct`, `close_for_destruction`,
`lock_write_buffers`, ...). Definitions called "Mutant of ..." are variants with
a plausible bug; they are used by no specification and serve to show that each
property can fail.

### CancellationToken

`ptr[s]` and `weak[t]` are the control blocks that a source and a token refer
to, `Null` (empty pointer) or `Gone` (no object). `cancelled(t)` is
`weak_ptr::expired()`. `ptr_.reset(0, null_deleter())` is `Allocate`: it takes a
block that nothing refers to, the block being replaced still counting as
referred to. Note `reset()`: it tests `!ptr_`, which looks at the stored pointer
and not at the control block; the stored pointer is always null, so `reset()`
always allocates.

### ImplList

One step per critical section of `mutex_`. `push_front` and `unlink` are the
pointer assignments of the insertions (in construct, move_construct and
move_assign) and of the removals (in destroy and move_assign).

### ThreadPoolFileService

A file is a slot with a service pointer, a handle, list pointers and a token
source. User threads call anything on distinct files at any time and on one file
by one thread at a time (`Usable`, as `basic_file` documents). `move_assign`
within one service is one step. Across services it locks two mutexes one after
the other and is two steps (`transit` in between). A close that throws ends
`move_assign` early, and ends the program (`terminated`) in a destructor or in
shutdown. `move_assign` is reached through the service's public interface: the
`noexcept` clause of `io_object_holder::operator=` names a two-argument
`move_assign` that this service does not have.

An operation is `free`, `queued` in the pool, `started` (token checked, system
call under way), `posted` to the io_context, `handling` (the user's handler
runs), `done`, or `dropped` (destroyed uncalled). It carries a copy of the handle
(`opfd`), its token (`watch`, the files whose source can still cancel it) and
its work (`guard`). At most `NumThreads` operations of a service are `started`.
Native handles are numbers the kernel hands out and may hand out again; other
code of the process opens and closes handles too (`userFds`).
Shutdown walks the list one file per step, so that pool threads interleave with
it, then stops the pool; io_context and pool finally drop what they still hold.

Four variables are history. `assoc` is the file an operation belongs to now.
`doomed` says that the operation was queued when that file was cancelled,
destroyed, assigned over or shut down, whether or not the code cancelled anything
then. `orphaned` says that it was started on a closed file or that `close()` was
called on its file since: `release_handle` looks at the handle first
(`impl/thread_pool_file_service.cpp:266`), finds none, and leaves the token alone,
so such an operation runs although it is doomed. `detached` says that its token has
lost the connection to its file. The properties about queued operations name the
last two as exceptions; what they say of the others is that no pool thread gets
past the token check with a handle that is not its file's any more
(`LiveTokenLiveHandle`, `DoomedNeverRuns`).

Left out here: executors other than the io_context's own (see `Handlers`) and
the data that is read or written and the synchronous operations (see
`FileHandles` and `FileMetadata`).

### BufferedStream

Bytes are numbered, so a buffer is a sequence of numbers. `ec` is the
error_code a caller passes to flush, fill and close and may leave unreset. An asynchronous
write is a sequence of `write_some` steps and `flush_complete`; an asynchronous
read grows the buffer first and shrinks it at the end. `close()` and `append` may
come in between. A zero byte is memory that was never written.

### LinearBuffer and DynamicLinearBuffer

A block of memory is a sequence of cells; `memmove` past the end of a block makes
it longer than it was allocated, and a read past the end yields `Wild`, so an
access out of bounds shows. `val` is the value each call is documented to leave.
`std::size_t` arithmetic wraps at `SizeMax`. The view (`target`, `size_`,
`max_size_`) is used through either the v1 (prepare, commit) or the v2 (grow,
shrink) interface; `input` is the sequence its user sees. Other buffers live and
die meanwhile.

Move-assignment does not give back the block of its target. The model has that
leak and `BlocksOwned` does not exclude it: it says that a buffer's pointer and
capacity agree and that no two buffers have the same block, and nothing of blocks
that no buffer has. `data()` of the v1 interface is not modelled; before the first
`prepare()` its size is the sentinel `SIZE_MAX` (`linear_buffer.hpp:525`). Where the
library itself uses it so, in the SOCKS client, `SocksClient` has what follows.

### PosixFileOps and FileHandles

A kernel is a record: descriptor table, open file descriptions, one file, and
how much trouble (I/O errors, signals) is still to come. Each wrapper is the set of its
outcomes; the outcome `again` is one interrupted pass through a retry loop.
`FileHandles` stacks the layers on it exactly as the code does (`handle_`,
`unique_`, `service_`, `file_`), each member being the composition of the one
below, and adds ownership. The two owners of the code are `unique_file_handle` and
`basic_file`; `release()` makes the program itself a third. `read_file` and
`write_file` are sequences of system calls of other threads, so the file may
shrink, grow or be replaced between the size query and the read.

### Chrono and FileMetadata

`Wrap` is two's complement arithmetic with `RepMax` for INT64_MAX and `Hz` for
the ticks of a second. Adding and removing bits, and setting times without
`futimens`, is `stat` and then `apply`, two steps with other threads in between.
Two fields of a call are history: `old`, what it changed, as it was just before the
change, and `touched`, the bits and times that others changed since the call began.
With them `BitsExact` and `TimesExact` speak of each bit and each time on its own,
also of calls that others disturbed, and by the words of `file_perms.hpp:121-130`,
not by the mask in the code. Given special bits are excepted: the code masks them
away, which the table of disagreements below lists.

Both builds are covered: with `futimens` and without, with file flags
(`ASIOEXT_HAS_FILE_FLAGS`) and without; in the latter, as on Linux, `attributes()`
reads nothing (`posix_file_ops.cpp:398`) and succeeds without a change (`:428`).
The change time is left out: it is read like the other two and cannot be set.

### Connect and SocksClient

Packets are sequences of real bytes, encoded and sized as in `protocol.cpp`. All
operations use the application's one buffer, in which a failed operation
may leave bytes (`stale`). The proxy is arbitrary within the replies that the
code tells apart: any version, status and address type. Its answer comes in pieces
(`unsent` is what is still to come), which `async_read` puts together; it may stop
after any piece by hanging up, or be followed by bytes of the tunnel. `got` is what
the operation has read of the answer. The socket comes from `Connect` and may be
closed at any time.

Two things happen to memory that the model counts and does not follow. `overrun` is
how many bytes an encoder writes past what `prepare()` returned; `RequestsDecode`
bounds it: none, but for one byte of SOCKS 4 with an IPv4 endpoint and an empty user
id. And the SOCKS 4a operation, for one, does not notice an impossible packet when leftovers are in the
buffer: the next write takes `data()` of a view that was never prepared, which is
`SIZE_MAX` bytes long. That is the place `runaway`; all that is said of it is that
the system stops the write at some point.

### Handlers

One thread runs all executors; `stack` holds the nested calls. An operation is
running, posted, bound, stored in a `unique_handler`, handling, completed or
destroyed. The implementation of a composed operation is anything that the
interface allows: it posts itself, stores itself, starts another operation,
completes another one from inside itself, or forgets itself.

### UrlParser

One step per character, with the state, the part in progress and the step back
of the source; then `parse_authority`. Parts are pairs of positions. The
reference is the regular expression of RFC 3986, appendix B, with the RFC's division
of an authority, written with quantifiers and without a look at the parser; the value
of a port is computed from the places of its digits. The repository does not promise
RFC 3986, so the four kinds of text for which `parse_url` differs from it are named
exceptions (`Rooted`, `Bare`, `LoneSlash`, and more number signs than one), with what
the code does instead; they are in the table of disagreements below.

## Runs

| Run | Instance | Shows |
|---|---|---|
| `cancellation_token` | 2 sources, 2 tokens, 5 blocks | one owner per control block; cancelled stays cancelled; the contract is implemented |
| `impl_list` | 2 services, 4 implementations | the walk visits exactly the members; links are mutual |
| `thread_pool_services` | 2 services, 2 files, 1 operation, 2 handles | handles have one owner; a token that is not expired goes with the handle its file holds; nothing runs after its file was cancelled or taken away (closed files excepted); shutdown misses nothing; lists and tokens are used as specified |
| `thread_pool_live` | 1 service, 1 file, 2 operations | run() does not return early; every operation is called back |
| `thread_pool_moved` | 1 service, 2 files | violated: `cancel()` after a move misses the queued operations |
| `buffered_stream` | write buffers of 3, read buffer of 2, 4 bytes | bytes are sent and read in order, once, none lost |
| `linear_buffer` | 2 buffers, 3 blocks, sizes to 3 | no two buffers share storage, and it is as large as they believe; contents as documented; the view keeps its input |
| `file_handles` | 2 unique handles, 1 file, 1 raw handle, 1 caller, 2 descriptors, files of 2 bytes, 1 failure | no leak and no double close; reads and writes are exact or say that they are not; calls return |
| `file_metadata` | 2 threads; seconds of 6 ticks, integers of 4 bits | bit by bit and time by time: set as documented, whatever other threads do between two system calls |
| `socks_client` | 2 endpoints, strings of 0, 1, 255 and 256 bytes, 2 leftover bytes | connect reports the endpoint it reached; requests say what was asked and fit the memory prepared for them (one byte of SOCKS 4 excepted); a success has read the whole of an answer that does not refuse; the tunnel starts at its first byte; operations end |
| `handlers` | 2 slots, 2 operations, 2 blocks, 2 executors | storage is live; operations are in one place; work is held as long as needed; posted work runs |
| `url_parser` | all combinations of 5 schemes, 5 users, 6 hosts, 7 ports, 6 paths, 3 queries, 4 fragments | parts as RFC 3986 has them, four exceptions aside; good parts come back; the parser ends |

Bounds. Five blocks are one more than two sources and two tokens can refer to,
so an allocation never blocks; two sources and two tokens suffice for every move
and for a token and its copy. Four implementations give a list with head, two
inner elements and tail, next to a second list. Two files allow each kind of
move, one handle can be closed and handed out again under a queued operation,
one pool thread makes the second operation wait. Four bytes with a write buffer
of three allow a remainder in the locked buffer together with newly appended
bytes and a full buffer. Three blocks for two buffers allow a reallocation while
both own one, and the size 3 of `std::size_t` makes doubling wrap. Two descriptors
are one for the caller and one to be reused; a file of two bytes can be read in part. Four-bit
integers make every conversion overflow at both ends. Strings of 255 and 256
bytes are the two sides of the limit of a SOCKS name. A proxy's answer is cut after
its fifth byte, where the SOCKS 5 client's first read ends, and before its last one,
or comes in one piece. Two operations and two
slots allow one to be completed, moved and overwritten from inside the other.

Deadlock is not checked for the thread pool (the program may end) and for the
parser (it does).

Fairness. `thread_pool_live`: pool threads keep taking operations and
system calls return; a thread inside `run()` keeps calling ready handlers and
the handlers return. That is what Asio's scheduler guarantees. Nothing is
assumed about users, shutdown, or `run()` being called: `OpsComplete` speaks
only of operations queued while a thread is in `run()`. `file_handles`: a thread
inside `read_file` or `write_file` keeps running; signals are finitely many.
`socks_client`: Asio calls back when bytes have been transferred, when the
connection ends, and when a resolver or connection attempt has a result; nothing
is assumed of the proxy. `handlers`: executors run what they hold in turn, an
implementation gets done with its operation in some way, handlers return.
`url_parser`: the loop goes on.

### What the code does otherwise than documented

The run `thread_pool_moved` checks what the documentation says and ends with a
counterexample. The other disagreements are modelled as the code has them; the
properties are stated so that they hold nevertheless, and say in their comments what
they leave out.

| Where | What |
|---|---|
| `impl/cancellation_token.cpp:58` | `reset()` cancels the tokens of a source in use, since `!ptr_` is always true |
| `impl/cancellation_token.cpp:46` | `cancel()` puts a destroyed source back to work, though `cancellation_token.hpp:73` says that all future tokens start cancelled |
| `impl/thread_pool_file_service.cpp:51` | a moved-from file, opened again, aborts every operation |
| `impl/thread_pool_file_service.cpp:82` | `move_assign` moves the handle and not the token source: `cancel()` on the new owner misses the queued operations, against `thread_pool_file_service.hpp:223` (run `thread_pool_moved`) |
| `impl/thread_pool_file_service.cpp:266` | an operation queued before `close()` is not cancelled when its file is then assigned over, destroyed or shut down: `release_handle` finds no handle, and the operation runs on a descriptor that was closed (`orphaned`) |
| `impl/thread_pool_file_service.hpp:46` | an operation past its token check is not affected by `cancel()`, against `basic_file.hpp:398` |
| `impl/thread_pool_file_service.cpp:28` | `shutdown_service`, documented to destroy all handlers, leaves those in the pool to the destructor |
| `basic_file.hpp:428` | open is documented to close a handle held before; it fails with `already_open` |
| `detail/bound_handler.hpp:124` | work is released before the handler is invoked, against `compose.hpp:253` |
| `unique_handler.hpp:143` | an assignment whose allocation throws keeps a pointer to freed storage (`broken`) |
| `experimental/buffered_stream.hpp:275` | `flush(ec)` with a stale error locks the buffers and blocks all later flushes |
| `impl/linear_buffer.hpp:91` | an insertion in place moves the tail the wrong way |
| `impl/linear_buffer.hpp:176` | move-assignment does not free what the target held |
| `detail/impl/chrono.hpp:164` | `compose_time` compares seconds before the epoch with `min_second`: most such times are refused |
| `detail/impl/posix_file_ops.cpp:369` | `permissions()` ignores `set_uid`, `set_gid` and `sticky_bit` and reports success, against `file_perms.hpp:121-130` |
| `detail/impl/posix_file_ops.cpp:373` | adding or removing permissions undoes what others did since the `fstat`, against "the current permissions" in `file_perms.hpp:124`; attributes and, without `futimens`, times likewise |
| `detail/impl/posix_file_ops.cpp:481` | without `futimens`, times that should be kept are cut to microseconds |
| `impl/connect.cpp:36` | no result is reported as host_not_found, not as the documented not_found |
| `socks/detail/client.hpp:353` | status codes that the switch does not name (1, 9 and above; unknown ones of SOCKS 4) complete as success |
| `socks/detail/client.hpp:367` | an unknown address type makes the client read seven more bytes |
| `socks/detail/client.hpp:55` | the SOCKS 4 request is sized as SOCKS 4a and encoded as SOCKS 5, with port 0 |
| `socks/detail/client.hpp:54` | with an IPv4 endpoint and an empty user id that is ten bytes in the nine that were prepared |
| `socks/detail/client.hpp:81` | an impossible request in a buffer with leftovers is not reported as `invalid_argument`: the operation writes `SIZE_MAX` bytes (`linear_buffer.hpp:525`) |
| `socks/detail/client.hpp:161` | the method the proxy chose is not compared with those offered |
| `socks/detail/impl/protocol.cpp:90` | an empty host name asks for the address 0.0.0.0, port 0 |
| `detail/impl/url_parser.cpp:433` | a URL that ends with the slash after its scheme loses it: the slash is in no part, RFC 3986 has it as the path |
| `detail/impl/url_parser.cpp:292` | a text that begins with "/" or "*" is all path: two slashes begin no authority there, as they do in RFC 3986, and "*:" no scheme, as it does in the RFC's regular expression |
| `detail/impl/url_parser.cpp:302` | a text without a colon is accepted as a scheme, where RFC 3986 has a path |
| `detail/impl/url_parser.cpp:379` | number signs after the first one are in no part, where RFC 3986 has them in the fragment |
| `detail/impl/url_parser.cpp:324` | a fragment right after the authority is refused |
| `detail/impl/url_parser.cpp:207` | a bracket that is not closed, and an empty port, are accepted |

## Proofs

For every value of the constants, from the named assumptions of each module
(special values are not members of the sets they are used next to, the pool has
a thread, a file may have at least one byte, objects of different kinds are
different, bytes of the tunnel and uninitialised bytes can be told from others,
lengths and limits are natural numbers, a second has at least two ticks and is not a divisor of
the range of the integers that count them, which 10^7 and 2^63 satisfy, a
microsecond has at least one, the parts of a URL are sequences of characters).

* `ImplListProofs`. `LinkInv` adds to `WellLinked` that unregistered
  implementations have no links. That a walk misses nobody is stated without
  recursion: every set that holds the head and is closed under `next` holds all
  members. It is proved by extending such a set of the new list to one of the old.
* `ThreadPoolFileServiceProofs`. `FileInv` adds to `HandlesOwnedOnce` that a file
  half-way moved holds no handle and that both files are alive. `TokenInv` adds to
  `QueuedTokensAgree` and `DoomedNeverRuns` the facts about operations not yet
  queued or already over, and `HandleHeld`: a queued operation that is none of
  doomed, orphaned and detached has its file's own handle. It gives
  `LiveTokenLiveHandle`: what a pool thread lets through acts on the handle its
  file holds, the named exceptions aside. `WorkInv` says that every operation that is queued,
  started or posted belongs to a service and holds work, which gives
  `RunOutlivesOps`. `UsesLists` is a refinement, step by step, of the lists of
  `ImplList`; through it `ImplListProofs` is instantiated inside the service, and
  `ShutdownInv` can say of a walk under way that the set of files it has yet to
  visit (any set that holds the cursor and is closed under `next`) holds every
  file still open. That gives `ShutdownClosesAll` although files of other
  services come, move and go between the steps of the walk. `WatchInv` (only
  live files issue tokens or are watched) makes each step one of
  `CancellationContract`: `UsesTokens`. The last section is about the tokens
  themselves: `SourcesInv` is the type invariant of `CancellationToken` and
  `SoleOwner`; it is inductive because `Fresh` gives an allocation a block nobody
  refers to. From it follow `CancelledIsFinal` and, operation by operation, the
  refinement of `CancellationContract`. The comments in `cancellation_token.cpp`
  (lines 31 and 40) ask whether moving the pointer is enough to keep the
  guarantees: this is the answer.
* `HandlersProofs`. `InOnePlace` counts occurrences and is not inductive; `Inv`
  says instead which place each frame of the stack, each posted object and each
  block of memory implies, that none occurs twice, and that each place implies
  an occurrence. `Pointed` does the same for the pointers of unique_handlers; it
  adds that a broken one still has its dangling pointer, so that it is not
  constructed anew. `StorageLive`, `InOnePlace` and `GuardsMatchOps` follow, for any
  depth of nesting.
* `LinearBufferProofs`. `calculate_capacity` never falls short of what is asked,
  also when doubling wraps, and a copy within bounds keeps the length of its
  target; so every block has exactly the capacity its buffer believes in.
  `Inv` adds to `BlocksOwned` that the documented value has the buffer's size and
  is what memory holds (`Matches`); a lemma about `memmove` says which bytes a
  copy within bounds keeps and which it copies. `ContentAsDocumented` follows; the
  bytes that it excepts, those of a growth and of an insert without reallocation,
  are unspecified in the documented value. `ViewInv` adds that the view's limit is
  a `std::size_t`, that between `prepare` and `commit` the buffer lies between the
  input sequence and that limit, and what the input sequence is (`InputOK`): the
  whole buffer while `size_` is the largest `std::size_t`, the first `size_` bytes
  afterwards. The two readings agree when a size really is that value, so
  `InputKept` holds there too. `OthersKept` (no other buffer changes its size or
  content without taking its memory) carries all three results over to `ViewSpec`.
* `BufferedStreamProofs`. `WriteInv` says that wire, locked write buffer and
  second buffer are increasing one after the other (`Ordered`), that nothing in
  them was appended later than the last byte (`AtMost`), that every byte is in one of them or
  thrown away by `close()`, and that an asynchronous write under way has the unsent
  rest of the locked buffer in its view, unless `close()` emptied that buffer. It gives `SentInOrder` and
  `NothingLost`. `ReadInv` says the same of the read buffer with the zero bytes that a read under way has added at its end:
  `ReadInOrder`.
* `FileHandlesProofs`. First what every wrapper of `posix_file_ops` does to the
  kernel, then what opening, moving, duplicating and closing do to ownership. `Inv`
  has four parts: `OwnersOK`, who owns which descriptor; `Lending`, an object that
  a call of `read_file` or `write_file` uses keeps its descriptor; `CallOK`, what
  a call has got so far whatever others do to the file; and `Exact`, what it has
  made of the file as long as nobody else touched it. `OwnedOnce`,
  `NothingUninitialised` and `CallsExact` follow. That a free descriptor comes with a free
  description is a pigeonhole argument. The last section is about `FileMetadata`,
  for any number of threads, any number of ticks in a second and microsecond, and
  any width of integers. `MetadataInv` says what a call between its two system
  calls knows (`Pending`): each bit and each time that its `fstat` returned is
  still the file's unless another call has touched that very one. It gives
  `BitsExact`, disturbed calls included. `TimesExact`
  needs lemmas about `Chrono` besides: with `Wrap` brought down to a case for a sum
  or a product within the range, `compose_time` and `decompose_time` are
  shown exact wherever they do not fail, at both ends of the range and before the
  epoch, from the facts of division with a negative dividend.
* `SocksClientProofs`. `Wire(n)` says that the `n` bytes an operation has read (`got`),
  those in the inbox and the `unsent` ones still to come are the proxy's reply and
  the tunnel's bytes after it, in this order. `WireOK` says at which `n` each place of
  an operation stands; the length of a well-formed reply then gives `TunnelIntact`,
  and, as an operation completes with success only after its last read,
  `NoFalseSuccess`: what was read is the reply, all of it. `AskedOK` follows the
  packet from the encoder through the buffer to the socket: the encoders are decoded
  by lemmas about the parts of a concatenation (`GreetSays`, `LoginSays`, `HostSays`,
  `RemoteSays`), which gives `RequestsDecode` for names of any length, the limit
  of 255 included. `OverrunOK` compares the encoders' lengths with the sizes
  (`GreetFits`, `LoginFits`, `ExecFits`) and gives the bound on what they write.
  `ConnectReports` is inductive as it stands.
* `UrlParserProofs`, for inputs of any length and any characters. `Reading` says for
  each state of the parser which parts of the grammar lie before its position and
  which views have been taken of them: in `AtQuery`, say, the path has ended at the
  first of "?" and "#", its view is taken, and the query has begun one character
  later and met no "#". No induction over the text is needed, as the parser's own
  steps are one: each of the ten `From...` lemmas takes the facts of a state over
  one character, the one that is read again after the scheme included.
  `UserSeen` adds that `has_userinfo` is set exactly when there is an "@" in the
  authority. With what `parse_authority` makes of the view of the authority (its host
  ends where the grammar has it, its port is the place value of its digits), the
  states in which the text can end give `SplitAsGrammar`, hence `PartsExact`: two of
  them give the exceptions `Bare` and `LoneSlash`, the others the regular
  expression or `Rooted`. For `RoundTrip`, `Laid` says where good parts lie in
  the text they are put together to, `Located` in which state the parser is at
  every position of such a text, and `Trip` that this is so while it runs; that a text
  can be split in one way only (`WholeGood`, `AuthorityGood`) does the rest.

Only model-checked: `OpsComplete`, `CallsReturn`, `OpsEnd`, `PostedRuns` and
`ParserEnds`, which are liveness properties under fairness and out of the prover's
reach. Every invariant and every action property of the passing runs is proved.

## Not modelled

* `win_file_ops`, `win_path` and the Windows variants of `file_handle`: the POSIX
  build is the one modelled.
* Allocators that compare unequal: the overload of `linear_buffer::move_assign` for
  them calls itself and is used by nobody in the repository.
* `file_clock::now` and the conversions to `time_t`; standard streams; error
  message tables and throwing helpers; traits and configuration macros: no state.
* The order in which the members of the service are destroyed.
* `data()` of the v1 interface of `dynamic_linear_buffer`, but for the case the SOCKS
  client has (`runaway`), and the memory behind a buffer that writes out of bounds hit.

## What is left

The theorems cover what the runs check, liveness aside. To go on one would have to
model more: the Windows layer, if that build matters, and allocators that compare
unequal, once the code for them is used.
