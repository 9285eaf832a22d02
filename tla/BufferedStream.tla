--------------------------- MODULE BufferedStream ---------------------------
(***************************************************************************)
(* buffered_stream (experimental/buffered_stream.hpp).                     *)
(*                                                                         *)
(* Writing is double-buffered: clients append to write_buffer_ while a     *)
(* flush writes write_buffer_locked_ to the next layer; lock_write_buffers *)
(* swaps the two when the locked one has been sent completely.  Reading    *)
(* grows read_buffer_ first and shrinks it when the data has arrived.      *)
(* Bytes are numbered in the order in which they are appended by the       *)
(* client, or sent by the peer.  All calls come from one thread; between   *)
(* the steps of an asynchronous write or read anything else may be called. *)
(* asio::write, asio::read and their asynchronous forms are external: they *)
(* write or read some bytes at a time and finish when all is written, when *)
(* something is read, or on an error.                                      *)
(***************************************************************************)
EXTENDS Naturals, Sequences

CONSTANTS
  MaxWrite,    \* max_write_size
  MaxRead,     \* max_read_size
  MaxBytes     \* bound: bytes appended, and bytes sent by the peer

ASSUME SizeAssumption == MaxWrite \in Nat /\ MaxRead \in Nat /\ MaxBytes \in Nat

VARIABLES
  write_buffer, write_buffer_locked, read_buffer,
  flush_pending,
  ec,          \* the caller's error_code holds an error of an earlier call
  writing,     \* an asynchronous write is under way
  view,        \* ... the bytes it has still to write
  written,     \* ... the number of bytes it has written
  reading,     \* an asynchronous read is under way
  room,        \* ... the number of bytes read_buffer_ was grown by
  offset,      \* ... the position of its bytes in read_buffer_'s memory
  is_open,     \* the next layer is open
  appended,    \* number of bytes appended by the client
  wire,        \* the bytes the next layer accepted
  cleared,     \* the bytes close() threw away
  received     \* number of bytes the peer sent that were read

writeVars == <<write_buffer, write_buffer_locked, flush_pending, writing, view,
               written, appended, wire>>
readVars  == <<read_buffer, reading, room, offset, received>>
vars == <<writeVars, readVars, ec, is_open, cleared>>

Garbage == 0       \* an uninitialised byte
Bytes == 1 .. MaxBytes

Take(s, n) == SubSeq(s, 1, n)
MinOf(a, b) == IF a < b THEN a ELSE b
Elements(s) == {s[i] : i \in 1 .. Len(s)}

\* dynamic_linear_buffer: remove the first n bytes, add n uninitialised ones at
\* the end, remove the last n; more than there are means all.
consume(s, n) == SubSeq(s, MinOf(n, Len(s)) + 1, Len(s))
grow(s, n) == s \o [i \in 1 .. n |-> Garbage]

\* Mutant of shrink: resized to n bytes, not by n bytes.
shrink_to(s, n) == Take(s, MinOf(Len(s), n))

shrink(s, n) == Take(s, Len(s) - MinOf(Len(s), n))

\* The sizes of the buffers never exceed their maximum.
TypeOK ==
  /\ write_buffer \in Seq(Bytes) /\ Len(write_buffer) <= MaxWrite
  /\ write_buffer_locked \in Seq(Bytes) /\ Len(write_buffer_locked) <= MaxWrite
  /\ read_buffer \in Seq(Bytes \cup {Garbage}) /\ Len(read_buffer) <= MaxRead
  /\ view \in Seq(Bytes)
  /\ wire \in Seq(Bytes)
  /\ written \in 0 .. MaxWrite
  /\ room \in 0 .. MaxRead
  /\ offset \in 0 .. MaxRead
  /\ appended \in 0 .. MaxBytes
  /\ received \in 0 .. MaxBytes
  /\ cleared \subseteq Bytes
  /\ {flush_pending, ec, writing, reading, is_open} \subseteq BOOLEAN

Init ==
  /\ write_buffer = <<>> /\ write_buffer_locked = <<>> /\ read_buffer = <<>>
  /\ flush_pending = FALSE
  /\ ec = FALSE
  /\ writing = FALSE /\ view = <<>> /\ written = 0
  /\ reading = FALSE /\ room = 0 /\ offset = 0
  /\ is_open = TRUE
  /\ appended = 0 /\ wire = <<>> /\ cleared = {} /\ received = 0

-----------------------------------------------------------------------------
(* Writing.                                                                 *)

\* The client appends a byte to write_buffer(); beyond max_size() append throws.
append ==
  /\ appended < MaxBytes
  /\ Len(write_buffer) < MaxWrite
  /\ appended' = appended + 1
  /\ write_buffer' = Append(write_buffer, appended + 1)
  /\ UNCHANGED <<write_buffer_locked, flush_pending, writing, view, written, wire,
                 readVars, ec, is_open, cleared>>

\* Mutant of swapped: the buffers are swapped whatever is in them.
swapped_always == [locked |-> write_buffer, write |-> write_buffer_locked]

\* The two write buffers as lock_write_buffers leaves them.
swapped ==
  IF write_buffer_locked = <<>>
  THEN [locked |-> write_buffer, write |-> write_buffer_locked]
  ELSE [locked |-> write_buffer_locked, write |-> write_buffer]

\* lock_write_buffers, unless a flush is pending.
lock_write_buffers ==
  /\ ~flush_pending
  /\ flush_pending' = TRUE
  /\ write_buffer' = swapped.write
  /\ write_buffer_locked' = swapped.locked

\* flush(ec) while a flush is pending: already_started.
flush_refused ==
  /\ flush_pending
  /\ ec' = TRUE
  /\ UNCHANGED <<writeVars, readVars, is_open, cleared>>

\* flush(ec) with an error_code that still holds an earlier error:
\* lock_write_buffers does not reset it, so flush returns early.
flush_stale ==
  /\ ec
  /\ lock_write_buffers
  /\ UNCHANGED <<writing, view, written, appended, wire, readVars, ec, is_open,
                 cleared>>

\* Mutant of flush: everything is dropped from the buffer after the write.
flush_drops(n, own) ==
  /\ ~flush_pending
  /\ own \/ ~ec
  /\ n <= Len(swapped.locked)
  /\ n > 0 => is_open
  /\ wire' = wire \o Take(swapped.locked, n)
  /\ write_buffer' = swapped.write
  /\ write_buffer_locked' = <<>>
  /\ ec' = IF own THEN ec ELSE n < Len(swapped.locked)
  /\ UNCHANGED <<flush_pending, writing, view, written, appended, readVars,
                 is_open, cleared>>

\* flush(ec) and flush(), which uses an error_code of its own: asio::write sends
\* all of the locked buffer, or its first n bytes and reports an error.
flush(n, own) ==
  /\ ~flush_pending
  /\ own \/ ~ec
  /\ n <= Len(swapped.locked)
  /\ n > 0 => is_open
  /\ wire' = wire \o Take(swapped.locked, n)
  /\ write_buffer' = swapped.write
  /\ write_buffer_locked' = consume(swapped.locked, n)
  /\ ec' = IF own THEN ec ELSE n < Len(swapped.locked)
  /\ UNCHANGED <<flush_pending, writing, view, written, appended, readVars,
                 is_open, cleared>>

\* async_flush; while a flush is pending it only posts already_started.
async_flush ==
  /\ lock_write_buffers
  /\ writing' = TRUE
  /\ view' = swapped.locked
  /\ written' = 0
  /\ UNCHANGED <<appended, wire, readVars, ec, is_open, cleared>>

\* One write_some of the asynchronous write.
write_some(n) ==
  /\ writing /\ is_open
  /\ n <= Len(view)
  /\ wire' = wire \o Take(view, n)
  /\ view' = consume(view, n)
  /\ written' = written + n
  /\ UNCHANGED <<write_buffer, write_buffer_locked, flush_pending, writing, appended,
                 readVars, ec, is_open, cleared>>

\* The write has sent all or failed: the dynamic buffer consumes what was
\* written, unlock_write_buffers is called and then the handler.
flush_complete ==
  /\ writing
  /\ write_buffer_locked' = consume(write_buffer_locked, written)
  /\ flush_pending' = FALSE
  /\ writing' = FALSE
  /\ view' = <<>>
  /\ written' = 0
  /\ UNCHANGED <<write_buffer, appended, wire, readVars, ec, is_open, cleared>>

-----------------------------------------------------------------------------
(* Reading.                                                                 *)

\* fill: n bytes are read, none only on an error or if the buffer is full.
fill(n, own) ==
  /\ ~reading
  /\ n <= MaxRead - Len(read_buffer)
  /\ received + n <= MaxBytes
  /\ n > 0 => is_open
  /\ read_buffer' = read_buffer \o [i \in 1 .. n |-> received + i]
  /\ received' = received + n
  /\ ec' = IF own THEN ec ELSE n = 0 /\ Len(read_buffer) < MaxRead
  /\ UNCHANGED <<writeVars, reading, room, offset, is_open, cleared>>

\* async_fill grows the buffer by n bytes and reads into them.
async_fill(n) ==
  /\ ~reading
  /\ n <= MaxRead - Len(read_buffer)
  /\ reading' = TRUE
  /\ room' = n
  /\ offset' = Len(read_buffer)
  /\ read_buffer' = grow(read_buffer, n)
  /\ UNCHANGED <<writeVars, received, ec, is_open, cleared>>

\* n bytes arrive in the memory that the read was started with; a byte beyond
\* the end of the buffer, which close() emptied meanwhile, is not in it.
arrived(n) ==
  [i \in 1 .. Len(read_buffer) |->
     IF i > offset /\ i <= offset + n THEN received + i - offset ELSE read_buffer[i]]

\* The read has ended with n bytes, or with none and an error: the buffer is
\* shrunk by the room that was not used, and the handler is called.
fill_complete(n) ==
  /\ reading
  /\ n <= room
  /\ received + n <= MaxBytes
  /\ read_buffer' = shrink(arrived(n), room - n)
  /\ received' = received + n
  /\ reading' = FALSE /\ room' = 0 /\ offset' = 0
  /\ UNCHANGED <<writeVars, ec, is_open, cleared>>

\* The client takes n bytes from the front of read_buffer().
erase(n) ==
  /\ ~reading
  /\ n <= Len(read_buffer)
  /\ read_buffer' = consume(read_buffer, n)
  /\ UNCHANGED <<writeVars, reading, room, offset, received, ec, is_open, cleared>>

-----------------------------------------------------------------------------
\* close() and close(ec), whose error_code the next layer sets: also while a
\* write or a read is under way, which then fails.
close ==
  /\ cleared' = cleared \cup Elements(write_buffer) \cup Elements(write_buffer_locked)
  /\ write_buffer' = <<>>
  /\ write_buffer_locked' = <<>>
  /\ read_buffer' = <<>>
  /\ is_open' = FALSE
  /\ ec' \in BOOLEAN
  /\ UNCHANGED <<flush_pending, writing, view, written, appended, wire, reading, room,
                 offset, received>>

\* The client opens next_layer() again.
reopen ==
  /\ ~is_open
  /\ is_open' = TRUE
  /\ UNCHANGED <<writeVars, readVars, ec, cleared>>

\* The client resets its error_code.
clear_ec ==
  /\ ec
  /\ ec' = FALSE
  /\ UNCHANGED <<writeVars, readVars, is_open, cleared>>

Next ==
  \/ append
  \/ flush_refused
  \/ flush_stale
  \/ \E n \in 0 .. MaxWrite, own \in BOOLEAN : flush(n, own)
  \/ async_flush
  \/ \E n \in 1 .. MaxWrite : write_some(n)
  \/ flush_complete
  \/ \E n \in 0 .. MaxRead, own \in BOOLEAN : fill(n, own)
  \/ \E n \in 0 .. MaxRead : async_fill(n)
  \/ \E n \in 0 .. MaxRead : fill_complete(n)
  \/ \E n \in 1 .. MaxRead : erase(n)
  \/ close
  \/ reopen
  \/ clear_ec

Spec == Init /\ [][Next]_vars

-----------------------------------------------------------------------------
\* What a flush has still to send.
Unsent == consume(write_buffer_locked, written)

\* Bytes reach the next layer in the order in which they were appended and none
\* twice, through any sequence of partial writes, failed flushes, appends while
\* a flush is under way, and close().
SentInOrder ==
  LET all == wire \o Unsent \o write_buffer
  IN  \A i, j \in 1 .. Len(all) : i < j => all[i] < all[j]

\* Every byte that was appended is sent, still buffered, or was cleared by
\* close(): a failed or partial flush keeps the rest for the next one.
NothingLost ==
  TypeOK /\ 1 .. appended \subseteq
    Elements(wire) \cup Elements(Unsent) \cup Elements(write_buffer) \cup cleared

\* Unless a read is under way, read_buffer() holds a contiguous run of the
\* peer's bytes and none that was not received, also after close() emptied it
\* during the read.
ReadInOrder ==
  ~reading => \A i \in 1 .. Len(read_buffer) :
    /\ read_buffer[i] # Garbage
    /\ i > 1 => read_buffer[i] = read_buffer[i - 1] + 1

=============================================================================
