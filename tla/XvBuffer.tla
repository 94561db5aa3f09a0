------------------------------ MODULE XvBuffer ------------------------------
(***************************************************************************)
(* xv_buffer_t (xv_buffer.c): a growable byte array with a read and a      *)
(* write index, used by one thread at a time (every connection of the      *)
(* service has one for each direction).                                    *)
(*                                                                         *)
(*     0 <= read_idx <= write_idx <= size                                  *)
(*                                                                         *)
(* The functions of the C file are operators on the record of its struct.  *)
(* The actions are the calls a user makes, with the caller's side of the   *)
(* contract as guard: it never advances an index past what the buffer      *)
(* holds.  A byte is its position in the stream of all bytes written; a    *)
(* cell malloc or realloc has just handed out holds Garbage.               *)
(***************************************************************************)
EXTENDS Naturals, Sequences

CONSTANTS
    InitSize,       \* the argument of xv_buffer_init
    MoveCheck,      \* XV_BUFFER_MOVE_CHECK_SIZE
    MaxLen,         \* the largest length of one call
    MaxBacklog,     \* how many unread bytes the reader lets pile up
    MaxWritten      \* bounds the stream; only there to keep TLC's run finite

ASSUME BufferConstants ==
    /\ InitSize \in Nat
    /\ MoveCheck \in Nat
    /\ MaxLen \in Nat
    /\ MaxBacklog \in Nat
    /\ MaxWritten \in Nat

VARIABLES
    buffer,     \* the xv_buffer_t
    out,        \* the bytes the last call handed to its caller
    written     \* how many bytes were ever written into the buffer

vars == <<buffer, out, written>>

Garbage == 0

-----------------------------------------------------------------------------
(* The functions of xv_buffer.c.                                           *)

xv_buffer_t(buf, size, read_idx, write_idx) ==
    [buf |-> buf, size |-> size, read_idx |-> read_idx, write_idx |-> write_idx]

xv_buffer_init(size) ==
    xv_buffer_t([k \in 0..(size - 1) |-> Garbage], size, 0, 0)

(* Faulty variant: the write index keeps its value. *)
ClearReadIndexOnly(b) == xv_buffer_t(b.buf, b.size, 0, b.write_idx)

xv_buffer_clear(b) == xv_buffer_t(b.buf, b.size, 0, 0)

xv_buffer_readable_size(b) == b.write_idx - b.read_idx

xv_buffer_writeable_size(b) == b.size - b.write_idx

(* Faulty variant: the indices move, the bytes do not. *)
MoveIndicesOnly(b) ==
    xv_buffer_t(b.buf, b.size, 0, xv_buffer_readable_size(b))

(* memmove of the readable bytes to the front of the array. *)
MoveToFront(b) ==
    xv_buffer_t([k \in 0..(b.size - 1) |->
                    IF k < xv_buffer_readable_size(b)
                    THEN b.buf[b.read_idx + k]
                    ELSE b.buf[k]],
                b.size, 0, xv_buffer_readable_size(b))

(* Faulty variant: only an empty buffer is reset, nothing is compacted. *)
ResetWhenEmptyOnly(b) ==
    IF xv_buffer_readable_size(b) = 0 THEN xv_buffer_clear(b) ELSE b

xv_buffer_try_move(b) ==
    LET c == IF xv_buffer_readable_size(b) = 0 THEN xv_buffer_clear(b) ELSE b
    IN  IF c.read_idx > c.size \div 2 /\ c.read_idx > MoveCheck
        THEN MoveToFront(c)
        ELSE c

(* realloc keeps the old cells; the new ones are uninitialised. *)
xv_realloc(b, new_size) ==
    xv_buffer_t([k \in 0..(new_size - 1) |->
                    IF k < b.size THEN b.buf[k] ELSE Garbage],
                new_size, b.read_idx, b.write_idx)

(* Faulty variant: the request is compared with the whole array. *)
EnsureAgainstSize(b, valid_size) ==
    IF b.size < valid_size THEN xv_realloc(b, valid_size) ELSE b

xv_buffer_ensure_writeable_size(b, valid_size) ==
    IF xv_buffer_writeable_size(b) < valid_size
    THEN xv_realloc(b, b.size + valid_size)
    ELSE b

(* The caller's own store of the next n bytes of the stream at             *)
(* xv_buffer_write_begin, and the n bytes it finds at                      *)
(* xv_buffer_read_begin.                                                   *)
StoreAtWriteBegin(b, n) ==
    xv_buffer_t([k \in 0..(b.size - 1) |->
                    IF k \in b.write_idx..((b.write_idx + n) - 1)
                    THEN written + 1 + (k - b.write_idx)
                    ELSE b.buf[k]],
                b.size, b.read_idx, b.write_idx)

LoadAtReadBegin(b, n) == [i \in 1..n |-> b.buf[b.read_idx + (i - 1)]]

xv_buffer_incr_read_index(b, n) ==
    xv_buffer_try_move(xv_buffer_t(b.buf, b.size, b.read_idx + n, b.write_idx))

xv_buffer_incr_write_index(b, n) ==
    xv_buffer_t(b.buf, b.size, b.read_idx, b.write_idx + n)

xv_buffer_write_data(b, len) ==
    xv_buffer_incr_write_index(
        StoreAtWriteBegin(xv_buffer_ensure_writeable_size(b, len), len), len)

(* xv_buffer_read_data copies at most what is readable. *)
ClippedLen(b, len) ==
    IF len > xv_buffer_readable_size(b) THEN xv_buffer_readable_size(b) ELSE len

xv_buffer_read_data(b, len) == xv_buffer_incr_read_index(b, ClippedLen(b, len))

-----------------------------------------------------------------------------
(* The calls of the buffer's user.                                         *)

Init ==
    /\ buffer = xv_buffer_init(InitSize)
    /\ out = << >>
    /\ written = 0

(* The reader keeps up: the backlog stays within MaxBacklog. *)
MayWrite(n) ==
    /\ xv_buffer_readable_size(buffer) + n <= MaxBacklog
    /\ written + n <= MaxWritten

WriteData(len) ==
    /\ MayWrite(len)
    /\ buffer' = xv_buffer_write_data(buffer, len)
    /\ written' = written + len
    /\ out' = << >>

EnsureWriteable(len) ==
    /\ buffer' = xv_buffer_ensure_writeable_size(buffer, len)
    /\ out' = << >>
    /\ UNCHANGED written

(* read(fd, xv_buffer_write_begin(b), ...) into room the caller reserved   *)
(* with xv_buffer_ensure_writeable_size, then xv_buffer_incr_write_index.  *)
Fill(n) ==
    /\ MayWrite(n)
    /\ n <= xv_buffer_writeable_size(buffer)
    /\ buffer' = xv_buffer_incr_write_index(StoreAtWriteBegin(buffer, n), n)
    /\ written' = written + n
    /\ out' = << >>

ReadData(len) ==
    /\ out' = LoadAtReadBegin(buffer, ClippedLen(buffer, len))
    /\ buffer' = xv_buffer_read_data(buffer, len)
    /\ UNCHANGED written

(* write(fd, xv_buffer_read_begin(b), ...) returns n, then                 *)
(* xv_buffer_incr_read_index.                                              *)
Flush(n) ==
    /\ n <= xv_buffer_readable_size(buffer)
    /\ out' = LoadAtReadBegin(buffer, n)
    /\ buffer' = xv_buffer_incr_read_index(buffer, n)
    /\ UNCHANGED written

Clear ==
    /\ buffer' = xv_buffer_clear(buffer)
    /\ out' = << >>
    /\ UNCHANGED written

Next ==
    \/ \E n \in 0..MaxLen :
        \/ WriteData(n)
        \/ EnsureWriteable(n)
        \/ Fill(n)
        \/ ReadData(n)
        \/ Flush(n)
    \/ Clear

Spec == Init /\ [][Next]_vars

-----------------------------------------------------------------------------
(* The buffer is a struct over an array of exactly `size` cells. *)
TypeOK ==
    /\ buffer.size \in Nat
    /\ buffer.read_idx \in Nat
    /\ buffer.write_idx \in Nat
    /\ buffer.buf \in [0..(buffer.size - 1) -> Nat]
    /\ out \in Seq(Nat)
    /\ written \in 0..MaxWritten

(***************************************************************************)
(* The picture in xv_buffer.h: every store and load of xv_buffer.c stays   *)
(* inside the array, however calls, growth and compaction are mixed.       *)
(***************************************************************************)
IndicesOrdered ==
    /\ buffer.read_idx <= buffer.write_idx
    /\ buffer.write_idx <= buffer.size

(***************************************************************************)
(* The readable cells hold the newest bytes of the stream, in order: a     *)
(* realloc or memmove loses and shifts nothing, and no uninitialised cell  *)
(* is ever readable.                                                       *)
(***************************************************************************)
ContentIsStream ==
    \A k \in buffer.read_idx..(buffer.write_idx - 1) :
        buffer.buf[k] = written + 1 - (buffer.write_idx - k)

(***************************************************************************)
(* xv_buffer_ensure_writeable_size always grows and the array never        *)
(* shrinks; what keeps a long-lived connection's buffer from growing       *)
(* without limit is the compaction of xv_buffer_try_move.  As long as the  *)
(* reader keeps the backlog within MaxBacklog, the array stays below a     *)
(* bound that does not depend on how much goes through it.                 *)
(***************************************************************************)
MaxOf(a, b) == IF a >= b THEN a ELSE b

MemoryBound ==
    MaxOf(InitSize, MaxOf(2 * MaxBacklog + 3 * MaxLen,
                          MoveCheck + MaxBacklog + 2 * MaxLen))

MemoryBounded == buffer.size <= MemoryBound

(***************************************************************************)
(* What compaction leaves behind: a read index above both thresholds of    *)
(* xv_buffer_try_move never survives a call.                               *)
(***************************************************************************)
Compacted ==
    buffer.read_idx <= buffer.size \div 2 \/ buffer.read_idx <= MoveCheck

(* The inductive invariant behind the theorems of XvBufferProofs. *)
BufferInv ==
    /\ TypeOK
    /\ IndicesOrdered
    /\ xv_buffer_readable_size(buffer) <= MaxBacklog
    /\ xv_buffer_readable_size(buffer) <= written
    /\ ContentIsStream
    /\ Compacted
    /\ MemoryBounded

(***************************************************************************)
(* The buffer implements the byte stream: the reader receives exactly what *)
(* the writer stored, in order and once, whatever the array does meanwhile.*)
(***************************************************************************)
Content == LoadAtReadBegin(buffer, xv_buffer_readable_size(buffer))

Stream == INSTANCE XvByteStream WITH content <- Content

ImplementsByteStream == Stream!Spec

=============================================================================
