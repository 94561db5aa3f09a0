---------------------------- MODULE XvByteStream ----------------------------
(***************************************************************************)
(* What a byte buffer promises its two users, a writer that appends and a  *)
(* reader that consumes: the unread bytes form a FIFO stream.  A byte is   *)
(* represented by its position in the stream of all bytes ever written,    *)
(* so that a lost, duplicated, reordered or invented byte shows up as a    *)
(* gap or a jump.                                                          *)
(***************************************************************************)
EXTENDS Naturals, Sequences

CONSTANT MaxLen     \* the largest number of bytes one operation moves

VARIABLES
    content,    \* the unread bytes, oldest first
    out,        \* the bytes the last operation handed to the reader
    written     \* how many bytes have ever been written

vars == <<content, out, written>>

(* The n bytes that follow the first `from` bytes of the stream. *)
Bytes(from, n) == [i \in 1..n |-> from + i]

Init ==
    /\ content = << >>
    /\ out = << >>
    /\ written = 0

Write(n) ==
    /\ content' = content \o Bytes(written, n)
    /\ written' = written + n
    /\ out' = << >>

Take(n) ==
    /\ n <= Len(content)
    /\ out' = SubSeq(content, 1, n)
    /\ content' = SubSeq(content, n + 1, Len(content))
    /\ UNCHANGED written

Drop ==
    /\ content' = << >>
    /\ out' = << >>
    /\ UNCHANGED written

(* The buffer may also reorganise its memory, which nobody notices but for *)
(* the end of the previous operation's output.                             *)
Rearrange ==
    /\ out' = << >>
    /\ UNCHANGED <<content, written>>

Next ==
    \/ \E n \in 0..MaxLen : Write(n) \/ Take(n)
    \/ Drop
    \/ Rearrange

Spec == Init /\ [][Next]_vars

=============================================================================
