--------------------------- MODULE XvBufferProofs ---------------------------
(***************************************************************************)
(* BufferInv is an invariant of xv_buffer_t for every size of the array,   *)
(* every compaction threshold, every length of a call and any number of    *)
(* bytes written.                                                          *)
(*                                                                         *)
(* The argument is one lemma for each function that changes the struct:    *)
(* what it keeps of the properties of Sound, BufferInv for an arbitrary    *)
(* struct b and stream position w.                                         *)
(***************************************************************************)
EXTENDS XvBuffer, SequenceTheorems, TLAPS

Struct(b) ==
    /\ b.size \in Nat
    /\ b.read_idx \in Nat
    /\ b.write_idx \in Nat
    /\ b.buf \in [0..(b.size - 1) -> Nat]

Ordered(b) == b.read_idx <= b.write_idx /\ b.write_idx <= b.size

Holds(b, w) ==
    /\ b.write_idx - b.read_idx <= MaxBacklog
    /\ b.write_idx - b.read_idx <= w
    /\ \A k \in b.read_idx..(b.write_idx - 1) :
            b.buf[k] = w + 1 - (b.write_idx - k)

Tight(b) == b.read_idx <= b.size \div 2 \/ b.read_idx <= MoveCheck

Small(b) == b.size <= MemoryBound

Sound(b, w) ==
    /\ Struct(b)
    /\ Ordered(b)
    /\ Holds(b, w)
    /\ Tight(b)
    /\ Small(b)

(* MemoryBound is at least each of the three sizes it is the maximum of. *)
LEMMA MemoryBoundCovers ==
    /\ MemoryBound \in Nat
    /\ InitSize <= MemoryBound
    /\ 2 * MaxBacklog + 3 * MaxLen <= MemoryBound
    /\ MoveCheck + MaxBacklog + 2 * MaxLen <= MemoryBound
BY BufferConstants DEF MemoryBound, MaxOf

(* A struct has the fields it was given. *)
LEMMA Fields ==
    ASSUME NEW f, NEW s, NEW r, NEW w
    PROVE  /\ xv_buffer_t(f, s, r, w).buf = f
           /\ xv_buffer_t(f, s, r, w).size = s
           /\ xv_buffer_t(f, s, r, w).read_idx = r
           /\ xv_buffer_t(f, s, r, w).write_idx = w
BY DEF xv_buffer_t

(* xv_buffer_clear leaves an empty buffer over the same array. *)
LEMMA ClearSound ==
    ASSUME NEW b, NEW w \in Nat, Struct(b), Small(b)
    PROVE  Sound(xv_buffer_clear(b), w)
<1> DEFINE c == xv_buffer_clear(b)
<1>1. /\ c.buf = b.buf /\ c.size = b.size
      /\ c.read_idx = 0 /\ c.write_idx = 0
  BY Fields DEF xv_buffer_clear
<1> HIDE DEF c
<1>2. Struct(c) /\ Ordered(c) /\ Small(c)
  BY <1>1 DEF Struct, Ordered, Small
<1>3. Holds(c, w) /\ Tight(c)
  BY <1>1, BufferConstants DEF Struct, Holds, Tight
<1> QED  BY <1>2, <1>3 DEF Sound, c

(* xv_buffer_try_move: an array whose read index has just advanced comes   *)
(* back compacted, with the same readable bytes.                           *)
LEMMA TryMoveSound ==
    ASSUME NEW b, NEW w \in Nat,
           Struct(b), Ordered(b), Holds(b, w), Small(b)
    PROVE  Sound(xv_buffer_try_move(b), w)
<1> DEFINE c == IF xv_buffer_readable_size(b) = 0 THEN xv_buffer_clear(b) ELSE b
<1>1. /\ Struct(c)
      /\ Ordered(c)
      /\ Holds(c, w)
      /\ Small(c)
  BY ClearSound DEF Sound
<1> HIDE DEF c
<1>2. CASE c.read_idx > c.size \div 2 /\ c.read_idx > MoveCheck
  <2> DEFINE m == MoveToFront(c)
             nread == c.write_idx - c.read_idx
  <2> DEFINE f == [k \in 0..(c.size - 1) |->
                    IF k < nread THEN c.buf[c.read_idx + k] ELSE c.buf[k]]
  <2>0. /\ c.size \in Nat /\ c.read_idx \in Nat /\ c.write_idx \in Nat
        /\ c.read_idx <= c.write_idx /\ c.write_idx <= c.size
        /\ nread \in Nat /\ nread <= c.size
        /\ nread = c.write_idx - c.read_idx
        /\ MoveCheck \in Nat
    BY <1>1, BufferConstants DEF Struct, Ordered
  <2>2. /\ m.buf = f /\ m.size = c.size
        /\ m.read_idx = 0 /\ m.write_idx = nread
    BY Fields DEF MoveToFront, xv_buffer_readable_size
  <2> HIDE DEF m, nread
  <2>3. m.buf \in [0..(m.size - 1) -> Nat]
    <3>1. ASSUME NEW k \in 0..(c.size - 1)
          PROVE  f[k] \in Nat
      <4>1. c.buf[k] \in Nat
        BY <1>1 DEF Struct
      <4>2. CASE k < nread
        <5>1. c.read_idx + k \in 0..(c.size - 1)
          BY <2>0, <4>2
        <5>2. c.buf[c.read_idx + k] \in Nat
          BY <1>1, <5>1 DEF Struct
        <5> QED  BY <4>2, <5>2
      <4>3. CASE ~(k < nread)
        BY <4>1, <4>3
      <4> QED  BY <4>2, <4>3
    <3> HIDE DEF f
    <3>2. f \in [0..(c.size - 1) -> Nat]
      BY <3>1 DEF f
    <3> QED  BY <2>2, <3>2
  <2>4. Struct(m) /\ Ordered(m) /\ Small(m) /\ Tight(m)
    BY <1>1, <2>0, <2>2, <2>3 DEF Struct, Ordered, Small, Tight
  <2>5. Holds(m, w)
    <3>1. ASSUME NEW k \in 0..(nread - 1)
          PROVE  m.buf[k] = w + 1 - (nread - k)
      <4>1. /\ k \in 0..(c.size - 1)
            /\ k < nread
            /\ c.read_idx + k \in c.read_idx..(c.write_idx - 1)
        BY <2>0
      <4>2. m.buf[k] = c.buf[c.read_idx + k]
        BY <2>2, <4>1
      <4>3. c.buf[c.read_idx + k] = w + 1 - (c.write_idx - (c.read_idx + k))
        BY <1>1, <4>1 DEF Holds
      <4>4. c.write_idx - (c.read_idx + k) = nread - k
        BY <2>0, <4>1
      <4> QED  BY <4>2, <4>3, <4>4
    <3>2. /\ m.write_idx - m.read_idx = nread
          /\ m.read_idx..(m.write_idx - 1) = 0..(nread - 1)
      BY <2>0, <2>2
    <3>3. nread <= MaxBacklog /\ nread <= w
      BY <1>1, <2>0 DEF Holds
    <3> QED  BY <2>2, <3>1, <3>2, <3>3 DEF Holds
  <2>6. xv_buffer_try_move(b) = m
    BY <1>2 DEF xv_buffer_try_move, c, m
  <2> QED  BY <2>4, <2>5, <2>6 DEF Sound
<1>3. CASE ~(c.read_idx > c.size \div 2 /\ c.read_idx > MoveCheck)
  <2>1. xv_buffer_try_move(b) = c
    BY <1>3 DEF xv_buffer_try_move, c
  <2>2. Tight(c)
    BY <1>1, <1>3, BufferConstants DEF Tight, Struct
  <2> QED  BY <1>1, <2>1, <2>2 DEF Sound
<1> QED  BY <1>2, <1>3

(* xv_buffer_try_move neither adds nor drops readable bytes. *)
LEMMA TryMoveSize ==
    ASSUME NEW b, b.read_idx \in Nat, b.write_idx \in Nat
    PROVE  LET c == xv_buffer_try_move(b)
           IN  c.write_idx - c.read_idx = b.write_idx - b.read_idx
<1> DEFINE c == IF xv_buffer_readable_size(b) = 0 THEN xv_buffer_clear(b) ELSE b
<1>1. /\ c.read_idx \in Nat /\ c.write_idx \in Nat
      /\ c.write_idx - c.read_idx = b.write_idx - b.read_idx
  <2>1. CASE b.write_idx - b.read_idx = 0
    <3>1. c = xv_buffer_clear(b)
      BY <2>1 DEF xv_buffer_readable_size
    <3> HIDE DEF c
    <3>2. c.read_idx = 0 /\ c.write_idx = 0
      BY <3>1, Fields DEF xv_buffer_clear
    <3> QED  BY <2>1, <3>2
  <2>2. CASE b.write_idx - b.read_idx # 0
    BY <2>2 DEF xv_buffer_readable_size
  <2> QED  BY <2>1, <2>2
<1> HIDE DEF c
<1>2. /\ MoveToFront(c).read_idx = 0
      /\ MoveToFront(c).write_idx = c.write_idx - c.read_idx
  BY Fields DEF MoveToFront, xv_buffer_readable_size
<1>3. xv_buffer_try_move(b) \in {c, MoveToFront(c)}
  BY DEF xv_buffer_try_move, c
<1> QED  BY <1>1, <1>2, <1>3

(* xv_buffer_ensure_writeable_size: the readable bytes stay where they     *)
(* are, the requested room is there, and compaction keeps the growth below *)
(* the bound.                                                              *)
LEMMA EnsureSound ==
    ASSUME NEW b, NEW w \in Nat, Sound(b, w), NEW n \in 0..MaxLen
    PROVE  LET e == xv_buffer_ensure_writeable_size(b, n)
           IN  /\ Sound(e, w)
               /\ n <= e.size - e.write_idx
               /\ e.read_idx = b.read_idx
               /\ e.write_idx = b.write_idx
               /\ \A k \in b.read_idx..(b.write_idx - 1) : e.buf[k] = b.buf[k]
<1> DEFINE e == xv_buffer_ensure_writeable_size(b, n)
<1>0. n \in Nat /\ n <= MaxLen
  BY BufferConstants
<1>1. CASE b.size - b.write_idx < n
  <2> DEFINE f == [k \in 0..((b.size + n) - 1) |->
                    IF k < b.size THEN b.buf[k] ELSE Garbage]
  <2>0. /\ b.size \in Nat /\ b.read_idx \in Nat /\ b.write_idx \in Nat
        /\ b.read_idx <= b.write_idx /\ b.write_idx <= b.size
        /\ b.write_idx - b.read_idx <= MaxBacklog
        /\ MaxBacklog \in Nat /\ MaxLen \in Nat /\ MoveCheck \in Nat
    BY BufferConstants DEF Sound, Struct, Ordered, Holds
  <2>1. /\ e.buf = f /\ e.size = b.size + n
        /\ e.read_idx = b.read_idx /\ e.write_idx = b.write_idx
    <3>a. e = xv_realloc(b, b.size + n)
      BY <1>1 DEF xv_buffer_ensure_writeable_size, xv_buffer_writeable_size
    <3>1. e = xv_buffer_t(f, b.size + n, b.read_idx, b.write_idx)
      BY <3>a, Zenon DEF xv_realloc
    <3> HIDE DEF e, f
    <3> QED  BY <3>1, Fields
  <2> HIDE DEF e
  <2>2. e.buf \in [0..(e.size - 1) -> Nat]
    <3>1. ASSUME NEW k \in 0..((b.size + n) - 1)
          PROVE  f[k] \in Nat
      <4>1. CASE k < b.size
        <5>1. k \in 0..(b.size - 1)
          BY <2>0, <4>1
        <5>2. b.buf[k] \in Nat
          BY <5>1 DEF Sound, Struct
        <5> QED  BY <4>1, <5>2
      <4>2. CASE ~(k < b.size)
        BY <4>2 DEF Garbage
      <4> QED  BY <4>1, <4>2
    <3>2. f \in [0..((b.size + n) - 1) -> Nat]
      BY <3>1
    <3> HIDE DEF f
    <3>3. e.buf = f /\ e.size = b.size + n
      BY <2>1
    <3> QED  BY <3>2, <3>3
  <2>3. Struct(e) /\ Ordered(e)
    <3>1. b.size + n \in Nat /\ b.write_idx <= b.size + n
      BY <1>0, <2>0
    <3> HIDE DEF f
    <3> QED  BY <2>0, <2>1, <2>2, <3>1 DEF Struct, Ordered
  <2>4. ASSUME NEW k \in b.read_idx..(b.write_idx - 1)
        PROVE  e.buf[k] = b.buf[k]
    <3>1. k \in 0..((b.size + n) - 1) /\ k < b.size
      BY <1>0, <2>0
    <3> QED  BY <2>1, <3>1
  <2> HIDE DEF f
  <2>5. Holds(e, w)
    BY <2>1, <2>4 DEF Sound, Holds
  <2>6. Tight(e)
    BY <1>0, <2>0, <2>1 DEF Sound, Tight
  <2>7. Small(e)
    <3>1. b.size < b.read_idx + MaxBacklog + n
      BY <1>0, <1>1, <2>0
    <3>2. CASE b.read_idx <= b.size \div 2
      <4>1. b.size + n <= 2 * MaxBacklog + 3 * MaxLen
        BY <1>0, <2>0, <3>1, <3>2
      <4> QED  BY <1>0, <2>0, <2>1, <4>1, MemoryBoundCovers DEF Small
    <3>3. CASE b.read_idx <= MoveCheck
      <4>1. b.size + n <= MoveCheck + MaxBacklog + 2 * MaxLen
        BY <1>0, <2>0, <3>1, <3>3
      <4> QED  BY <1>0, <2>0, <2>1, <4>1, MemoryBoundCovers DEF Small
    <3> QED  BY <3>2, <3>3 DEF Sound, Tight
  <2>8. n <= e.size - e.write_idx
    BY <1>0, <2>0, <2>1
  <2> QED  BY <2>1, <2>3, <2>4, <2>5, <2>6, <2>7, <2>8 DEF Sound, e
<1>2. CASE ~(b.size - b.write_idx < n)
  <2>1. e = b
    BY <1>2 DEF xv_buffer_ensure_writeable_size, xv_buffer_writeable_size
  <2>2. n <= b.size - b.write_idx
    BY <1>0, <1>2 DEF Sound, Struct
  <2> QED  BY <2>1, <2>2
<1> QED  BY <1>1, <1>2

(* Storing the next n bytes of the stream into the room behind write_idx   *)
(* and advancing it (xv_buffer_write_data and the read(2) of the service). *)
Stored(b, n) == xv_buffer_incr_write_index(StoreAtWriteBegin(b, n), n)

LEMMA StoreSound ==
    ASSUME NEW b, written \in Nat, Sound(b, written), NEW n \in 0..MaxLen,
           n <= b.size - b.write_idx,
           b.write_idx - b.read_idx + n <= MaxBacklog
    PROVE  /\ Sound(Stored(b, n), written + n)
           /\ Stored(b, n).read_idx = b.read_idx
           /\ Stored(b, n).write_idx = b.write_idx + n
           /\ \A k \in b.read_idx..(b.write_idx - 1) :
                    Stored(b, n).buf[k] = b.buf[k]
<1> DEFINE s == Stored(b, n)
<1>0. n \in Nat
  BY BufferConstants
<1>a. /\ b.size \in Nat /\ b.read_idx \in Nat /\ b.write_idx \in Nat
      /\ b.read_idx <= b.write_idx /\ b.write_idx <= b.size
      /\ b.write_idx - b.read_idx <= written
      /\ MaxBacklog \in Nat
  BY BufferConstants DEF Sound, Struct, Ordered, Holds
<1> DEFINE f == [k \in 0..(b.size - 1) |->
                  IF k \in b.write_idx..((b.write_idx + n) - 1)
                  THEN written + 1 + (k - b.write_idx)
                  ELSE b.buf[k]]
<1>1. /\ s.buf = f /\ s.size = b.size
      /\ s.read_idx = b.read_idx /\ s.write_idx = b.write_idx + n
  BY Fields DEF Stored, xv_buffer_incr_write_index, StoreAtWriteBegin
<1> HIDE DEF s
<1>2. s.buf \in [0..(s.size - 1) -> Nat]
  <2>1. ASSUME NEW k \in 0..(b.size - 1)
        PROVE  f[k] \in Nat
    <3>1. b.buf[k] \in Nat
      BY DEF Sound, Struct
    <3>2. CASE k \in b.write_idx..((b.write_idx + n) - 1)
      <4>1. written + 1 + (k - b.write_idx) \in Nat
        BY <1>0, <1>a, <3>2
      <4> QED  BY <3>2, <4>1
    <3>3. CASE k \notin b.write_idx..((b.write_idx + n) - 1)
      BY <3>1, <3>3
    <3> QED  BY <3>2, <3>3
  <2>2. f \in [0..(b.size - 1) -> Nat]
    BY <2>1
  <2> HIDE DEF f
  <2> QED  BY <1>1, <2>2
<1>3. Struct(s) /\ Ordered(s)
  <2> HIDE DEF f
  <2>1. b.write_idx + n \in Nat /\ b.write_idx + n <= b.size
    BY <1>0, <1>a
  <2> QED  BY <1>0, <1>a, <1>1, <1>2, <2>1 DEF Struct, Ordered
<1>4. Tight(s) /\ Small(s)
  <2> HIDE DEF f
  <2> QED  BY <1>1 DEF Sound, Tight, Small
<1>5. ASSUME NEW k \in b.read_idx..(b.write_idx - 1)
      PROVE  s.buf[k] = b.buf[k]
  <2>1. k \in 0..(b.size - 1) /\ k \notin b.write_idx..((b.write_idx + n) - 1)
    BY <1>0, <1>a
  <2> QED  BY <1>1, <2>1
<1>6. ASSUME NEW k \in s.read_idx..(s.write_idx - 1)
      PROVE  s.buf[k] = written + n + 1 - (s.write_idx - k)
  <2>0. k \in b.read_idx..((b.write_idx + n) - 1)
    <3> HIDE DEF f
    <3>1. s.read_idx = b.read_idx /\ s.write_idx = b.write_idx + n
      BY <1>1
    <3> QED  BY <3>1
  <2>1. CASE k \in b.read_idx..(b.write_idx - 1)
    <3>1. b.buf[k] = written + 1 - (b.write_idx - k)
      BY <2>1 DEF Sound, Holds
    <3>2. s.buf[k] = b.buf[k] /\ s.write_idx = b.write_idx + n
      BY <1>1, <1>5, <2>1
    <3>3. k \in Nat /\ b.write_idx \in Nat
      BY <1>a, <2>1
    <3> QED  BY <1>0, <3>1, <3>2, <3>3
  <2>2. CASE k \in b.write_idx..((b.write_idx + n) - 1)
    <3>1. k \in 0..(b.size - 1)
      BY <1>0, <1>a, <2>2
    <3>2. s.buf[k] = written + 1 + (k - b.write_idx)
      BY <1>1, <2>2, <3>1
    <3>3. s.write_idx = b.write_idx + n
      BY <1>1
    <3> QED  BY <1>0, <1>a, <2>2, <3>2, <3>3
  <2> QED  BY <1>0, <1>a, <2>0, <2>1, <2>2
<1> HIDE DEF f
<1>7. Holds(s, written + n)
  <2>1. /\ s.write_idx - s.read_idx <= MaxBacklog
        /\ s.write_idx - s.read_idx <= written + n
    BY <1>0, <1>a, <1>1
  <2> QED  BY <1>6, <2>1 DEF Holds
<1> QED  BY <1>1, <1>3, <1>4, <1>5, <1>7 DEF Sound, s

(* xv_buffer_incr_read_index, and with it xv_buffer_read_data: consuming n *)
(* of the readable bytes.                                                  *)
LEMMA AdvanceSound ==
    ASSUME NEW b, NEW w \in Nat, Sound(b, w),
           NEW n \in Nat, n <= b.write_idx - b.read_idx
    PROVE  LET c == xv_buffer_incr_read_index(b, n)
           IN  /\ Sound(c, w)
               /\ c.write_idx - c.read_idx = (b.write_idx - b.read_idx) - n
<1> DEFINE a == xv_buffer_t(b.buf, b.size, b.read_idx + n, b.write_idx)
<1>1. /\ a.buf = b.buf /\ a.size = b.size
      /\ a.read_idx = b.read_idx + n /\ a.write_idx = b.write_idx
  BY Fields
<1> HIDE DEF a
<1>2. Struct(a) /\ Ordered(a) /\ Small(a)
  BY <1>1 DEF Sound, Struct, Ordered, Small
<1>3. Holds(a, w)
  <2>1. /\ b.read_idx \in Nat /\ b.write_idx \in Nat /\ MaxBacklog \in Nat
        /\ b.write_idx - b.read_idx <= MaxBacklog
        /\ b.write_idx - b.read_idx <= w
    BY BufferConstants DEF Sound, Struct, Holds
  <2>2. /\ a.write_idx - a.read_idx <= MaxBacklog
        /\ a.write_idx - a.read_idx <= w
    BY <1>1, <2>1
  <2>3. ASSUME NEW k \in a.read_idx..(a.write_idx - 1)
        PROVE  a.buf[k] = w + 1 - (a.write_idx - k)
    <3>1. k \in b.read_idx..(b.write_idx - 1)
      BY <1>1, <2>1
    <3> QED  BY <1>1, <3>1 DEF Sound, Holds
  <2> QED  BY <2>2, <2>3 DEF Holds
<1>4. Sound(xv_buffer_try_move(a), w)
  BY <1>2, <1>3, TryMoveSound
<1>5. LET c == xv_buffer_try_move(a)
      IN  c.write_idx - c.read_idx = (b.write_idx - b.read_idx) - n
  <2>1. /\ b.read_idx \in Nat /\ b.write_idx \in Nat
        /\ a.read_idx \in Nat /\ a.write_idx \in Nat
    BY <1>2 DEF Sound, Struct
  <2>2. a.write_idx - a.read_idx = (b.write_idx - b.read_idx) - n
    BY <1>1, <2>1
  <2> QED  BY <2>1, <2>2, TryMoveSize
<1> QED  BY <1>4, <1>5 DEF xv_buffer_incr_read_index, a

-----------------------------------------------------------------------------
(* BufferInv is Sound of the buffer variable, and the types of the rest. *)
LEMMA InvIsSound ==
    BufferInv <=> /\ Sound(buffer, written)
                  /\ out \in Seq(Nat)
                  /\ written \in 0..MaxWritten
<1>1. TypeOK <=> /\ Struct(buffer)
                 /\ out \in Seq(Nat)
                 /\ written \in 0..MaxWritten
  BY Zenon DEF TypeOK, Struct
<1>2. IndicesOrdered <=> Ordered(buffer)
  BY Zenon DEF IndicesOrdered, Ordered
<1>3. Holds(buffer, written) <=>
        /\ xv_buffer_readable_size(buffer) <= MaxBacklog
        /\ xv_buffer_readable_size(buffer) <= written
        /\ ContentIsStream
  BY Zenon DEF Holds, xv_buffer_readable_size, ContentIsStream
<1>4. Compacted <=> Tight(buffer)
  BY Zenon DEF Compacted, Tight
<1>5. MemoryBounded <=> Small(buffer)
  BY Zenon DEF MemoryBounded, Small
<1> QED  BY <1>1, <1>2, <1>3, <1>4, <1>5 DEF BufferInv, Sound

(* The same, of the state after a step. *)
LEMMA InvIsSoundPrime ==
    (BufferInv <=> /\ Sound(buffer, written)
                   /\ out \in Seq(Nat)
                   /\ written \in 0..MaxWritten)'
BY InvIsSound, PTL

(* What a call hands to the reader is a sequence of bytes. *)
LEMMA LoadType ==
    ASSUME NEW b, Struct(b), Ordered(b), NEW n \in Nat,
           n <= b.write_idx - b.read_idx
    PROVE  LoadAtReadBegin(b, n) \in Seq(Nat)
<1>1. ASSUME NEW i \in 1..n
      PROVE  b.buf[b.read_idx + (i - 1)] \in Nat
  <2>1. b.read_idx + (i - 1) \in 0..(b.size - 1)
    BY DEF Struct, Ordered
  <2> QED  BY <2>1 DEF Struct
<1> QED  BY <1>1 DEF LoadAtReadBegin

(* A fresh buffer satisfies the invariant. *)
LEMMA InitSound == Init => BufferInv
<1> SUFFICES ASSUME Init PROVE BufferInv
  OBVIOUS
<1> DEFINE f == [k \in 0..(InitSize - 1) |-> Garbage]
<1>1. /\ buffer.buf = f /\ buffer.size = InitSize
      /\ buffer.read_idx = 0 /\ buffer.write_idx = 0
  BY Fields DEF Init, xv_buffer_init
<1>2. f \in [0..(InitSize - 1) -> Nat]
  BY DEF Garbage
<1> HIDE DEF f
<1>3. Struct(buffer) /\ Ordered(buffer)
  BY <1>1, <1>2, BufferConstants DEF Struct, Ordered
<1>4. Holds(buffer, 0) /\ Tight(buffer) /\ Small(buffer)
  BY <1>1, BufferConstants, MemoryBoundCovers DEF Holds, Tight, Small
<1>5. out \in Seq(Nat) /\ written = 0 /\ 0 \in 0..MaxWritten
  BY BufferConstants DEF Init
<1> QED  BY <1>3, <1>4, <1>5, InvIsSound DEF Sound

(* Every call of the buffer's user preserves the invariant. *)
LEMMA NextSound == BufferInv /\ [Next]_vars => BufferInv'
<1> SUFFICES ASSUME BufferInv, [Next]_vars PROVE BufferInv'
  OBVIOUS
<1>0. /\ Sound(buffer, written)
      /\ out \in Seq(Nat)
      /\ written \in Nat
      /\ MaxWritten \in Nat
      /\ written <= MaxWritten
  BY InvIsSound, BufferConstants
<1>a. Struct(buffer) /\ Ordered(buffer) /\ Small(buffer)
  BY <1>0 DEF Sound
<1>b. SUFFICES /\ Sound(buffer', written')
               /\ out' \in Seq(Nat)
               /\ written' \in 0..MaxWritten
  BY InvIsSoundPrime
<1>c. << >> \in Seq(Nat)
  OBVIOUS
<1>1. ASSUME NEW n \in 0..MaxLen, WriteData(n)
      PROVE  /\ Sound(buffer', written')
             /\ out' \in Seq(Nat)
             /\ written' \in 0..MaxWritten
  <2> DEFINE e == xv_buffer_ensure_writeable_size(buffer, n)
  <2>1. /\ Sound(e, written)
        /\ n <= e.size - e.write_idx
        /\ e.read_idx = buffer.read_idx
        /\ e.write_idx = buffer.write_idx
    BY <1>0, EnsureSound
  <2>2. /\ buffer' = Stored(e, n)
        /\ buffer.write_idx - buffer.read_idx + n <= MaxBacklog
        /\ written + n <= MaxWritten
        /\ written' = written + n
        /\ out' = << >>
    BY <1>1 DEF WriteData, MayWrite, Stored, xv_buffer_write_data,
                xv_buffer_readable_size
  <2> HIDE DEF e
  <2>3. Sound(Stored(e, n), written + n)
    BY <1>0, <2>1, <2>2, StoreSound
  <2> QED  BY <1>0, <1>c, <2>2, <2>3, BufferConstants
<1>2. ASSUME NEW n \in 0..MaxLen, EnsureWriteable(n)
      PROVE  /\ Sound(buffer', written')
             /\ out' \in Seq(Nat)
             /\ written' \in 0..MaxWritten
  <2>1. Sound(buffer', written)
    BY <1>0, <1>2, EnsureSound DEF EnsureWriteable
  <2> QED  BY <1>0, <1>2, <1>c, <2>1 DEF EnsureWriteable
<1>3. ASSUME NEW n \in 0..MaxLen, Fill(n)
      PROVE  /\ Sound(buffer', written')
             /\ out' \in Seq(Nat)
             /\ written' \in 0..MaxWritten
  <2>1. /\ buffer' = Stored(buffer, n)
        /\ n <= buffer.size - buffer.write_idx
        /\ buffer.write_idx - buffer.read_idx + n <= MaxBacklog
        /\ written + n <= MaxWritten
        /\ written' = written + n
        /\ out' = << >>
    BY <1>3 DEF Fill, MayWrite, Stored, xv_buffer_readable_size,
                xv_buffer_writeable_size
  <2>2. Sound(Stored(buffer, n), written + n)
    BY <1>0, <2>1, StoreSound
  <2> QED  BY <1>0, <1>c, <2>1, <2>2, BufferConstants
<1>4. ASSUME NEW n \in 0..MaxLen, ReadData(n)
      PROVE  /\ Sound(buffer', written')
             /\ out' \in Seq(Nat)
             /\ written' \in 0..MaxWritten
  <2> DEFINE m == ClippedLen(buffer, n)
  <2>1. m \in Nat /\ m <= buffer.write_idx - buffer.read_idx
    BY <1>a, BufferConstants
    DEF ClippedLen, xv_buffer_readable_size, Struct, Ordered
  <2>2. /\ buffer' = xv_buffer_incr_read_index(buffer, m)
        /\ out' = LoadAtReadBegin(buffer, m)
        /\ written' = written
    BY <1>4 DEF ReadData, xv_buffer_read_data
  <2> HIDE DEF m
  <2> QED  BY <1>0, <1>a, <2>1, <2>2, AdvanceSound, LoadType
<1>5. ASSUME NEW n \in 0..MaxLen, Flush(n)
      PROVE  /\ Sound(buffer', written')
             /\ out' \in Seq(Nat)
             /\ written' \in 0..MaxWritten
  <2>1. n \in Nat /\ n <= buffer.write_idx - buffer.read_idx
    BY <1>5, BufferConstants DEF Flush, xv_buffer_readable_size
  <2> QED  BY <1>0, <1>a, <1>5, <2>1, AdvanceSound, LoadType DEF Flush
<1>6. CASE Clear
  BY <1>0, <1>a, <1>c, <1>6, ClearSound DEF Clear
<1>7. CASE UNCHANGED vars
  BY <1>0, <1>7 DEF vars
<1> QED  BY <1>1, <1>2, <1>3, <1>4, <1>5, <1>6, <1>7 DEF Next

(***************************************************************************)
(* Whatever sequence of xv_buffer.h calls the users make, the indices stay *)
(* ordered and inside the array, the readable cells hold the newest bytes  *)
(* of the stream, and the array stays below MemoryBound.                   *)
(***************************************************************************)
THEOREM BufferSafe == Spec => []BufferInv
BY InitSound, NextSound, PTL DEF Spec

(* The picture of xv_buffer.h holds in every reachable state. *)
THEOREM IndicesAlwaysOrdered == Spec => []IndicesOrdered
<1>1. BufferInv => IndicesOrdered
  BY DEF BufferInv
<1> QED  BY BufferSafe, <1>1, PTL

(* Growth is bounded by the backlog and the length of a call, not by the   *)
(* amount of data that goes through the buffer.                            *)
THEOREM MemoryAlwaysBounded == Spec => []MemoryBounded
<1>1. BufferInv => MemoryBounded
  BY DEF BufferInv
<1> QED  BY BufferSafe, <1>1, PTL

-----------------------------------------------------------------------------
(***************************************************************************)
(* Refinement.  By ContentIsStream the n bytes a reader finds are numbered *)
(* consecutively, and the unread ones end with byte `written`: sequences   *)
(* of consecutive numbers are all the proof has to compare.                *)
(***************************************************************************)
Run(from, n) == [i \in 1..n |-> from + i]

LEMMA RunIsSeq ==
    ASSUME NEW from \in Nat, NEW n \in Nat
    PROVE  Run(from, n) \in Seq(Nat) /\ Len(Run(from, n)) = n
BY DEF Run

LEMMA RunConcat ==
    ASSUME NEW from \in Nat, NEW m \in Nat, NEW n \in Nat
    PROVE  Run(from, m) \o Run(from + m, n) = Run(from, m + n)
<1> DEFINE s == Run(from, m)
           t == Run(from + m, n)
           u == Run(from, m + n)
<1>0. from + m \in Nat /\ m + n \in Nat
  OBVIOUS
<1>1. /\ s \in Seq(Nat) /\ Len(s) = m
      /\ t \in Seq(Nat) /\ Len(t) = n
      /\ u \in Seq(Nat) /\ Len(u) = m + n
  BY <1>0, RunIsSeq
<1>2. /\ \A i \in 1..m : s[i] = from + i
      /\ \A i \in 1..n : t[i] = from + m + i
      /\ \A i \in 1..(m + n) : u[i] = from + i
  BY DEF Run
<1> HIDE DEF s, t, u
<1>3. /\ s \o t \in Seq(Nat) /\ Len(s \o t) = m + n
      /\ \A i \in 1..(m + n) : (s \o t)[i] = IF i <= m THEN s[i] ELSE t[i - m]
  BY <1>1, ConcatProperties
<1>4. ASSUME NEW i \in 1..(m + n)
      PROVE  (s \o t)[i] = u[i]
  <2>1. CASE i <= m
    <3>1. i \in 1..m
      BY <2>1
    <3> QED  BY <1>2, <1>3, <2>1, <3>1
  <2>2. CASE i > m
    <3>1. i - m \in 1..n
      BY <2>2
    <3>2. (s \o t)[i] = t[i - m]
      BY <1>3, <2>2
    <3>3. t[i - m] = from + m + (i - m)
      BY <1>2, <3>1
    <3>4. u[i] = from + i
      BY <1>2
    <3>5. from + m + (i - m) = from + i
      OBVIOUS
    <3> QED  BY <3>2, <3>3, <3>4, <3>5
  <2>3. i <= m \/ i > m
    OBVIOUS
  <2> QED  BY <2>1, <2>2, <2>3, Zenon
<1>5. s \o t = u
  BY <1>1, <1>3, <1>4, SeqEqual
<1> QED  BY <1>5 DEF s, t, u

LEMMA RunSubSeq ==
    ASSUME NEW from \in Nat, NEW m \in Nat, NEW n \in Nat, n <= m
    PROVE  /\ SubSeq(Run(from, m), 1, n) = Run(from, n)
           /\ SubSeq(Run(from, m), n + 1, m) = Run(from + n, m - n)
BY DEF Run

(* What a reader finds at xv_buffer_read_begin. *)
LEMMA LoadIsRun ==
    ASSUME NEW b, NEW w \in Nat, Sound(b, w),
           NEW n \in Nat, n <= b.write_idx - b.read_idx
    PROVE  /\ w - (b.write_idx - b.read_idx) \in Nat
           /\ LoadAtReadBegin(b, n) = Run(w - (b.write_idx - b.read_idx), n)
<1>1. /\ b.read_idx \in Nat /\ b.write_idx \in Nat
      /\ b.read_idx <= b.write_idx
      /\ b.write_idx - b.read_idx <= w
  BY DEF Sound, Struct, Ordered, Holds
<1>2. ASSUME NEW i \in 1..n
      PROVE  b.buf[b.read_idx + (i - 1)] = (w - (b.write_idx - b.read_idx)) + i
  <2>1. b.read_idx + (i - 1) \in b.read_idx..(b.write_idx - 1)
    BY <1>1
  <2>2. b.buf[b.read_idx + (i - 1)]
            = w + 1 - (b.write_idx - (b.read_idx + (i - 1)))
    BY <2>1 DEF Sound, Holds
  <2> QED  BY <1>1, <2>2
<1> QED  BY <1>1, <1>2 DEF LoadAtReadBegin, Run

(* The unread bytes of a sound buffer. *)
LEMMA ContentIsRun ==
    ASSUME NEW b, NEW w \in Nat, Sound(b, w)
    PROVE  LET N == b.write_idx - b.read_idx
           IN  /\ N \in Nat /\ N <= w /\ w - N \in Nat
               /\ LoadAtReadBegin(b, xv_buffer_readable_size(b)) = Run(w - N, N)
<1>1. b.write_idx - b.read_idx \in Nat /\ b.write_idx - b.read_idx <= w
  BY DEF Sound, Struct, Ordered, Holds
<1> QED  BY <1>1, LoadIsRun DEF xv_buffer_readable_size

(* The buffer and the stream start empty. *)
LEMMA InitRefines == Init => Stream!Init
<1> SUFFICES ASSUME Init PROVE Stream!Init
  OBVIOUS
<1>1. buffer.read_idx = 0 /\ buffer.write_idx = 0 /\ written = 0 /\ out = << >>
  BY Fields DEF Init, xv_buffer_init
<1>2. xv_buffer_readable_size(buffer) = 0
  BY <1>1 DEF xv_buffer_readable_size
<1>3. Content = << >>
  BY <1>2 DEF Content, LoadAtReadBegin
<1> QED  BY <1>1, <1>3 DEF Stream!Init

(* Every call is a step of the stream, or leaves it alone. *)
LEMMA NextRefines ==
    BufferInv /\ BufferInv' /\ [Next]_vars => [Stream!Next]_(Stream!vars)
<1> SUFFICES ASSUME BufferInv, BufferInv', [Next]_vars
             PROVE  [Stream!Next]_(Stream!vars)
  OBVIOUS
<1> DEFINE N == buffer.write_idx - buffer.read_idx
<1>1. Sound(buffer, written) /\ written \in Nat
  BY InvIsSound, BufferConstants
<1>2. Sound(buffer', written') /\ written' \in Nat
  <2>1. written' \in 0..MaxWritten
    BY DEF BufferInv, TypeOK
  <2>2. written' \in Nat
    BY <2>1, BufferConstants
  <2> QED  BY <2>2, InvIsSoundPrime
<1>3. /\ N \in Nat /\ N <= written /\ written - N \in Nat
      /\ Content = Run(written - N, N)
  BY <1>1, ContentIsRun DEF Content
<1> DEFINE M == buffer'.write_idx - buffer'.read_idx
<1>4. /\ M \in Nat /\ M <= written' /\ written' - M \in Nat
      /\ Content' = Run(written' - M, M)
  BY <1>2, ContentIsRun DEF Content
<1>5. Len(Content) = N
  BY <1>3, RunIsSeq
<1>6. \A n \in 0..MaxLen : n \in Nat
  BY BufferConstants
<1>7. ASSUME NEW n \in 0..MaxLen,
             M = N + n, written' = written + n, out' = << >>
      PROVE  Stream!Write(n)
  <2> HIDE DEF M, N
  <2>1. /\ written - N \in Nat /\ N \in Nat /\ n \in Nat
        /\ (written - N) + N = written
        /\ written' - M = written - N
    BY <1>1, <1>3, <1>6, <1>7
  <2>2. Content' = Run(written - N, N) \o Run(written, n)
    <3>1. Run(written - N, N) \o Run((written - N) + N, n) = Run(written - N, N + n)
      BY <2>1, RunConcat
    <3>2. Content' = Run(written - N, N + n)
      BY <1>4, <1>7, <2>1
    <3> QED  BY <2>1, <3>1, <3>2
  <2> QED  BY <1>3, <1>7, <2>2 DEF Stream!Write, Stream!Bytes, Run
<1>8. ASSUME NEW n \in 0..MaxLen, n <= N,
             M = N - n, written' = written, out' = LoadAtReadBegin(buffer, n)
      PROVE  Stream!Take(n)
  <2>0. n \in Nat
    BY <1>6
  <2>1. out' = Run(written - N, n)
    BY <1>1, <1>8, <2>0, LoadIsRun
  <2> HIDE DEF M, N
  <2>2. written' - M = (written - N) + n
    BY <1>1, <1>3, <1>8, <2>0
  <2>3. /\ SubSeq(Content, 1, n) = Run(written - N, n)
        /\ SubSeq(Content, n + 1, N) = Run((written - N) + n, N - n)
    BY <1>3, <1>8, <2>0, RunSubSeq
  <2> QED  BY <1>4, <1>5, <1>8, <2>1, <2>2, <2>3 DEF Stream!Take
<1>9. ASSUME NEW n \in 0..MaxLen, WriteData(n)
      PROVE  Stream!Write(n)
  <2> DEFINE e == xv_buffer_ensure_writeable_size(buffer, n)
  <2>1. /\ Sound(e, written)
        /\ n <= e.size - e.write_idx
        /\ e.read_idx = buffer.read_idx
        /\ e.write_idx = buffer.write_idx
    BY <1>1, EnsureSound
  <2>2. /\ buffer' = Stored(e, n)
        /\ buffer.write_idx - buffer.read_idx + n <= MaxBacklog
        /\ written' = written + n
        /\ out' = << >>
    BY <1>9 DEF WriteData, MayWrite, Stored, xv_buffer_write_data,
                xv_buffer_readable_size
  <2> HIDE DEF e
  <2>3. /\ buffer'.read_idx = buffer.read_idx
        /\ buffer'.write_idx = buffer.write_idx + n
    BY <1>1, <2>1, <2>2, StoreSound
  <2>4. M = N + n
    BY <1>1, <1>6, <2>3 DEF Sound, Struct
  <2> HIDE DEF M
  <2> QED  BY <1>7, <2>2, <2>4
<1>10. ASSUME NEW n \in 0..MaxLen, Fill(n)
       PROVE  Stream!Write(n)
  <2>1. /\ buffer' = Stored(buffer, n)
        /\ n <= buffer.size - buffer.write_idx
        /\ buffer.write_idx - buffer.read_idx + n <= MaxBacklog
        /\ written' = written + n
        /\ out' = << >>
    BY <1>10 DEF Fill, MayWrite, Stored, xv_buffer_readable_size,
                 xv_buffer_writeable_size
  <2>2. /\ buffer'.read_idx = buffer.read_idx
        /\ buffer'.write_idx = buffer.write_idx + n
    BY <1>1, <2>1, StoreSound
  <2>3. M = N + n
    BY <1>1, <1>6, <2>2 DEF Sound, Struct
  <2> HIDE DEF M
  <2> QED  BY <1>7, <2>1, <2>3
<1>11. ASSUME NEW n \in 0..MaxLen, EnsureWriteable(n)
       PROVE  Stream!Rearrange
  <2>1. M = N /\ written' = written /\ out' = << >>
    BY <1>1, <1>11, EnsureSound DEF EnsureWriteable
  <2> HIDE DEF M, N
  <2> QED  BY <1>3, <1>4, <2>1 DEF Stream!Rearrange
<1>12. ASSUME NEW n \in 0..MaxLen, ReadData(n)
       PROVE  \E m \in 0..MaxLen : Stream!Take(m)
  <2> DEFINE m == ClippedLen(buffer, n)
  <2>1. m \in Nat /\ m \in 0..MaxLen /\ m <= N
    BY <1>3, <1>6, BufferConstants DEF ClippedLen, xv_buffer_readable_size
  <2>2. /\ buffer' = xv_buffer_incr_read_index(buffer, m)
        /\ out' = LoadAtReadBegin(buffer, m)
        /\ written' = written
    BY <1>12 DEF ReadData, xv_buffer_read_data
  <2> HIDE DEF m
  <2>3. M = N - m
    BY <1>1, <2>1, <2>2, AdvanceSound
  <2> HIDE DEF M, N
  <2> QED  BY <1>8, <2>1, <2>2, <2>3
<1>13. ASSUME NEW n \in 0..MaxLen, Flush(n)
       PROVE  Stream!Take(n)
  <2>1. n \in Nat /\ n <= N /\ written' = written
        /\ out' = LoadAtReadBegin(buffer, n)
        /\ buffer' = xv_buffer_incr_read_index(buffer, n)
    BY <1>6, <1>13 DEF Flush, xv_buffer_readable_size
  <2>2. M = N - n
    BY <1>1, <2>1, AdvanceSound
  <2> HIDE DEF M, N
  <2> QED  BY <1>8, <2>1, <2>2
<1>14. ASSUME Clear
       PROVE  Stream!Drop
  <2>1. buffer'.read_idx = 0 /\ buffer'.write_idx = 0
    BY <1>14, Fields DEF Clear, xv_buffer_clear
  <2>2. M = 0
    BY <2>1
  <2> HIDE DEF M
  <2>3. Content' = << >>
    BY <1>4, <2>2 DEF Run
  <2> QED  BY <1>14, <2>3 DEF Clear, Stream!Drop
<1>15. ASSUME UNCHANGED vars
       PROVE  UNCHANGED Stream!vars
  BY <1>15 DEF vars, Stream!vars, Content
<1> HIDE DEF M, N
<1> QED
  BY <1>9, <1>10, <1>11, <1>12, <1>13, <1>14, <1>15 DEF Next, Stream!Next

(***************************************************************************)
(* xv_buffer_t implements the byte stream: for every array size and every  *)
(* mix of calls the reader gets the bytes the writer stored, in order,     *)
(* each once, through any number of reallocs and memmoves.                 *)
(***************************************************************************)
THEOREM BufferImplementsStream == Spec => ImplementsByteStream
<1>1. Spec => Stream!Init /\ [][Stream!Next]_(Stream!vars)
  BY InitRefines, NextRefines, BufferSafe, PTL DEF Spec
<1> QED  BY <1>1 DEF ImplementsByteStream, Stream!Spec

=============================================================================
