----------------------------- MODULE RingBuffer -----------------------------
(***************************************************************************)
(* The ring buffer of monitor/ringbuffer.cpp (platform/ringbuffer.cpp is   *)
(* the same file): a struct of size, head, tail and len over a malloc'ed   *)
(* array.  Each branch of ringbuf_write and ringbuf_read is an action.     *)
(* No caller passes NULL or a negative length, so the early returns for    *)
(* those are left out.                                                     *)
(***************************************************************************)
EXTENDS Integers, Sequences

CONSTANTS
  Size,      \* the size passed to ringbuf_init
  Byte,      \* the values of a byte
  Junk,      \* what malloc leaves in a cell
  Data,      \* the byte strings the callers write
  Requests   \* the lengths the callers read

ASSUME SizeAssumption == Size \in Nat \ {0}
ASSUME JunkAssumption == Junk \notin Byte
ASSUME DataAssumption == Data \subseteq Seq(Byte)
ASSUME RequestsAssumption == Requests \subseteq Nat

VARIABLES
  buf,       \* the array, a function on 0..size-1
  size,
  head,      \* where the next byte is written
  tail,      \* where the next byte is read
  len,       \* number of bytes held
  ret,       \* what the last call returned
  got        \* the bytes the last ringbuf_read copied out

vars == <<buf, size, head, tail, len, ret, got>>

Smaller(a, b) == IF a <= b THEN a ELSE b

\* memcpy(b + at, data + from, n)
CopyIn(b, at, data, from, n) ==
  [i \in DOMAIN b |-> IF i >= at /\ i < at + n THEN data[from + i - at + 1] ELSE b[i]]

\* memcpy(out, buf + at, n)
CopyOut(at, n) == [i \in 1..n |-> buf[at + i - 1]]

NoArray == [i \in 0..-1 |-> Junk]

\* A zeroed struct, as in the static client_info_t of either program.
Init ==
  /\ buf = NoArray
  /\ size = 0
  /\ head = 0
  /\ tail = 0
  /\ len = 0
  /\ ret = 0
  /\ got = <<>>
-----------------------------------------------------------------------------
(* ringbuf_write *)

\* The early return: the ring is full or there is nothing to write.
WriteNothing(data) ==
  /\ len = size \/ data = <<>>
  /\ ret' = 0
  /\ got' = <<>>
  /\ UNCHANGED <<buf, size, head, tail, len>>

Stored(n) ==
  /\ len' = len + n
  /\ ret' = n
  /\ got' = <<>>
  /\ UNCHANGED <<size, tail>>

\* Mutant: the index that reaches the end is not wrapped.
WriteToEndUnwrapped(data) ==
  LET n == Len(data)
  IN  /\ len # size /\ n > 0
      /\ head >= tail
      /\ size - head >= n
      /\ buf' = CopyIn(buf, head, data, 0, n)
      /\ head' = head + n
      /\ Stored(n)

\* The data fits between head and the end of the array.
WriteToEnd(data) ==
  LET n == Len(data)
  IN  /\ len # size /\ n > 0
      /\ head >= tail
      /\ size - head >= n
      /\ buf' = CopyIn(buf, head, data, 0, n)
      /\ head' = (head + n) % size
      /\ Stored(n)

\* The data goes on at the start of the array, up to tail.
WriteAround(data) ==
  LET n == Len(data)
      first == size - head
      second == Smaller(n - first, tail)
  IN  /\ len # size /\ n > 0
      /\ head >= tail
      /\ size - head < n
      /\ buf' = CopyIn(CopyIn(buf, head, data, 0, first), 0, data, first, second)
      /\ head' = second
      /\ Stored(first + second)

\* Mutant: the cell at tail, which is taken, counts as free.
WriteGapOneMore(data) ==
  LET n == Len(data)
      put == IF n <= tail - head THEN n ELSE tail - head + 1
  IN  /\ len # size /\ n > 0
      /\ head < tail
      /\ buf' = CopyIn(buf, head, data, 0, put)
      /\ head' = head + put
      /\ Stored(put)

\* The free space lies between head and tail.
WriteGap(data) ==
  LET n == Len(data)
      put == IF n <= tail - head - 1 THEN n ELSE tail - head
  IN  /\ len # size /\ n > 0
      /\ head < tail
      /\ buf' = CopyIn(buf, head, data, 0, put)
      /\ head' = head + put
      /\ Stored(put)

Write(data) ==
  \/ WriteNothing(data)
  \/ WriteToEnd(data)
  \/ WriteAround(data)
  \/ WriteGap(data)
-----------------------------------------------------------------------------
(* ringbuf_read *)

ReadNothing ==
  /\ len = 0
  /\ ret' = 0
  /\ got' = <<>>
  /\ UNCHANGED <<buf, size, head, tail, len>>

Removed(n) ==
  /\ len' = len - n
  /\ ret' = n
  /\ UNCHANGED <<buf, size, head>>

\* Mutant: bounded by the end of the array, not by head.
ReadUpToHeadUnclipped(n) ==
  LET take == Smaller(n, size - tail)
  IN  /\ len # 0
      /\ head > tail
      /\ got' = CopyOut(tail, take)
      /\ tail' = tail + take
      /\ Removed(take)

\* The data lies between tail and head.
ReadUpToHead(n) ==
  LET take == Smaller(n, head - tail)
  IN  /\ len # 0
      /\ head > tail
      /\ got' = CopyOut(tail, take)
      /\ tail' = tail + take
      /\ Removed(take)

\* The data wraps, and enough of it lies before the end of the array.
ReadToEnd(n) ==
  /\ len # 0
  /\ head <= tail
  /\ size - tail >= n
  /\ got' = CopyOut(tail, n)
  /\ tail' = (tail + n) % size
  /\ Removed(n)

\* The read goes on at the start of the array, up to head.
ReadAround(n) ==
  LET first == size - tail
      second == Smaller(n - first, head)
  IN  /\ len # 0
      /\ head <= tail
      /\ size - tail < n
      /\ got' = CopyOut(tail, first) \o CopyOut(0, second)
      /\ tail' = second
      /\ Removed(first + second)

Read(n) ==
  \/ ReadNothing
  \/ ReadUpToHead(n)
  \/ ReadToEnd(n)
  \/ ReadAround(n)
-----------------------------------------------------------------------------
(* Life cycle and queries *)

\* memset of the struct
Zeroed ==
  /\ head' = 0
  /\ tail' = 0
  /\ len' = 0

\* ringbuf_init: the array of a ring initialised before is lost.
InitRing ==
  /\ Zeroed
  /\ got' = <<>>
  /\ \/ /\ buf' = [i \in 0..(Size - 1) |-> Junk]
        /\ size' = Size
        /\ ret' = 0
     \/ /\ buf' = NoArray           \* malloc failed
        /\ size' = 0
        /\ ret' = -1

Reset ==
  /\ Zeroed
  /\ ret' = 0
  /\ got' = <<>>
  /\ UNCHANGED <<buf, size>>

Deinit ==
  /\ Zeroed
  /\ buf' = NoArray
  /\ size' = 0
  /\ UNCHANGED <<ret, got>>

Empty   == IF len = 0 THEN 1 ELSE 0
Full    == IF len = size THEN 1 ELSE 0
Space   == size - len

\* ringbuf_empty, ringbuf_full, ringbuf_datalen, ringbuf_space, ringbuf_size
Query ==
  /\ ret' \in {Empty, Full, len, Space, size}
  /\ got' = <<>>
  /\ UNCHANGED <<buf, size, head, tail, len>>

Next ==
  \/ \E data \in Data : Write(data)
  \/ \E n \in Requests : Read(n)
  \/ InitRing
  \/ Reset
  \/ Deinit
  \/ Query

Spec == Init /\ [][Next]_vars
-----------------------------------------------------------------------------
(* Properties *)

\* The fields of the struct and of the array have their types.
TypeOK ==
  /\ size \in {0, Size}
  /\ buf \in [0..(size - 1) -> Byte \cup {Junk}]
  /\ head \in Nat
  /\ tail \in Nat
  /\ len \in Nat
  /\ ret \in Int
  /\ got \in Seq(Byte \cup {Junk})

\* head, tail and len tell one story: both indices are inside the array (or
\* 0 when there is none), and len is the distance from tail to head, which
\* only len itself can tell apart between empty and full.
IndicesAgree ==
  /\ size = 0 => head = 0 /\ tail = 0 /\ len = 0
  /\ size > 0 => head < size /\ tail < size
  /\ head > tail => len = head - tail
  /\ head < tail => len = size - tail + head
  /\ head = tail => len \in {0, size}

\* The array cell that holds the byte at distance k from tail.
Slot(k) == IF tail + k < size THEN tail + k ELSE tail + k - size

\* The bytes held, oldest first.
Contents == [i \in 1..len |-> buf[Slot(i - 1)]]

\* No byte that malloc left in the array is ever handed to the parser: the
\* cells between tail and head were all written, and so were those read out.
OnlyWrittenBytes ==
  /\ \A k \in 0..(len - 1) : buf[Slot(k)] \in Byte
  /\ got \in Seq(Byte)

\* The ring buffer implements the byte queue: whatever the wrap, no byte is
\* lost, duplicated or reordered, and every return value is the right one.
BQ == INSTANCE ByteQueue WITH queue <- Contents, cap <- size
ImplementsByteQueue == BQ!Spec
=============================================================================
