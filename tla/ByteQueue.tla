------------------------------ MODULE ByteQueue ------------------------------
(***************************************************************************)
(* What the ring buffer of the two programs promises: a FIFO of bytes of   *)
(* bounded capacity.  A write takes the longest prefix of its argument     *)
(* that fits, a read delivers the oldest bytes, as many as were asked for  *)
(* or as there are.  Before ringbuf_init, and after a failed one, the      *)
(* queue exists with capacity 0.                                           *)
(***************************************************************************)
EXTENDS Integers, Sequences

CONSTANTS
  Size,      \* the capacity asked for by ringbuf_init
  Byte,      \* the values of a byte
  Data,      \* the byte strings the callers write
  Requests   \* the lengths the callers read

VARIABLES
  queue,     \* the bytes accepted and not delivered yet, oldest first
  cap,       \* the capacity: 0 or Size
  ret,       \* what the last call returned
  got        \* the bytes the last call delivered

qvars == <<queue, cap, ret, got>>

Smaller(a, b) == IF a <= b THEN a ELSE b

Init ==
  /\ queue = <<>>
  /\ cap = 0
  /\ ret = 0
  /\ got = <<>>

Put(data) ==
  LET n == Smaller(Len(data), cap - Len(queue))
  IN  /\ queue' = queue \o SubSeq(data, 1, n)
      /\ ret' = n
      /\ got' = <<>>
      /\ UNCHANGED cap

Get(n) ==
  LET m == Smaller(n, Len(queue))
  IN  /\ got' = SubSeq(queue, 1, m)
      /\ queue' = SubSeq(queue, m + 1, Len(queue))
      /\ ret' = m
      /\ UNCHANGED cap

Clear ==
  /\ queue' = <<>>
  /\ ret' = 0
  /\ got' = <<>>
  /\ UNCHANGED cap

\* Opening forgets what was queued, whether it succeeds or not.
Open ==
  /\ queue' = <<>>
  /\ got' = <<>>
  /\ \/ cap' = Size /\ ret' = 0
     \/ cap' = 0 /\ ret' = -1

Close ==
  /\ queue' = <<>>
  /\ cap' = 0
  /\ UNCHANGED <<ret, got>>

Query ==
  /\ ret' \in {Len(queue), cap - Len(queue), cap,
               IF queue = <<>> THEN 1 ELSE 0,
               IF Len(queue) = cap THEN 1 ELSE 0}
  /\ got' = <<>>
  /\ UNCHANGED <<queue, cap>>

Next ==
  \/ \E data \in Data : Put(data)
  \/ \E n \in Requests : Get(n)
  \/ Clear
  \/ Open
  \/ Close
  \/ Query

Spec == Init /\ [][Next]_qvars
=============================================================================
