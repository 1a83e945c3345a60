---------------------------- MODULE MCRingBuffer ----------------------------
(* A ring of three cells with two byte values: requests from 0 to one more *)
(* than the ring can hold meet every branch and every wrap.                *)
EXTENDS RingBuffer

MCData == UNION {[1..k -> Byte] : k \in 0..(Size + 1)}
MCRequests == 0..(Size + 1)
=============================================================================
