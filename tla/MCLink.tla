------------------------------- MODULE MCLink -------------------------------
(* Packets of two units, room for one and a half of them both on the way   *)
(* down and in the ring, and for one packet on the way up; two plates, one *)
(* after the other, and a heartbeat that waits behind another.             *)
EXTENDS Link
=============================================================================
