----------------------------- MODULE MCFraming -----------------------------
(* Bytes below five, so that two of them hold lengths below twenty-five.   *)
(* The data: none; a few bytes; bytes that look like packets, as those of  *)
(* a picture may; and more than two bytes can count.                       *)
EXTENDS Framing

MCData == {<<>>, <<4>>, <<0, 1, 2>>, <<1, 2, 0, 4>>, <<1, 1, 2>>, <<1, 0, 2, 4, 1>>,
           [k \in 1..26 |-> k % 5]}
=============================================================================
