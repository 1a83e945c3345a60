----------------------------- MODULE MCNewFrame -----------------------------
(* One display and one recogniser.  Frames of lengths 1 and 3 against a    *)
(* store of 2 meet the clipping; an INT_MAX of 2 and three frames meet a   *)
(* display that moves on from one index to the next, the overflow of       *)
(* frame_index and an index that comes back.                               *)
EXTENDS NewFrame

CONSTANTS timer, recogn

MCReaders == {timer, recogn}
MCDisplays == {timer}
=============================================================================
