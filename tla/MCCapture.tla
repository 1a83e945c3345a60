----------------------------- MODULE MCCapture -----------------------------
(* Three buffers, all of which may be refused in the end.                  *)
EXTENDS Capture
=============================================================================
