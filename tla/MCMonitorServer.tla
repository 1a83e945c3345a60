-------------------------- MODULE MCMonitorServer --------------------------
(* Two connections, one after the other, and packets of two units.         *)
EXTENDS MonitorServer
=============================================================================
