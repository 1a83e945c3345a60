-------------------------- MODULE MCPlatformClient --------------------------
(* Two sessions: the second may begin before the first has ended.          *)
EXTENDS PlatformClient
=============================================================================
