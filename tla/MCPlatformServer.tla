-------------------------- MODULE MCPlatformServer --------------------------
(* Small instances of PlatformServer.                                      *)
EXTENDS PlatformServer
=============================================================================
