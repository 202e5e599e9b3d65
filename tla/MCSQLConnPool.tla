--------------------------- MODULE MCSQLConnPool ---------------------------
(* A small instance of SQLConnPool.                                        *)
EXTENDS SQLConnPool
=============================================================================
