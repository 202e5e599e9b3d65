---------------------------- MODULE MCHttpServer ----------------------------
(* An instance of HttpServer for TLC. *)
EXTENDS HttpServer

R(p, cmd, full) == [path |-> p, cmd |-> cmd, full |-> full]

\* Every path, with what its handler wants and without, by the right method
\* and by wrong ones.
MCAsked ==
  {R("/login", "POST", TRUE), R("/login", "POST", FALSE), R("/login", "GET", TRUE),
   R("/add", "GET", TRUE), R("/add", "GET", FALSE), R("/sub", "GET", TRUE), R("/sub", "PUT", TRUE),
   R("/mul", "GET", FALSE), R("/mul", "POST", TRUE), R("/other", "GET", TRUE)}
=============================================================================
