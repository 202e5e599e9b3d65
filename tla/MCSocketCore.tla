---------------------------- MODULE MCSocketCore ----------------------------
(* Small instances of SocketCore.                                          *)
EXTENDS SocketCore

\* A client or a nanomsg socket: every session has a core of its own.
OwnCore == [s \in Sessions |-> s]

\* A server: every session it accepted parses with the processor's core.
SharedCore == [s \in Sessions |-> CHOOSE c \in Cores : TRUE]

\* Values of a size field that was never written as one.
AnySize == -1 .. 6
=============================================================================
