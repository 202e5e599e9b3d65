----------------------------- MODULE PairNodes -----------------------------
(***************************************************************************)
(* The two processes of nanomsg_ipc/main.cpp over a nanomsg pair socket.   *)
(* node0 binds, node1 connects; each then repeats: receive one message,    *)
(* giving up after 100 ms, and send one, without a limit of time.          *)
(*                                                                         *)
(* bind, connect and setsockopt are called inside assert: with NDEBUG, as  *)
(* in the Release configurations of nanomsg_ipc.vcxproj, they are not      *)
(* called at all.                                                          *)
(*                                                                         *)
(* External, modelled from how the program uses nanomsg: a pair is linked  *)
(* once one end is bound and the other connected; what is sent is kept for *)
(* the peer, at most Capacity messages each way; sending waits while there *)
(* is no peer or no room.  A process may die at any time and be started    *)
(* again; what was on its way is then lost.  A message sent is there for   *)
(* the peer well within 100 ms.  Messages are all alike, heartbeats, so    *)
(* they are only counted.                                                  *)
(***************************************************************************)
EXTENDS Naturals

CONSTANTS Release,    \* built with NDEBUG
          Capacity    \* messages the transport holds in one direction

ASSUME ReleaseAssumption  == Release \in BOOLEAN
ASSUME CapacityAssumption == Capacity \in Nat /\ Capacity >= 1

Nodes   == {0, 1}
Peer(n) == 1 - n

VARIABLES at,         \* at[n]: where node n is
          attached,   \* attached[n]: its bind or connect was done
          limited,    \* limited[n]: NN_RCVTIMEO is set
          linked,     \* the two sockets are a pair
          inbox       \* inbox[n]: messages on their way to n

pairVars == <<at, attached, limited, linked, inbox>>

PairInit ==
  /\ at = [n \in Nodes |-> "off"]
  /\ attached = [n \in Nodes |-> FALSE] /\ limited = [n \in Nodes |-> FALSE]
  /\ linked = FALSE
  /\ inbox = [n \in Nodes |-> 0]

Goto(n, l) == at' = [at EXCEPT ![n] = l]

-----------------------------------------------------------------------------
(* A process.                                                              *)

\* create succeeds; when it fails the assertion ends the process.
create(n) ==
  /\ at[n] = "off" /\ Goto(n, "created")
  /\ UNCHANGED <<attached, limited, linked, inbox>>

\* assert(bind(url) >= 0), assert(connect(url) >= 0): the process goes on only
\* if it succeeds, or if the call is not there.
attach(n) ==
  /\ at[n] = "created" /\ Goto(n, "attached")
  /\ attached' = [attached EXCEPT ![n] = ~ Release]
  /\ UNCHANGED <<limited, linked, inbox>>

\* Slip: the time limit is not set.
setsockoptLeft(n) ==
  /\ at[n] = "attached" /\ Goto(n, "recv")
  /\ UNCHANGED <<attached, limited, linked, inbox>>

\* assert(setsockopt(NN_RCVTIMEO) >= 0).
setsockopt(n) ==
  /\ at[n] = "attached" /\ Goto(n, "recv")
  /\ limited' = [limited EXCEPT ![n] = ~ Release]
  /\ UNCHANGED <<attached, linked, inbox>>

\* recv gets a message.
recv(n) ==
  /\ at[n] = "recv" /\ inbox[n] > 0 /\ Goto(n, "send")
  /\ inbox' = [inbox EXCEPT ![n] = @ - 1]
  /\ UNCHANGED <<attached, limited, linked>>

\* Slip: the limit of time does not wait for a message that is there.
recvAtOnce(n) ==
  /\ at[n] = "recv" /\ limited[n] /\ Goto(n, "send")
  /\ UNCHANGED <<attached, limited, linked, inbox>>

\* No message comes in time; the result is not looked at.
recvTimesOut(n) ==
  /\ at[n] = "recv" /\ limited[n] /\ inbox[n] = 0 /\ Goto(n, "send")
  /\ UNCHANGED <<attached, limited, linked, inbox>>

\* send waits until there is a peer and the peer has room.
CanSend(n) == linked /\ inbox[Peer(n)] < Capacity

send(n) ==
  /\ at[n] = "send" /\ CanSend(n) /\ Goto(n, "recv")
  /\ inbox' = [inbox EXCEPT ![Peer(n)] = @ + 1]
  /\ UNCHANGED <<attached, limited, linked>>

Step(n) == \/ create(n) \/ attach(n) \/ setsockopt(n)
           \/ recv(n) \/ recvTimesOut(n) \/ send(n)

-----------------------------------------------------------------------------
(* nanomsg and the operating system.                                       *)

Link ==
  /\ ~ linked /\ \A n \in Nodes : attached[n]
  /\ linked' = TRUE
  /\ UNCHANGED <<at, attached, limited, inbox>>

\* A process dies, by a failed assertion or from outside.
Die(n) ==
  /\ at[n] # "off" /\ Goto(n, "off")
  /\ attached' = [attached EXCEPT ![n] = FALSE]
  /\ limited'  = [limited EXCEPT ![n] = FALSE]
  /\ linked' = FALSE
  /\ inbox' = [m \in Nodes |-> 0]

PairNext == Link \/ \E n \in Nodes : Step(n) \/ Die(n)

\* Processes go on when they can, and nanomsg keeps trying to connect.
PairFairness == /\ WF_pairVars(Link)
                /\ \A n \in Nodes : WF_pairVars(Step(n))

PairSpec     == PairInit /\ [][PairNext]_pairVars
FairPairSpec == PairSpec /\ PairFairness

-----------------------------------------------------------------------------
PairTypeOK ==
  /\ at \in [Nodes -> {"off", "created", "attached", "recv", "send"}]
  /\ attached \in [Nodes -> BOOLEAN] /\ limited \in [Nodes -> BOOLEAN]
  /\ linked \in BOOLEAN
  /\ inbox \in [Nodes -> 0 .. Capacity]

Blocked(n) == at[n] = "send" /\ linked /\ ~ CanSend(n)

\* The two never wait for one another to make room, although neither limits
\* the time it spends in send and every receive that times out adds a message.
NotBothBlocked == ~ (Blocked(0) /\ Blocked(1))

\* The message that node n is about to send.
InHand(n) == IF at[n] = "send" THEN 1 ELSE 0

\* Why they do not: a message received is followed by one sent, so their number
\* only grows when a receive times out, which needs an empty way.
InFlightBounded == inbox[0] + inbox[1] + InHand(0) + InHand(1) <= Capacity + 2

\* While both processes live, each goes on receiving.
Exchange == \A n \in Nodes : <>[](\A m \in Nodes : at[m] # "off") => []<><<recv(n)>>_pairVars
=============================================================================
