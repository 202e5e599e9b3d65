---------------------------- MODULE CenterServer ----------------------------
(***************************************************************************)
(* The center server: SocketServer's run loop and listener, and the        *)
(* sessions of CenterServer (CenterServer/CenterServer.cpp) in its         *)
(* ManagerT (libnet/session_manager.h), a list of pointers that owns what  *)
(* it points to: the handlers add a session when it is accepted and remove *)
(* and delete it when libevent reports the end of its connection, from     *)
(* within the session's own callback.                                      *)
(*                                                                         *)
(* One thread runs every callback (built without WIN32).  The bufferevent  *)
(* of a connection is never freed and keeps the address of its session, so *)
(* a report that comes after the session was deleted is made to whatever   *)
(* is at that address: another session, or freed memory, whose use ends    *)
(* the process, such a step having no successor.  libevent makes no more   *)
(* than two reports (a failed read, a failed write) for a connection.      *)
(*                                                                         *)
(* What peers send are heartbeats, which the network may cut.  All         *)
(* sessions parse with the server's one SocketCore: bytes of one peer that *)
(* come behind the first part of another's packet are taken for its        *)
(* rest, and from then on nothing is known of what parse makes of what it  *)
(* is given.  SocketCore says more of this; here it is `garbled'.          *)
(***************************************************************************)
EXTENDS SocketServer, Lists

CONSTANTS Addresses,   \* where a SocketSession may be allocated, no fewer than Peers
          NoPeer,      \* nothing is allocated at an address
          NoAddress    \* a connection that has not been accepted

ASSUME AddressAssumption == NoPeer \notin Peers /\ NoAddress \notin Addresses

VARIABLES live,        \* _live
          holder,      \* holder[a]: the connection the session at a was made for
          connected,   \* _connected of the session at a
          arg,         \* arg[c]: the callback argument of c's bufferevent
          open,        \* the connections that are up
          most,        \* reports of its end libevent makes for a connection
          reports,     \* reports[c]: reports made
          owed,        \* owed[c]: a heartbeat was sent and not answered
          rest,        \* whose packet the core has the first part of
          garbled      \* packets of different peers have run together

beatVars   == <<owed, rest, garbled>>
centerVars == <<live, holder, connected, arg, open, most, reports, beatVars>>
allVars    == <<serverVars, centerVars>>

CenterInit ==
  /\ ServerInit
  /\ live = <<>>
  /\ holder = [a \in Addresses |-> NoPeer]
  /\ connected = [a \in Addresses |-> FALSE]
  /\ arg = [c \in Peers |-> NoAddress]
  /\ open = {} /\ most \in {1, 2}
  /\ reports = [c \in Peers |-> 0]
  /\ owed = [c \in Peers |-> FALSE] /\ rest = NoPeer /\ garbled = FALSE

\* Where there is a session.
Allocated == {a \in Addresses : holder[a] # NoPeer}

-----------------------------------------------------------------------------
(* ManagerT.                                                               *)

\* add: a pointer that is not in the list is appended; one that is there is
\* assigned to itself.
add(a) == live' = IF a \in Contents(live) THEN live ELSE Append(live, a)

\* Slips: the session is deleted and stays in the list; it is taken off the
\* list and not deleted; whatever is first in the list is removed.
removeKeepEntry(a) ==
  /\ UNCHANGED live
  /\ holder' = [holder EXCEPT ![a] = NoPeer]

removeKeepObject(a) ==
  /\ \E i \in 1 .. Len(live) : live[i] = a /\ live' = erase(live, i)
  /\ UNCHANGED holder

removeFirst(a) ==
  /\ live' = Tail(live)
  /\ holder' = [holder EXCEPT ![Head(live)] = NoPeer]

\* remove: the first entry with this pointer, if there is one, is erased and
\* the object deleted.
remove(a) ==
  IF a \in Contents(live)
  THEN /\ \E i \in 1 .. Len(live) :
            /\ live[i] = a /\ \A j \in 1 .. i - 1 : live[j] # a
            /\ live' = erase(live, i)
       /\ holder' = [holder EXCEPT ![a] = NoPeer]
  ELSE UNCHANGED <<live, holder>>

-----------------------------------------------------------------------------
(* The handlers.                                                           *)

\* What listener_cb calls: a session is created and enabled, and onListener
\* adds it and greets.
onListener(c, a) ==
  /\ arg[c] = NoAddress /\ holder[a] = NoPeer
  /\ holder' = [holder EXCEPT ![a] = c]
  /\ connected' = [connected EXCEPT ![a] = TRUE]
  /\ arg' = [arg EXCEPT ![c] = a]
  /\ open' = open \cup {c}
  /\ add(a)
  /\ UNCHANGED <<most, reports, beatVars>>

\* onSocketDisConnect, onSocketTimeout and onSocketError remove the session;
\* __onEvent then clears _connected and _bev, of the object just deleted if it
\* was in the list.
onSocketEnd(c) ==
  /\ InLoop /\ arg[c] # NoAddress /\ c \notin open
  /\ reports[c] < most /\ reports' = [reports EXCEPT ![c] = @ + 1]
  /\ holder[arg[c]] # NoPeer
  /\ remove(arg[c])
  /\ connected' = [connected EXCEPT ![arg[c]] = FALSE]
  /\ UNCHANGED <<serverVars, arg, open, most, beatVars>>

\* __onRead of c's session, once libevent has read into c's input what came,
\* perhaps before a hangup.  (When another session is at the address, its
\* __onRead finds nothing in its own input, which is emptied at every call.)
MayRead(c) == /\ InLoop /\ owed[c] /\ arg[c] # NoAddress
              /\ holder[arg[c]] = c

\* onSocketParse of a heartbeat: sendHeartbeat answers it if the session is
\* connected.
sendHeartbeat(c) == owed' = [owed EXCEPT ![c] = ~ connected[arg[c]]]

\* The whole packet is read, or the rest of it.
ReadPacket(c) ==
  /\ MayRead(c) /\ ~ garbled /\ rest \in {NoPeer, c}
  /\ rest' = NoPeer
  /\ sendHeartbeat(c)
  /\ UNCHANGED <<serverVars, live, holder, connected, arg, open, most, reports, garbled>>

\* The first part is read.
ReadPart(c) ==
  /\ MayRead(c) /\ ~ garbled /\ rest = NoPeer
  /\ rest' = c
  /\ UNCHANGED <<serverVars, live, holder, connected, arg, open, most, reports, owed, garbled>>

\* The buffer has another's part in it, or what became of it: the heartbeat may
\* be lost, or something be taken for it.  Nobody clears the buffer, also not
\* when the other's connection ends.
ReadMixed(c) ==
  /\ MayRead(c) /\ (garbled \/ rest \notin {NoPeer, c})
  /\ garbled' = TRUE /\ rest' = NoPeer
  /\ sendHeartbeat(c) \/ UNCHANGED owed
  /\ UNCHANGED <<serverVars, live, holder, connected, arg, open, most, reports>>

onRead(c) == ReadPacket(c) \/ ReadPart(c) \/ ReadMixed(c)

\* The peer sends a heartbeat.
PeerBeats(c) ==
  /\ c \in open /\ ~ owed[c]
  /\ owed' = [owed EXCEPT ![c] = TRUE]
  /\ UNCHANGED <<serverVars, live, holder, connected, arg, open, most, reports, rest, garbled>>

\* The connection ends.
Hangup(c) ==
  /\ c \in open /\ open' = open \ {c}
  /\ UNCHANGED <<serverVars, live, holder, connected, arg, most, reports, beatVars>>

\* A peer in the queue of the listener is accepted.
Accept(c) == listener_cb(c) /\ \E a \in Addresses : onListener(c, a)

\* The server's own steps, and those who come.
Server == Thread \/ AnnounceDue \/ Announce \/ listener_error_cb \/ \E c \in Peers : Connect(c)

CenterNext ==
  \/ Server /\ UNCHANGED centerVars
  \/ \E c \in Peers : Accept(c) \/ onSocketEnd(c) \/ onRead(c) \/ PeerBeats(c) \/ Hangup(c)

\* The thread goes on, and the loop serves what is due: the timers, the exit,
\* the queue of the listener in turn, and every connection.
CenterFairness ==
  /\ WF_allVars(Thread /\ UNCHANGED centerVars) /\ SF_allVars(LoopEnds /\ UNCHANGED centerVars)
  /\ SF_allVars(AnnounceDue /\ UNCHANGED centerVars) /\ WF_allVars(Announce /\ UNCHANGED centerVars)
  /\ \A c \in Peers : SF_allVars(Accept(c)) /\ SF_allVars(onSocketEnd(c)) /\ SF_allVars(onRead(c))

CenterSpec     == CenterInit /\ [][CenterNext]_allVars
FairCenterSpec == CenterSpec /\ CenterFairness

-----------------------------------------------------------------------------
CenterTypeOK ==
  /\ live \in Seq(Addresses)
  /\ holder \in [Addresses -> Peers \cup {NoPeer}]
  /\ connected \in [Addresses -> BOOLEAN]
  /\ arg \in [Peers -> Addresses \cup {NoAddress}]
  /\ open \subseteq Peers
  /\ most \in {1, 2} /\ reports \in [Peers -> 0 .. most] /\ owed \in [Peers -> BOOLEAN]
  /\ rest \in Peers \cup {NoPeer} /\ garbled \in BOOLEAN

\* The list has each session that exists once and nothing else: no pointer to
\* a deleted session that remove would delete again, no session that nobody
\* deletes, even when a late report meets an address that is in use again.
\* (Checked with the types.)
ListExact ==
  /\ CenterTypeOK /\ ServerRunTypeOK
  /\ Contents(live) = Allocated
  /\ \A i, j \in 1 .. Len(live) : live[i] = live[j] => i = j

\* The session of a connection that ended leaves the list, though its address
\* may come back, unless the server stops.
EndedLeave ==
  \A c \in Peers : c \notin open /\ arg[c] # NoAddress ~> trouble \/ c \notin {holder[a] : a \in Addresses}

\* If libevent reports the end once, heartbeats are answered, cut or not, as
\* long as the connection is up, the server runs and no bytes came behind the
\* first part of another peer's packet: no session is deleted by the report of
\* another connection that had the same address before.
BeatsAnswered ==
  most = 1 => \A c \in Peers : owed[c] ~> ~ owed[c] \/ c \notin open \/ trouble \/ garbled
=============================================================================
