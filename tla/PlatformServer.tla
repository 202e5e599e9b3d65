--------------------------- MODULE PlatformServer ---------------------------
(***************************************************************************)
(* The life of a connection of PlatformServer: the listener callback of    *)
(* libnet/socket_server.cpp and ServerHandler::onListener, which create    *)
(* the session, register its user and greet it, against the read and event *)
(* callbacks of libnet/socket_session.cpp, which answer its requests and   *)
(* take the user out of the registry (module Users) when it ends.          *)
(*                                                                         *)
(* Built with WIN32 (iocp, chosen once) the read and event callbacks run   *)
(* on completion port threads, at most one for a bufferevent at a time,    *)
(* while the listener callback runs on the dispatch thread; otherwise      *)
(* every callback runs on the dispatch thread, one after the other.        *)
(*                                                                         *)
(* libevent reports the end of a connection with an event callback, and    *)
(* reads nothing afterwards; without completion ports its reading and its  *)
(* writing side may each report it.  Using _bev when it is null ends the   *)
(* process: such a step has no successor.                                  *)
(***************************************************************************)
EXTENDS Users, FiniteSets

CONSTANTS NoOne,        \* the dispatch thread is in no callback
          MaxRequests   \* bound: requests sent on one session

ASSUME RequestAssumption  == MaxRequests \in Nat
ASSUME DispatchAssumption == NoOne \notin Sessions

\* The counter gives every session a uid of its own.
ASSUME CounterAssumption  == /\ IsFiniteSet(Sessions)
                             /\ 0 .. Cardinality(Sessions) - 1 \subseteq Uids

VARIABLES iocp,         \* built with WIN32 defined
          pc,           \* pc[s]: where the listener callback for s is
          cb,           \* cb[s]: where the event callback of s is
          dispatch,     \* whose callback the dispatch thread is in
          connected,    \* _connected
          bev,          \* bev[s]: _bev is not null
          gone,         \* gone[s]: the connection is broken or shut down
          reports,      \* reports[s]: how often its end was reported
          late,         \* history: the first report came after users.add
          nextUid,      \* onListener's static counter, the next uid
          asked, answered  \* requests read from s, replies written to it

connVars   == <<iocp, pc, cb, dispatch, connected, bev, gone, reports, late, nextUid, asked, answered>>
serverVars == <<userVars, connVars>>

ServerInit ==
  /\ UsersInit
  /\ iocp \in BOOLEAN
  /\ pc = [s \in Sessions |-> "none"]
  /\ cb = [s \in Sessions |-> "idle"]
  /\ dispatch = NoOne
  /\ connected = [s \in Sessions |-> FALSE]
  /\ bev       = [s \in Sessions |-> FALSE]
  /\ gone      = [s \in Sessions |-> FALSE]
  /\ reports   = [s \in Sessions |-> 0]
  /\ late      = [s \in Sessions |-> FALSE]
  /\ nextUid = 0
  /\ asked = [s \in Sessions |-> 0] /\ answered = [s \in Sessions |-> 0]

Goto(s, l) == pc' = [pc EXCEPT ![s] = l]

-----------------------------------------------------------------------------
(* The listener callback, on the dispatch thread.                          *)

\* new SocketSession, bufferevent_socket_new, _setcb and _enable: from here on
\* the callbacks of the session may run.
Accept(s) ==
  /\ dispatch = NoOne /\ pc[s] = "none"
  /\ dispatch' = s
  /\ bev' = [bev EXCEPT ![s] = TRUE]
  /\ Goto(s, "enabled")
  /\ UNCHANGED <<userVars, iocp, cb, connected, gone, reports, late, nextUid, asked, answered>>

\* Slips: _connected is not set; the counter is not advanced.
SetNothing(s) ==
  /\ pc[s] = "enabled"
  /\ Goto(s, "create")
  /\ UNCHANGED <<userVars, iocp, cb, dispatch, connected, bev, gone, reports, late, nextUid, asked, answered>>

RegisterSameUid(s) ==
  /\ pc[s] = "create"
  /\ add(nextUid, s)
  /\ Goto(s, "registered")
  /\ UNCHANGED <<iocp, cb, dispatch, connected, bev, gone, reports, late, nextUid, asked, answered>>

\* _connected = true, the last thing create does.
SetConnected(s) ==
  /\ pc[s] = "enabled"
  /\ connected' = [connected EXCEPT ![s] = TRUE]
  /\ Goto(s, "create")
  /\ UNCHANGED <<userVars, iocp, cb, dispatch, bev, gone, reports, late, nextUid, asked, answered>>

\* user.uid = i++; users.add(user, session).
Register(s) ==
  /\ pc[s] = "create"
  /\ add(nextUid, s)
  /\ nextUid' = nextUid + 1
  /\ Goto(s, "registered")
  /\ UNCHANGED <<iocp, cb, dispatch, connected, bev, gone, reports, late, asked, answered>>

\* sendData writes the greeting if the session is connected ...
CheckConnected(s) ==
  /\ pc[s] = "registered"
  /\ Goto(s, IF connected[s] THEN "write" ELSE "print")
  /\ UNCHANGED <<userVars, iocp, cb, dispatch, connected, bev, gone, reports, late, nextUid, asked, answered>>

Greet(s) ==
  /\ pc[s] = "write" /\ bev[s]
  /\ Goto(s, "print")
  /\ UNCHANGED <<userVars, iocp, cb, dispatch, connected, bev, gone, reports, late, nextUid, asked, answered>>

\* ... and the session, with the descriptor of its _bev, is printed.
PrintSession(s) ==
  /\ pc[s] = "print" /\ bev[s]
  /\ Goto(s, "done")
  /\ dispatch' = NoOne
  /\ UNCHANGED <<userVars, iocp, cb, connected, bev, gone, reports, late, nextUid, asked, answered>>

Listener(s) == \/ Accept(s) \/ SetConnected(s) \/ Register(s)
               \/ CheckConnected(s) \/ Greet(s) \/ PrintSession(s)

-----------------------------------------------------------------------------
(* Read and event callbacks.                                               *)

\* libevent may call back for s.
MayCall(s) == /\ pc[s] # "none" /\ cb[s] = "idle"
              /\ iocp \/ dispatch = NoOne

\* __onRead, parse and onSocketParse of one request: a heartbeat or a chat
\* message is answered if the session is connected.
Request(s) ==
  /\ MayCall(s) /\ reports[s] = 0 /\ bev[s]
  /\ asked[s] < MaxRequests
  /\ asked' = [asked EXCEPT ![s] = @ + 1]
  /\ answered' = [answered EXCEPT ![s] = IF connected[s] THEN @ + 1 ELSE @]
  /\ UNCHANGED <<userVars, iocp, pc, cb, dispatch, connected, bev, gone, reports, late, nextUid>>

\* The peer leaves or the network fails.
Break(s) ==
  /\ pc[s] # "none" /\ ~ gone[s]
  /\ gone' = [gone EXCEPT ![s] = TRUE]
  /\ UNCHANGED <<userVars, iocp, pc, cb, dispatch, connected, bev, reports, late, nextUid, asked, answered>>

\* Slips: the handler does not remove the user; _connected stays set.
EventKeepUser(s) ==
  /\ MayCall(s) /\ gone[s]
  /\ reports[s] < (IF iocp THEN 1 ELSE 2)
  /\ reports' = [reports EXCEPT ![s] = @ + 1]
  /\ late' = [late EXCEPT ![s] = @ \/ pc[s] \notin {"enabled", "create"}]
  /\ cb' = [cb EXCEPT ![s] = "removed"]
  /\ dispatch' = IF iocp THEN dispatch ELSE s
  /\ UNCHANGED <<userVars, iocp, pc, connected, bev, gone, nextUid, asked, answered>>

EventKeepConnected(s) ==
  /\ cb[s] = "removed"
  /\ cb' = [cb EXCEPT ![s] = "disconnected"]
  /\ UNCHANGED <<userVars, iocp, pc, dispatch, connected, bev, gone, reports, late, nextUid, asked, answered>>

\* __onEvent: onSocketError, onSocketDisConnect and onSocketTimeout all call
\* users.remove(session) ...
EventRemove(s) ==
  /\ MayCall(s) /\ gone[s]
  /\ reports[s] < (IF iocp THEN 1 ELSE 2)
  /\ removeSession(s)
  /\ reports' = [reports EXCEPT ![s] = @ + 1]
  /\ late' = [late EXCEPT ![s] = @ \/ pc[s] \notin {"enabled", "create"}]
  /\ cb' = [cb EXCEPT ![s] = "removed"]
  /\ dispatch' = IF iocp THEN dispatch ELSE s
  /\ UNCHANGED <<iocp, pc, connected, bev, gone, nextUid, asked, answered>>

\* ... then _connected = false ...
EventDisconnect(s) ==
  /\ cb[s] = "removed"
  /\ connected' = [connected EXCEPT ![s] = FALSE]
  /\ cb' = [cb EXCEPT ![s] = "disconnected"]
  /\ UNCHANGED <<userVars, iocp, pc, dispatch, bev, gone, reports, late, nextUid, asked, answered>>

\* ... and _bev = nullptr.
EventForget(s) ==
  /\ cb[s] = "disconnected"
  /\ bev' = [bev EXCEPT ![s] = FALSE]
  /\ cb' = [cb EXCEPT ![s] = "idle"]
  /\ dispatch' = IF iocp THEN dispatch ELSE NoOne
  /\ UNCHANGED <<userVars, iocp, pc, connected, gone, reports, late, nextUid, asked, answered>>

Event(s) == EventRemove(s) \/ EventDisconnect(s) \/ EventForget(s)

ServerNext == \E s \in Sessions : Listener(s) \/ Request(s) \/ Break(s) \/ Event(s)

\* A thread inside a callback keeps running, and libevent reports a broken
\* connection unless it is kept from calling back for ever.
ServerFairness ==
  \A s \in Sessions : /\ WF_serverVars(Event(s))
                      /\ SF_serverVars(EventRemove(s))
                      /\ WF_serverVars(Listener(s) /\ pc[s] # "none")

ServerSpec     == ServerInit /\ [][ServerNext]_serverVars
FairServerSpec == ServerSpec /\ ServerFairness

-----------------------------------------------------------------------------
Registered == {session[live[k]] : k \in 1 .. Len(live)}

ServerTypeOK ==
  /\ UsersTypeOK /\ iocp \in BOOLEAN
  /\ pc \in [Sessions -> {"none", "enabled", "create", "registered", "write", "print", "done"}]
  /\ cb \in [Sessions -> {"idle", "removed", "disconnected"}]
  /\ dispatch \in Sessions \cup {NoOne}
  /\ {connected, bev, gone, late} \subseteq [Sessions -> BOOLEAN]
  /\ reports \in [Sessions -> 0 .. 2]
  /\ nextUid \in Nat
  /\ {asked, answered} \subseteq [Sessions -> 0 .. MaxRequests]

\* _live holds the "激活用户", the active users: once the end of a session was
\* reported, its user is not among them.
LiveUsersActive == \A s \in Registered : s # NoSession /\ reports[s] = 0

\* No session has two entries, and one whose listener callback is through and
\* whose end was not reported has one: nobody who is there is forgotten, even
\* as entries are reused.  (Checked with the types.)
EntryPerSession ==
  /\ ServerTypeOK
  /\ \A k, l \in 1 .. Len(live) : session[live[k]] = session[live[l]] => k = l
  /\ \A s \in Sessions : pc[s] = "done" /\ reports[s] = 0 => s \in Registered

\* The callbacks that follow the creation of a session use its _bev without
\* looking at it: on one thread it is not null then, whatever the order of a
\* session's creation, its requests and its end.
BevAtUse ==
  ~ iocp => \A s \in Sessions :
    /\ pc[s] \in {"write", "print"} => bev[s]
    /\ connected[s] /\ cb[s] = "idle" => bev[s]

\* On one thread every request read is answered, although the first bytes of a
\* peer may be there before the server marks its session as connected.
RequestsAnswered == ~ iocp => \A s \in Sessions : answered[s] = asked[s]

\* A report that comes after users.add takes the user out for good, on
\* whatever thread and however far the listener callback is; on one thread
\* every report does.
LateReportRemoves ==
  \A s \in Sessions : late[s] \/ (~ iocp /\ reports[s] > 0) => s \notin Registered

\* On one thread the user of a connection that ended is eventually out of the
\* registry, for good.
DepartureNoticed == \A s \in Sessions : gone[s] /\ ~ iocp ~> [](s \notin Registered)
=============================================================================
