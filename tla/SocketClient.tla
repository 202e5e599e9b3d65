---------------------------- MODULE SocketClient ----------------------------
(***************************************************************************)
(* The life of a client connection: SocketClient (libnet/socket_client.cpp)*)
(* with the client side of SocketSession (libnet/socket_session.cpp) and   *)
(* the heartbeat Timer its users put on the same event base, as            *)
(* PlatformServer/client_main.cpp and GameServer/GameServer.cpp do.        *)
(*                                                                         *)
(* The user's thread makes the base and the session, starts the heartbeat  *)
(* and runs a thread, which connects, sets the callbacks, dispatches until *)
(* the loop is broken, resets the session and frees the base.              *)
(*                                                                         *)
(* Built with WIN32 (iocp) the event callbacks run on completion port      *)
(* threads, one at a time; otherwise they and the heartbeat take turns on  *)
(* the thread of the loop.  libevent calls no event callback that is not   *)
(* set yet: what it had to tell then is lost.  Using a null _bev or        *)
(* _handler ends the process: such a step has no successor.                *)
(*                                                                         *)
(* The session asks libevent for a bufferevent with locks and gets none if *)
(* libevent was built with support for threads, as the vendored one is,    *)
(* and the program has not called processorUseThreads, which GameServer    *)
(* does not (safe).                                                        *)
(***************************************************************************)
EXTENDS Timer

VARIABLES iocp,        \* built with WIN32 defined; chosen once
          breaks,      \* the handlers call loopbreak (GameServer); chosen once
          safe,        \* libevent can make a bufferevent with locks; chosen once
          thread,      \* where SocketClient's thread is
          base,        \* _base is there
          bev,         \* _bev is not null
          handler,     \* _handler is not null
          callbacks,   \* bufferevent_setcb and _enable were called
          connected,   \* _connected
          net,         \* the connection; `refused' if it did not come about
          early,       \* whether it came about was known to connect at once
          due,         \* where libevent may still find something to report
          ended,       \* libevent has reported the end of the connection
          late,        \* and, after that, that it came about
          event,       \* where __onEvent is
          beat,        \* where the heartbeat's sendData is
          broken       \* loopbreak was called

buildVars  == <<iocp, breaks, safe>>
reportVars == <<early, due, ended, late>>
connVars   == <<buildVars, thread, base, bev, handler, callbacks, connected, net, reportVars,
                event, beat, broken>>
clientVars == <<timerVars, connVars>>

ClientInit ==
  /\ TimerInit
  /\ iocp \in BOOLEAN /\ breaks \in BOOLEAN /\ safe \in BOOLEAN
  /\ thread = "none" /\ base = FALSE
  /\ bev = FALSE /\ handler = FALSE /\ callbacks = FALSE /\ connected = FALSE
  /\ net = "none" /\ early = FALSE /\ due = {} /\ ended = FALSE /\ late = FALSE
  /\ event = "idle" /\ beat = "idle" /\ broken = FALSE

\* The loop's thread is in no callback.
Idle == cur = NoItem /\ (iocp \/ event = "idle")

-----------------------------------------------------------------------------
(* The user's thread, and SocketClient's.                                  *)

\* SocketClient::create, Timer::create and start of the heartbeat, run.
createAndRun ==
  /\ thread = "none" /\ thread' = "new"
  /\ base' = TRUE /\ handler' = TRUE
  /\ \E t \in Tids : Start(t)
  /\ UNCHANGED <<buildVars, bev, callbacks, connected, net, reportVars, event, beat, broken>>

\* SocketSession::create: bufferevent_socket_new returns null where locks are
\* asked for and there are none ...
newBufferevent ==
  /\ thread = "new" /\ thread' = "connect"
  /\ bev' = safe
  /\ UNCHANGED <<timerVars, buildVars, base, handler, callbacks, connected, net, reportVars, event, beat, broken>>

\* ... and bufferevent_socket_connect uses it.  The connection is under way; or
\* without completion ports it is up at once, which libevent would report to
\* the write callback the client has not, or refused at once, which it reports
\* within the call, to nobody; or the call fails, then no callback is set, and
\* the loop starts all the same.
connect ==
  /\ thread = "connect" /\ bev
  /\ \/ /\ net' = "trying" /\ due' = {"connect"}
        /\ thread' = "setcb" /\ UNCHANGED <<connected, early, ended>>
     \/ /\ ~ iocp /\ net' \in {"up", "refused"}
        /\ early' = TRUE /\ ended' = (net' = "refused")
        /\ thread' = "setcb" /\ UNCHANGED <<connected, due>>
     \/ /\ net' = "failed" /\ connected' = FALSE
        /\ thread' = "loop" /\ UNCHANGED <<early, due, ended>>
  /\ UNCHANGED <<timerVars, buildVars, base, bev, handler, callbacks, late, event, beat, broken>>

\* Slip: no callbacks are set.
setcbNever ==
  /\ thread = "setcb" /\ thread' = "loop"
  /\ UNCHANGED <<timerVars, buildVars, base, bev, handler, callbacks, connected, net, reportVars, event, beat, broken>>

\* bufferevent_setcb and _enable, which starts reading; completion ports do not
\* read from a connection that failed.
setcb ==
  /\ thread = "setcb" /\ thread' = "loop"
  /\ callbacks' = TRUE
  /\ due' = IF iocp /\ ended THEN due ELSE due \cup {"read"}
  /\ UNCHANGED <<timerVars, buildVars, base, bev, handler, connected, net, early, ended, late, event, beat, broken>>

\* dispatch returns after loopbreak.
LoopEnds ==
  /\ thread = "loop" /\ broken /\ Idle /\ thread' = "reset"
  /\ UNCHANGED <<timerVars, buildVars, base, bev, handler, callbacks, connected, net, reportVars, event, beat, broken>>

\* SocketSession::__reset.
reset ==
  /\ thread = "reset" /\ thread' = "free"
  /\ connected' = FALSE /\ bev' = FALSE /\ handler' = FALSE
  /\ UNCHANGED <<timerVars, buildVars, base, callbacks, net, reportVars, event, beat, broken>>

\* SocketProcessor::destroy: event_base_free waits for the completion port
\* threads and deletes the events that are left.
freeBase ==
  /\ thread = "free" /\ event = "idle" /\ thread' = "done"
  /\ base' = FALSE /\ pending' = {}
  /\ UNCHANGED <<buildVars, table, items, tidOf, func, cur, killedOwn, starts, bev, handler, callbacks, connected, net, reportVars, event, beat, broken>>

Thread == newBufferevent \/ connect \/ setcb \/ LoopEnds \/ reset \/ freeBase

-----------------------------------------------------------------------------
(* The heartbeat.                                                          *)

BeatFires ==
  /\ thread = "loop" /\ ~ broken /\ Idle
  /\ \E i \in Items : Fire(i)
  /\ UNCHANGED connVars

\* Slip: sendData does not ask whether the session is connected.
sendUnchecked ==
  /\ cur # NoItem /\ beat = "idle"
  /\ beat' = "write" /\ UNCHANGED timerVars
  /\ UNCHANGED <<buildVars, thread, base, bev, handler, callbacks, connected, net, reportVars, event, broken>>

\* sendData looks at _connected ...
sendCheck ==
  /\ cur # NoItem /\ beat = "idle"
  /\ IF connected THEN beat' = "write" /\ UNCHANGED timerVars
                  ELSE GoOn /\ UNCHANGED beat
  /\ UNCHANGED <<buildVars, thread, base, bev, handler, callbacks, connected, net, reportVars, event, broken>>

\* ... and writes to _bev; the callback returns true.
sendWrite ==
  /\ beat = "write" /\ bev /\ beat' = "idle"
  /\ GoOn
  /\ UNCHANGED <<buildVars, thread, base, bev, handler, callbacks, connected, net, reportVars, event, broken>>

Heartbeat == BeatFires \/ sendCheck \/ sendWrite

-----------------------------------------------------------------------------
(* The network, and libevent's reports.                                    *)

Network ==
  /\ base
  /\ \/ net = "trying" /\ net' \in {"up", "refused"}
     \/ net = "up" /\ net' = "gone"
  /\ UNCHANGED <<timerVars, buildVars, thread, base, bev, handler, callbacks, connected, reportVars, event, beat, broken>>

\* libevent may call an event callback.
MayCall == /\ base /\ event = "idle"
           /\ IF iocp THEN thread \in {"setcb", "loop", "reset", "free"}
                      ELSE thread = "loop" /\ ~ broken /\ cur = NoItem

\* bufferevent_writecb finds the connection made, and reports what it then finds
\* on writing.  On one thread bufferevent_readcb comes first if both are due:
\* the end may have been reported already, and the error of a connection that
\* did not come about been taken with it.  __onEvent: _connected = true,
\* onSocketConnected.
EventConnected ==
  /\ MayCall /\ "connect" \in due
  /\ net \in {"up", "gone"} \/ (net = "refused" /\ ended)
  /\ due' = (due \ {"connect"}) \cup {"write"}
  /\ callbacks => handler
  /\ connected' = (connected \/ callbacks)
  /\ late' = (late \/ ended)
  /\ UNCHANGED <<timerVars, buildVars, thread, base, bev, handler, callbacks, net, early, ended, event, beat, broken>>

\* libevent finds the end at d, which completion ports do once and in order.
EndsAt(d) ==
  /\ net \in {"refused", "gone"}
  /\ iocp => IF net = "refused" THEN d = "connect" ELSE "connect" \notin due

\* A connection that was not made is not waited for any longer.
Reported(d) ==
  /\ ended' = TRUE
  /\ due' = IF iocp \/ d = "connect" THEN {} ELSE due \ {d}

\* Slip: loopbreak is not called.
EventEndNoBreak ==
  /\ MayCall /\ callbacks /\ handler
  /\ \E d \in due : EndsAt(d) /\ Reported(d)
  /\ event' = "handled"
  /\ UNCHANGED <<timerVars, buildVars, thread, base, bev, handler, callbacks, connected, net, early, late, beat, broken>>

\* __onEvent for the end: onSocketDisConnect, onSocketError or
\* onSocketTimeout ...
EventEnd ==
  /\ MayCall /\ callbacks /\ handler
  /\ \E d \in due : EndsAt(d) /\ Reported(d)
  /\ broken' = (broken \/ breaks)
  /\ event' = "handled"
  /\ UNCHANGED <<timerVars, buildVars, thread, base, bev, handler, callbacks, connected, net, early, late, beat>>

\* With completion ports a refusal may come before the callbacks are set.
EventLost ==
  /\ MayCall /\ ~ callbacks /\ thread = "setcb" /\ "connect" \in due
  /\ EndsAt("connect") /\ Reported("connect")
  /\ UNCHANGED <<timerVars, buildVars, thread, base, bev, handler, callbacks, connected, net, early, late, event, beat, broken>>

\* Slip: _connected stays set.
EventKeepConnected ==
  /\ event = "handled" /\ event' = "cleared"
  /\ UNCHANGED <<timerVars, buildVars, thread, base, bev, handler, callbacks, connected, net, reportVars, beat, broken>>

\* ... then _connected = false ...
EventDisconnect ==
  /\ event = "handled" /\ event' = "cleared"
  /\ connected' = FALSE
  /\ UNCHANGED <<timerVars, buildVars, thread, base, bev, handler, callbacks, net, reportVars, beat, broken>>

\* ... and _bev = nullptr.
EventForget ==
  /\ event = "cleared" /\ event' = "idle"
  /\ bev' = FALSE
  /\ UNCHANGED <<timerVars, buildVars, thread, base, handler, callbacks, connected, net, reportVars, beat, broken>>

Event == EventConnected \/ EventEnd \/ EventLost \/ EventDisconnect \/ EventForget

-----------------------------------------------------------------------------
ClientStep == Thread \/ Heartbeat \/ Network \/ Event

ClientNext == createAndRun \/ ClientStep

\* Threads go on, the timer fires, and libevent reports what happened to the
\* connection: its turn comes, however often the heartbeat is served.  The
\* network may take for ever, and a refusal that nobody heard may or may not
\* show when the socket is read.
ClientFairness ==
  /\ WF_clientVars(Thread) /\ WF_clientVars(sendCheck \/ sendWrite)
  /\ WF_clientVars(EventDisconnect \/ EventForget)
  /\ SF_clientVars(BeatFires)
  /\ SF_clientVars(EventConnected)
  /\ SF_clientVars(EventEnd /\ ~ (early /\ net = "refused"))

ClientSpec     == ClientInit /\ [][ClientNext]_clientVars
FairClientSpec == ClientSpec /\ ClientFairness

-----------------------------------------------------------------------------
ClientTypeOK ==
  /\ TimerTypeOK
  /\ thread \in {"none", "new", "connect", "setcb", "loop", "reset", "free", "done"}
  /\ {iocp, breaks, safe, base, bev, handler, callbacks, connected, broken} \subseteq BOOLEAN
  /\ net \in {"none", "trying", "failed", "up", "refused", "gone"}
  /\ {early, ended, late} \subseteq BOOLEAN /\ due \subseteq {"connect", "read", "write"}
  /\ event \in {"idle", "handled", "cleared"} /\ beat \in {"idle", "write"}

\* Everything has its type.  On one thread what an event callback calls is there,
\* and so is what the heartbeat writes to, unless the connection was reported
\* made after its end; what connect uses is there if libevent can lock.
PointersAtUse ==
  /\ ClientTypeOK
  /\ ~ iocp => /\ beat = "write" /\ ~ late => bev
               /\ MayCall /\ callbacks => handler
  /\ thread = "connect" /\ safe => bev

\* A handler that breaks the loop when it is told the end, as GameServer's do, is
\* not told after that that the connection was made, though both may be due in
\* one pass of the loop: no session comes to be connected without _bev, which
\* the next heartbeat would write to.
BrokenStaysEnded == breaks => ~ late /\ (ended /\ event = "idle" => ~ connected)

\* No heartbeat is begun on a session whose end was reported, from the moment
\* that __onEvent has cleared _connected; and on one thread, where none is in
\* progress at a report, none is written after it.  (With completion ports one
\* that was begun before may be.)  The exception is a session whose connection
\* was reported made after its end.
DisconnectFinal ==
  [][~ late /\ ended => /\ beat = "idle" /\ beat' = "write" => event = "handled"
                        /\ beat = "write" /\ beat' = "idle" => iocp]_clientVars

\* On one thread a connection that comes about and stays up is noticed, though
\* it may come about before the callbacks are set, and heartbeats are written to
\* it again and again; one that is up at once is not noticed.
BeatsWhileUp == <>[](net = "up" /\ ~ early /\ ~ iocp) => []<>(beat = "write")

\* GameServer on one thread, if libevent can lock or was built not to: when the
\* connection ends, or is refused after connect has returned, the loop ends and
\* the base is freed.
LoopGivesUp ==
  (net = "gone" \/ (net = "refused" /\ ~ early)) /\ breaks /\ ~ iocp ~> thread = "done"
=============================================================================
