---------------------------- MODULE SocketServer ----------------------------
(***************************************************************************)
(* The run loop of SocketServer (libnet/socket_server.cpp) with its        *)
(* SocketListener (libnet/socket_listener.cpp), its SocketProcessor and    *)
(* the Timer by which it announces that it is up: PlatformServer then      *)
(* connects to the center server.                                          *)
(*                                                                         *)
(* One thread runs __run and every callback (built without WIN32).  What   *)
(* onListener does is the program's: CenterServer completes listener_cb    *)
(* and puts the steps together.  create of a session always returns 0, so  *)
(* the branch that breaks the loop is never taken; nor does any program    *)
(* call the server's loopbreak and loopexit.  Deleting an event of a freed *)
(* base, or freeing a listener of one, ends the process: such a step has   *)
(* no successor.                                                           *)
(***************************************************************************)
EXTENDS Timer

CONSTANTS Peers       \* those who connect, each once

VARIABLES run,        \* where the thread is
          base,       \* _processor's event base is there
          listener,   \* _listener is not null
          backlog,    \* peers the system has queued at the listener
          accepted,   \* peers that got a session
          gone,       \* peers that gave up, or were turned away
          trouble,    \* accepting has failed
          exiting,    \* loopexit has put its event into the base
          announced   \* calls of _onFunc

peerVars   == <<backlog, accepted, gone>>
runVars    == <<run, base, listener, trouble, exiting, announced>>
serverVars == <<timerVars, peerVars, runVars>>

ServerInit ==
  /\ TimerInit
  /\ run = "none" /\ base = FALSE /\ listener = FALSE
  /\ backlog = {} /\ accepted = {} /\ gone = {}
  /\ trouble = FALSE /\ exiting = FALSE /\ announced = 0

\* The thread is in the loop and in no callback.
InLoop == run = "loop" /\ cur = NoItem

-----------------------------------------------------------------------------
(* create, run and __run.                                                  *)

createAndRun ==
  /\ run = "none" /\ run' = "listen"
  /\ base' = TRUE
  /\ UNCHANGED <<timerVars, peerVars, listener, trouble, exiting, announced>>

\* SocketListener::create; if it fails, what was created is destroyed.
listen ==
  /\ run = "listen"
  /\ \/ listener' = TRUE /\ run' = "arm"
     \/ listener' = FALSE /\ run' = "timer"
  /\ UNCHANGED <<timerVars, peerVars, base, trouble, exiting, announced>>

\* Slip: the timer is not started.
armSilent ==
  /\ run = "arm" /\ run' = "loop"
  /\ UNCHANGED <<timerVars, peerVars, base, listener, trouble, exiting, announced>>

\* The listener's functions are set and the timer of the announcement started;
\* then dispatch.
arm ==
  /\ run = "arm" /\ run' = "loop"
  /\ \E t \in Tids : Start(t)
  /\ UNCHANGED <<peerVars, base, listener, trouble, exiting, announced>>

\* The event of loopexit is due and dispatch returns.
LoopEnds ==
  /\ InLoop /\ exiting /\ run' = "listener"
  /\ UNCHANGED <<timerVars, peerVars, base, listener, trouble, exiting, announced>>

\* SocketListener::destroy: the socket is closed, the queue is lost.
destroyListener ==
  /\ run = "listener" /\ base /\ run' = "timer"
  /\ listener' = FALSE
  /\ gone' = gone \cup backlog /\ backlog' = {}
  /\ UNCHANGED <<timerVars, accepted, base, trouble, exiting, announced>>

\* SocketServer::destroy: Timer::destroy ...
destroyTimer ==
  /\ run = "timer" /\ run' = "base"
  /\ base \/ pending = {}
  /\ destroy
  /\ UNCHANGED <<peerVars, cur, killedOwn, starts, base, listener, trouble, exiting, announced>>

\* ... and SocketProcessor::destroy, which deletes the events that are left.
destroyBase ==
  /\ run = "base" /\ run' = "done"
  /\ base' = FALSE /\ pending' = {}
  /\ UNCHANGED <<peerVars, table, items, tidOf, func, cur, killedOwn, starts, listener, trouble, exiting, announced>>

Thread == createAndRun \/ listen \/ arm \/ LoopEnds \/ destroyListener \/ destroyTimer \/ destroyBase

-----------------------------------------------------------------------------
(* The callbacks.                                                          *)

AnnounceDue ==
  /\ InLoop
  /\ \E i \in Items : Fire(i)
  /\ UNCHANGED <<peerVars, runVars>>

\* The timer's function calls _onFunc and returns false.
Announce ==
  /\ Stop
  /\ announced' = announced + 1
  /\ UNCHANGED <<peerVars, run, base, listener, trouble, exiting>>

\* listener_cb: a session for the peer, and onListener.
listener_cb(p) ==
  /\ InLoop /\ p \in backlog
  /\ backlog' = backlog \ {p} /\ accepted' = accepted \cup {p}
  /\ UNCHANGED <<timerVars, gone, runVars>>

\* Slip: the error is only printed.
listener_error_ignored ==
  /\ InLoop /\ backlog # {}
  /\ trouble' = TRUE
  /\ UNCHANGED <<timerVars, peerVars, run, base, listener, exiting, announced>>

\* listener_error_cb: accepting fails; loopexit.
listener_error_cb ==
  /\ InLoop /\ backlog # {}
  /\ trouble' = TRUE /\ exiting' = TRUE
  /\ UNCHANGED <<timerVars, peerVars, run, base, listener, announced>>

\* A peer connects, and is refused where nobody listens.
Connect(p) ==
  /\ p \notin backlog \cup accepted \cup gone
  /\ IF listener THEN backlog' = backlog \cup {p} /\ UNCHANGED gone
                 ELSE gone' = gone \cup {p} /\ UNCHANGED backlog
  /\ UNCHANGED <<timerVars, accepted, runVars>>

-----------------------------------------------------------------------------
ServerRunTypeOK ==
  /\ TimerTypeOK
  /\ run \in {"none", "listen", "arm", "loop", "listener", "timer", "base", "done"}
  /\ {base, listener, trouble, exiting} \subseteq BOOLEAN
  /\ backlog \subseteq Peers /\ accepted \subseteq Peers /\ gone \subseteq Peers
  /\ announced \in Nat

\* A server that serves announces itself, unless accepting fails first, and
\* does so once, so that it connects to the center server once: the timer whose
\* callback did so is gone.
AnnouncedOnce ==
  /\ [](announced <= 1)
  /\ run = "loop" ~> trouble \/ [](announced = 1 /\ items = {})

\* "got an error on the listener. shutting down.": after that, and when
\* listening failed, the server stops; the base, the listener and the timers
\* with their events are gone, whether or not the announcement ever came.
\* (Accepted sessions and their bufferevents are not: nobody frees those.)
ShutsDown ==
  trouble \/ run = "timer" ~> [](run = "done" /\ ~ base /\ ~ listener /\ items = {} /\ pending = {})
=============================================================================
