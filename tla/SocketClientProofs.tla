------------------------- MODULE SocketClientProofs -------------------------
(* Proofs about SocketClient, in both threading builds, for handlers that   *)
(* break the loop and handlers that do not, and any number of timers.       *)
EXTENDS SocketClient, TLAPS

\* The handler is there from create until the session is reset.
HandlerInv == thread \in {"new", "connect", "setcb", "loop", "reset"} => handler

\* Before connect there is nothing to report, and its bufferevent is there if
\* libevent could make one.
StartInv == thread \in {"none", "new", "connect"}
              => /\ ~ ended /\ ~ late /\ ~ connected /\ due = {}
                 /\ thread = "connect" => bev = safe

\* A heartbeat is sent from within the loop; on one thread no event callback is
\* in progress then, and if it goes on to write, no end was reported.
BeatInv == /\ cur # NoItem => thread = "loop"
           /\ beat = "write" => cur # NoItem
           /\ ~ iocp /\ cur # NoItem => event = "idle"
           /\ ~ iocp /\ ~ late /\ beat = "write" => ~ ended

\* An event callback in progress means that the end was reported; after it has
\* cleared _connected the session is connected only if the connection was
\* reported made later, nor is it before that was reported; before the end was
\* reported _bev is there.
ReportInv == /\ event # "idle" => ended
             /\ "connect" \in due => ~ connected
             /\ ended /\ event # "handled" /\ ~ late => ~ connected
             /\ thread \in {"setcb", "loop"} /\ ~ ended => bev

\* After the end the connection can be reported made only on one thread, and
\* not any more if the handlers break the loop.
LateInv == /\ ended => "connect" \notin due \/ (~ iocp /\ (breaks => broken))
           /\ breaks => ~ late

\* On one thread a session that is connected has its _bev, and one that is
\* being written to is.
BevInv == ~ iocp /\ ~ late => (connected \/ beat = "write" => bev)

LinkInv == HandlerInv /\ StartInv /\ BeatInv /\ ReportInv /\ LateInv /\ BevInv
CInv    == ClientTypeOK /\ LinkInv

\* The types of the connection, without those of its timer.
ConnTypeOK ==
  /\ thread \in {"none", "new", "connect", "setcb", "loop", "reset", "free", "done"}
  /\ {iocp, breaks, safe, base, bev, handler, callbacks, connected, broken} \subseteq BOOLEAN
  /\ net \in {"none", "trying", "failed", "up", "refused", "gone"}
  /\ {early, ended, late} \subseteq BOOLEAN /\ due \subseteq {"connect", "read", "write"}
  /\ event \in {"idle", "handled", "cleared"} /\ beat \in {"idle", "write"}

\* The types, in two parts that are proved apart: the timer's and the connection's.
LEMMA ClientTypeParts == ClientTypeOK <=> TimerTypeOK /\ ConnTypeOK
BY Zenon DEF ClientTypeOK, ConnTypeOK

\* And so after a step.
LEMMA ClientTypePartsNext == ClientTypeOK' <=> TimerTypeOK' /\ ConnTypeOK'
BY Zenon DEF ClientTypeOK, ConnTypeOK

-----------------------------------------------------------------------------
(* The types of the timer.                                                  *)

\* Starting the heartbeat.
LEMMA StartTyped ==
  ASSUME TimerTypeOK, NEW t \in Tids, Start(t)
  PROVE  TimerTypeOK'
<1>1. starts' \in 0 .. MaxStarts
  <2>1. MaxStarts \in Nat
    BY StartAssumption
  <2> QED BY <2>1 DEF Start, TimerTypeOK
<1>2. /\ table' \in [Tids -> Items \cup {NoEntry, Null}] /\ tidOf' \in [Items -> Tids]
      /\ items' \subseteq Items /\ pending' \subseteq Items /\ func' \in Tids \cup {NoEntry}
  BY DEF Start, start, TimerTypeOK
<1>3. cur' = cur /\ killedOwn' = killedOwn
  BY DEF Start
<1> QED BY <1>1, <1>2, <1>3 DEF TimerTypeOK

\* The other steps: the heartbeat is due, or done; the base deletes its event;
\* or nothing happens to it.
LEMMA BeatTyped ==
  ASSUME TimerTypeOK,
         \/ \E i \in Items : Fire(i)
         \/ GoOn
         \/ pending' = {} /\ UNCHANGED <<table, items, tidOf, func, cur, killedOwn, starts>>
         \/ UNCHANGED timerVars
  PROVE  TimerTypeOK'
BY DEF TimerTypeOK, Fire, GoOn, tableVars, timerVars

-----------------------------------------------------------------------------
(* The steps.                                                               *)

\* The user's thread makes the client.
LEMMA CreateStep == ASSUME CInv, createAndRun PROVE CInv'
<1> USE DEF CInv, LinkInv
<1>1. TimerTypeOK /\ ConnTypeOK
  BY ClientTypeParts
<1>2. TimerTypeOK' /\ cur' = cur
  BY <1>1, StartTyped DEF createAndRun, Start
<1>3. ConnTypeOK'
  BY <1>1 DEF createAndRun, ConnTypeOK, buildVars, reportVars
<1>4. LinkInv'
  BY <1>1, <1>2 DEF createAndRun, buildVars, reportVars, ConnTypeOK, HandlerInv, StartInv, BeatInv, ReportInv, LateInv, BevInv
<1> QED BY <1>2, <1>3, <1>4, ClientTypePartsNext

\* SocketClient's thread: nothing is reset while a callback runs in the loop.
LEMMA ThreadStep == ASSUME CInv, Thread PROVE CInv'
<1> USE DEF CInv, LinkInv
<1>1. TimerTypeOK /\ ConnTypeOK
  BY ClientTypeParts
<1>2. TimerTypeOK' /\ cur' = cur
  <2>1. CASE freeBase
    BY <1>1, <2>1, BeatTyped DEF freeBase
  <2>2. CASE newBufferevent \/ connect \/ setcb \/ LoopEnds \/ reset
    <3>1. UNCHANGED timerVars
      BY <2>2 DEF newBufferevent, connect, setcb, LoopEnds, reset
    <3> QED BY <1>1, <3>1, BeatTyped DEF timerVars
  <2> QED BY <2>1, <2>2 DEF Thread
<1>3. ConnTypeOK'
  BY <1>1 DEF Thread, newBufferevent, connect, setcb, LoopEnds, reset, freeBase, ConnTypeOK, buildVars, reportVars
<1>0. ASSUME newBufferevent PROVE LinkInv'
  BY <1>1, <1>2, <1>0 DEF newBufferevent, buildVars, reportVars, ConnTypeOK, HandlerInv, StartInv, BeatInv, ReportInv, LateInv, BevInv
<1>4. ASSUME connect PROVE LinkInv'
  <2>1. /\ thread = "connect" /\ thread' \in {"setcb", "loop"} /\ bev
        /\ UNCHANGED <<buildVars, bev, handler, late, event, beat, broken>>
    BY <1>4 DEF connect
  <2>2. ~ ended /\ ~ late /\ ~ connected /\ due = {} /\ cur = NoItem /\ beat # "write" /\ event = "idle"
    BY <1>1, <2>1 DEF StartInv, BeatInv, ReportInv, ConnTypeOK
  <2>3. ~ connected'
    BY <1>4, <2>2 DEF connect
  <2>4. "connect" \in due' => ~ ended'
    BY <1>4, <2>2 DEF connect
  <2>5. HandlerInv' /\ StartInv' /\ ReportInv'
    BY <2>1, <2>2, <2>3 DEF HandlerInv, StartInv, ReportInv
  <2>6. BeatInv' /\ LateInv' /\ BevInv'
    BY <1>2, <2>1, <2>2, <2>3, <2>4 DEF buildVars, BeatInv, LateInv, BevInv
  <2> QED BY <2>5, <2>6
<1>5. ASSUME setcb PROVE LinkInv'
  BY <1>1, <1>2, <1>5 DEF setcb, buildVars, reportVars, ConnTypeOK, HandlerInv, StartInv, BeatInv, ReportInv, LateInv, BevInv
<1>6. ASSUME LoopEnds PROVE LinkInv'
  BY <1>1, <1>2, <1>6 DEF LoopEnds, Idle, buildVars, reportVars, ConnTypeOK, HandlerInv, StartInv, BeatInv, ReportInv, LateInv, BevInv
<1>7. ASSUME reset PROVE LinkInv'
  BY <1>1, <1>2, <1>7 DEF reset, buildVars, reportVars, ConnTypeOK, HandlerInv, StartInv, BeatInv, ReportInv, LateInv, BevInv
<1>8. ASSUME freeBase PROVE LinkInv'
  BY <1>1, <1>2, <1>8 DEF freeBase, buildVars, reportVars, ConnTypeOK, HandlerInv, StartInv, BeatInv, ReportInv, LateInv, BevInv
<1> QED BY <1>0, <1>2, <1>3, <1>4, <1>5, <1>6, <1>7, <1>8, ClientTypePartsNext DEF Thread

\* The heartbeat: what sendData writes to is not taken away between its look at
\* _connected and the write.
LEMMA HeartbeatStep == ASSUME CInv, Heartbeat PROVE CInv'
<1> USE DEF CInv, LinkInv
<1>1. TimerTypeOK /\ ConnTypeOK
  BY ClientTypeParts
<1>2. TimerTypeOK'
  BY <1>1, BeatTyped DEF Heartbeat, BeatFires, sendCheck, sendWrite
<1>3. ConnTypeOK'
  BY <1>1 DEF Heartbeat, BeatFires, sendCheck, sendWrite, ConnTypeOK, connVars, buildVars, reportVars
<1>4. ASSUME BeatFires PROVE LinkInv'
  <2>1. cur' # NoItem /\ thread = "loop" /\ (iocp \/ event = "idle") /\ UNCHANGED connVars
    BY <1>4, ItemAssumption DEF BeatFires, Idle, Fire
  <2> QED BY <1>1, <2>1 DEF connVars, buildVars, reportVars, HandlerInv, StartInv, BeatInv, ReportInv, LateInv, BevInv
<1>5. ASSUME sendCheck \/ sendWrite PROVE LinkInv'
  <2>1. /\ \/ beat' = "write" /\ connected /\ cur' = cur /\ cur # NoItem
           \/ beat' = "idle" /\ cur' = NoItem
        /\ UNCHANGED <<buildVars, thread, base, bev, handler, callbacks, connected, net, reportVars,
                       event, broken>>
    BY <1>1, <1>5 DEF sendCheck, sendWrite, GoOn, timerVars, ConnTypeOK
  <2> QED BY <1>1, <2>1 DEF buildVars, reportVars, ConnTypeOK, HandlerInv, StartInv, BeatInv, ReportInv, LateInv, BevInv
<1> QED BY <1>2, <1>3, <1>4, <1>5, ClientTypePartsNext DEF Heartbeat

\* The network.
LEMMA NetworkStep == ASSUME CInv, Network PROVE CInv'
<1> USE DEF CInv, LinkInv
<1>1. TimerTypeOK /\ ConnTypeOK
  BY ClientTypeParts
<1>2. UNCHANGED timerVars
  BY DEF Network
<1>3. TimerTypeOK'
  BY <1>1, <1>2, BeatTyped
<1>4. ConnTypeOK'
  BY <1>1 DEF Network, ConnTypeOK, buildVars, reportVars
<1>5. LinkInv'
  BY <1>1, <1>2 DEF Network, timerVars, buildVars, reportVars, HandlerInv, StartInv, BeatInv, ReportInv, LateInv, BevInv
<1> QED BY <1>3, <1>4, <1>5, ClientTypePartsNext

\* libevent's reports.
LEMMA EventStep == ASSUME CInv, Event PROVE CInv'
<1> USE DEF CInv, LinkInv
<1>1. TimerTypeOK /\ ConnTypeOK
  BY ClientTypeParts
<1>2. UNCHANGED timerVars
  BY DEF Event, EventConnected, EventEnd, EventLost, EventDisconnect, EventForget
<1>3. TimerTypeOK'
  BY <1>1, <1>2, BeatTyped
<1>4. ASSUME EventConnected PROVE ConnTypeOK' /\ LinkInv'
  <2>1. /\ "connect" \in due /\ due' = (due \ {"connect"}) \cup {"write"} /\ event = "idle"
        /\ thread \in {"setcb", "loop", "reset", "free"}
        /\ iocp \/ (thread = "loop" /\ ~ broken /\ cur = NoItem)
    BY <1>4 DEF EventConnected, MayCall
  <2>2. connected' \in BOOLEAN /\ late' \in BOOLEAN /\ (late' <=> late \/ ended)
    BY <1>4 DEF EventConnected
  <2>3. UNCHANGED <<buildVars, thread, base, bev, handler, callbacks, net, early, ended, event, beat, broken>>
    BY <1>4 DEF EventConnected
  <2>4. ConnTypeOK'
    BY <1>1, <2>1, <2>2, <2>3 DEF buildVars, ConnTypeOK
  <2>5. breaks => ~ ended
    BY <1>1, <2>1 DEF LateInv, ConnTypeOK
  <2>6. LinkInv'
    BY <1>1, <1>2, <2>1, <2>2, <2>3, <2>5
       DEF timerVars, buildVars, ConnTypeOK, HandlerInv, StartInv, BeatInv, ReportInv, LateInv, BevInv
  <2> QED BY <2>4, <2>6
<1>5. ASSUME EventEnd PROVE ConnTypeOK' /\ LinkInv'
  <2>1. /\ ended' = TRUE /\ event' = "handled" /\ event = "idle"
        /\ thread \in {"setcb", "loop", "reset", "free"}
        /\ iocp \/ (thread = "loop" /\ cur = NoItem)
    BY <1>5 DEF EventEnd, Reported, MayCall
  <2>2. broken' \in BOOLEAN /\ (breaks => broken')
    BY <1>5 DEF EventEnd
  <2>3. due' \subseteq due /\ (iocp => due' = {})
    BY <1>5 DEF EventEnd, Reported
  <2>4. UNCHANGED <<buildVars, thread, base, bev, handler, callbacks, connected, net, early, late, beat>>
    BY <1>5 DEF EventEnd
  <2>5. ConnTypeOK'
    BY <1>1, <2>1, <2>2, <2>3, <2>4 DEF buildVars, ConnTypeOK
  <2>6. LinkInv'
    BY <1>1, <1>2, <2>1, <2>2, <2>3, <2>4
       DEF timerVars, buildVars, ConnTypeOK, HandlerInv, StartInv, BeatInv, ReportInv, LateInv, BevInv
  <2> QED BY <2>5, <2>6
<1>6. ASSUME EventLost PROVE ConnTypeOK' /\ LinkInv'
  <2>1. /\ "connect" \in due /\ due' = {} /\ ended' = TRUE
        /\ event = "idle" /\ event' = event /\ iocp /\ thread = "setcb"
    BY <1>6 DEF EventLost, Reported, MayCall
  <2>2. UNCHANGED <<buildVars, thread, base, bev, handler, callbacks, connected, net, early, late, beat, broken>>
    BY <1>6 DEF EventLost
  <2>3. ConnTypeOK'
    BY <1>1, <2>1, <2>2 DEF buildVars, ConnTypeOK
  <2>4. LinkInv'
    BY <1>1, <1>2, <2>1, <2>2
       DEF timerVars, buildVars, ConnTypeOK, HandlerInv, StartInv, BeatInv, ReportInv, LateInv, BevInv
  <2> QED BY <2>3, <2>4
<1>7. ASSUME EventDisconnect PROVE ConnTypeOK' /\ LinkInv'
  BY <1>1, <1>2, <1>7
     DEF EventDisconnect, timerVars, buildVars, reportVars, ConnTypeOK, HandlerInv, StartInv, BeatInv,
         ReportInv, LateInv, BevInv
<1>8. ASSUME EventForget PROVE ConnTypeOK' /\ LinkInv'
  BY <1>1, <1>2, <1>8
     DEF EventForget, timerVars, buildVars, reportVars, ConnTypeOK, HandlerInv, StartInv, BeatInv,
         ReportInv, LateInv, BevInv
<1> QED BY <1>3, <1>4, <1>5, <1>6, <1>7, <1>8, ClientTypePartsNext DEF Event

-----------------------------------------------------------------------------
\* The client starts in the invariant, and every step keeps it.
LEMMA CInvInit == ClientInit => CInv
<1> SUFFICES ASSUME ClientInit PROVE CInv
  OBVIOUS
<1>1. MaxStarts \in Nat
  BY StartAssumption
<1>2. TimerTypeOK
  <2>1. TimerInit
    BY Zenon DEF ClientInit
  <2>2. starts \in 0 .. MaxStarts
    BY <1>1, <2>1 DEF TimerInit
  <2>3. table \in [Tids -> Items \cup {NoEntry, Null}]
    BY <2>1 DEF TimerInit
  <2> QED BY <2>1, <2>2, <2>3 DEF TimerInit, TimerTypeOK
<1>3. /\ iocp \in BOOLEAN /\ breaks \in BOOLEAN /\ safe \in BOOLEAN
      /\ ~ base /\ ~ bev /\ ~ handler /\ ~ callbacks /\ ~ connected /\ ~ broken
      /\ {base, bev, handler, callbacks, connected, broken} \subseteq BOOLEAN
      /\ thread = "none" /\ net = "none" /\ due = {}
      /\ ~ early /\ ~ ended /\ ~ late /\ {early, ended, late} \subseteq BOOLEAN
      /\ event = "idle" /\ beat = "idle" /\ cur = NoItem
  BY Zenon DEF ClientInit, TimerInit
<1>4. ConnTypeOK
  BY <1>3 DEF ConnTypeOK
<1>5. LinkInv
  BY <1>3 DEF LinkInv, HandlerInv, StartInv, BeatInv, ReportInv, LateInv, BevInv
<1> QED BY <1>2, <1>4, <1>5, ClientTypeParts DEF CInv

\* Every step of the client keeps the invariant.
LEMMA CInvStep == CInv /\ [ClientNext]_clientVars => CInv'
<1> SUFFICES ASSUME CInv, [ClientNext]_clientVars PROVE CInv'
  OBVIOUS
<1>1. CASE ClientNext
  BY <1>1, CreateStep, ThreadStep, HeartbeatStep, NetworkStep, EventStep DEF ClientNext, ClientStep
<1>2. CASE UNCHANGED clientVars
  <2>1. TimerTypeOK /\ ConnTypeOK
    BY ClientTypeParts DEF CInv
  <2>2. UNCHANGED timerVars /\ UNCHANGED connVars
    BY <1>2 DEF clientVars
  <2>3. TimerTypeOK'
    BY <2>1, <2>2, BeatTyped
  <2>4. ConnTypeOK'
    BY <2>1, <2>2 DEF connVars, buildVars, reportVars, ConnTypeOK
  <2>5. LinkInv'
    BY <2>2 DEF CInv, LinkInv, timerVars, connVars, buildVars, reportVars, HandlerInv, StartInv, BeatInv,
                ReportInv, LateInv, BevInv
  <2> QED BY <2>3, <2>4, <2>5, ClientTypePartsNext DEF CInv
<1> QED BY <1>1, <1>2

\* On one thread the heartbeat never writes to a null _bev, unless the connection
\* was reported made after its end, and no event callback meets a null handler,
\* wherever SocketClient's thread is; where libevent can lock, connect has its
\* bufferevent.
THEOREM ClientPointers == ClientSpec => []PointersAtUse
<1>1. CInv => PointersAtUse
  BY DEF CInv, LinkInv, HandlerInv, StartInv, BevInv, PointersAtUse, MayCall
<1> QED BY <1>1, CInvInit, CInvStep, PTL DEF ClientSpec

\* Handlers that break the loop at the end are never told after it that the
\* connection was made, and their session stays disconnected, in both builds.
THEOREM ClientBrokenStaysEnded == ClientSpec => []BrokenStaysEnded
<1>1. CInv => BrokenStaysEnded
  BY DEF CInv, LinkInv, ReportInv, LateInv, BrokenStaysEnded
<1> QED BY <1>1, CInvInit, CInvStep, PTL DEF ClientSpec

\* Only sendCheck begins to send and only sendWrite writes.
LEMMA BeatChanges ==
  ASSUME CInv, [ClientNext]_clientVars, beat' # beat
  PROVE  \/ sendCheck /\ connected
         \/ sendWrite
<1>1. CASE sendCheck
  BY <1>1 DEF sendCheck
<1>2. sendCheck \/ sendWrite
  BY DEF ClientNext, ClientStep, createAndRun, Thread, newBufferevent, connect, setcb, LoopEnds, reset,
     freeBase, Heartbeat, BeatFires, Network, Event, EventConnected, EventEnd, EventLost, EventDisconnect,
     EventForget, clientVars, connVars
<1> QED BY <1>1, <1>2

\* After the end was reported no heartbeat is begun once _connected is cleared,
\* and on one thread none is written.
THEOREM ClientDisconnectFinal == ClientSpec => DisconnectFinal
<1>1. ASSUME CInv, [ClientNext]_clientVars, ~ late, ended
      PROVE  /\ beat = "idle" /\ beat' = "write" => event = "handled"
             /\ beat = "write" /\ beat' = "idle" => iocp
  <2>1. ASSUME beat = "idle", beat' = "write" PROVE event = "handled"
    <3>1. connected
      BY <1>1, <2>1, BeatChanges DEF sendWrite
    <3> QED BY <1>1, <3>1 DEF CInv, LinkInv, ReportInv
  <2>2. ASSUME beat = "write" PROVE iocp
    BY <1>1, <2>2 DEF CInv, LinkInv, BeatInv
  <2> QED BY <2>1, <2>2
<1>2. CInv /\ [ClientNext]_clientVars
        => [~ late /\ ended => /\ beat = "idle" /\ beat' = "write" => event = "handled"
                               /\ beat = "write" /\ beat' = "idle" => iocp]_clientVars
  BY <1>1
<1> QED BY <1>2, CInvInit, CInvStep, PTL DEF ClientSpec, DisconnectFinal

-----------------------------------------------------------------------------
(* The end of the client.                                                   *)

\* A callback is in progress only while the event base is there, on whichever
\* thread it runs; and a client that is done has no callback, event, handler or
\* bufferevent left that could still be used.
ClientStopsClean ==
  /\ event # "idle" \/ cur # NoItem \/ beat # "idle" => base
  /\ thread = "done" => ~ base /\ ~ bev /\ ~ handler /\ ~ connected /\ pending = {}

\* Where the base is there, and where event callbacks can be in progress; after
\* the session was reset nothing of it comes back, and a base that is freed
\* has no events.
EndInv ==
  /\ base <=> thread \notin {"none", "done"}
  /\ event # "idle" => thread \in {"setcb", "loop", "reset", "free"}
  /\ thread \in {"free", "done"} => ~ bev /\ ~ handler /\ ~ connected
  /\ thread = "done" => pending = {}

\* What happens to the client, step by step.
LEMMA EndStep == CInv /\ EndInv /\ [ClientNext]_clientVars => EndInv'
<1> SUFFICES ASSUME CInv, EndInv, [ClientNext]_clientVars PROVE EndInv'
  OBVIOUS
<1> USE DEF EndInv
<1>1. event \in {"idle", "handled", "cleared"} /\ connected \in BOOLEAN /\ callbacks \in BOOLEAN
  BY Zenon, ClientTypeParts DEF CInv, ConnTypeOK
<1>2. CASE createAndRun
  BY <1>2 DEF createAndRun
<1>3. CASE newBufferevent \/ connect \/ setcb \/ LoopEnds
  <2>1. event = "idle" \/ thread \in {"setcb", "loop"}
    BY <1>3 DEF newBufferevent, connect, setcb, LoopEnds
  <2> QED BY <1>3, <2>1 DEF newBufferevent, connect, setcb, LoopEnds
<1>4. CASE reset \/ freeBase
  BY <1>4 DEF reset, freeBase
<1>5. CASE Heartbeat
  <2>1. thread = "loop" /\ UNCHANGED <<thread, base, bev, handler, connected, event>>
    <3>1. beat = "write" \/ cur # NoItem => thread = "loop"
      BY DEF CInv, LinkInv, BeatInv
    <3> QED BY <1>5, <3>1 DEF Heartbeat, BeatFires, sendCheck, sendWrite, connVars
  <2> QED BY <2>1
<1>6. CASE Network
  BY <1>6 DEF Network, timerVars
<1>7. CASE EventConnected \/ EventEnd \/ EventLost
  <2>1. thread \in {"setcb", "loop", "reset", "free"}
    BY <1>7 DEF EventConnected, EventEnd, EventLost, MayCall
  <2>2. UNCHANGED <<thread, base, bev, handler, pending>>
    BY <1>7 DEF EventConnected, EventEnd, EventLost, timerVars
  <2>3. ~ handler /\ ~ connected => ~ connected'
    BY <1>1, <1>7 DEF EventConnected, EventEnd, EventLost
  <2> QED BY <2>1, <2>2, <2>3
<1>8. CASE EventDisconnect \/ EventForget
  BY <1>8 DEF EventDisconnect, EventForget, timerVars
<1>9. CASE UNCHANGED clientVars
  BY <1>9 DEF clientVars, timerVars, connVars
<1> QED BY <1>2, <1>3, <1>4, <1>5, <1>6, <1>7, <1>8, <1>9 DEF ClientNext, ClientStep, Thread, Event

\* The safety half of LoopGivesUp: however the loop came to its end, and though
\* completion port threads may still be in a callback while it is taken down,
\* no callback outlives the base, and none is left to come.
THEOREM ClientTeardown == ClientSpec => []ClientStopsClean
<1>1. ClientInit => EndInv
  BY DEF ClientInit, EndInv
<1>2. CInv /\ EndInv => ClientStopsClean
  <2> SUFFICES ASSUME CInv, EndInv PROVE ClientStopsClean
    OBVIOUS
  <2>1. beat \in {"idle", "write"}
    BY ClientTypeParts DEF CInv, ConnTypeOK
  <2>2. cur # NoItem \/ beat = "write" => thread = "loop"
    BY DEF CInv, LinkInv, BeatInv
  <2> QED BY <2>1, <2>2 DEF EndInv, ClientStopsClean
<1> QED BY <1>1, <1>2, EndStep, CInvInit, CInvStep, PTL DEF ClientSpec
=============================================================================
