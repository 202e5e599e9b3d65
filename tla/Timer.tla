------------------------------- MODULE Timer -------------------------------
(***************************************************************************)
(* The timers of libnet/socket_timer.cpp: Timer over TimerLinux, a table   *)
(* from timer ids to items, each with a persistent event in the base of a  *)
(* SocketProcessor.  TimerWin32 in the same file is not built into Timer.  *)
(*                                                                         *)
(* Everything runs on the thread of the event loop, or before it starts.   *)
(* An item is known by its address, which may be given out again once it   *)
(* was freed.  The object keeps one callback function for all its timers,  *)
(* that of the latest start, also of a start from within the callback.     *)
(* The period is not told apart.  A callback may start and kill timers and *)
(* asks for its own timer's end by returning false.  Calling no function,  *)
(* or reading a null or freed item, ends the process: such a step has no   *)
(* successor.                                                              *)
(***************************************************************************)
EXTENDS Naturals

CONSTANTS Tids,       \* timer ids, none of them negative
          Items,      \* addresses of TIMER_ITEM objects
          NoEntry,    \* the table has no entry for an id; no function
          Null,       \* the entry's pointer is null
          NoItem,     \* no callback runs
          Careless,   \* callbacks also kill ids that were not started
          MaxStarts   \* bound: calls of start

ASSUME ItemAssumption  == {NoEntry, Null, NoItem} \cap Items = {} /\ NoEntry \notin Tids \cup {Null}
ASSUME StartAssumption == MaxStarts \in Nat /\ Careless \in BOOLEAN

VARIABLES table,      \* _timers
          items,      \* the TIMER_ITEM objects that exist
          tidOf,      \* tidOf[i]: i->tid
          func,       \* _on_timer: the id for whose start it was passed
          pending,    \* items whose event is in the base
          cur,        \* the item whose callback runs
          killedOwn,  \* that callback has killed the timer it runs for
          starts      \* calls of start so far

tableVars == <<table, items, tidOf, func, pending>>
timerVars == <<table, items, tidOf, func, pending, cur, killedOwn, starts>>

TimerInit ==
  /\ table = [t \in Tids |-> NoEntry]
  /\ items = {} /\ pending = {}
  /\ tidOf \in [Items -> Tids] /\ func = NoEntry
  /\ cur = NoItem /\ killedOwn = FALSE
  /\ starts = 0

-----------------------------------------------------------------------------
(* The operations.                                                         *)

\* Slip: a timer that is there is replaced by a new item.
startAnew(t) ==
  /\ func' = t
  /\ \E i \in Items \ items :
       /\ items' = (items \ {table[t]}) \cup {i}
       /\ table' = [table EXCEPT ![t] = i]
       /\ tidOf' = [tidOf EXCEPT ![i] = t]
       /\ pending' = (pending \ {table[t]}) \cup {i}

\* start: the function replaces the one before it; an id without an item gets
\* a new one, the event of another is deleted; then the event is assigned and
\* added.
start(t) ==
  /\ func' = t
  /\ \/ /\ table[t] \in {NoEntry, Null}
        /\ \E i \in Items \ items :
             /\ items' = items \cup {i}
             /\ table' = [table EXCEPT ![t] = i]
             /\ tidOf' = [tidOf EXCEPT ![i] = t]
             /\ pending' = pending \cup {i}
     \/ /\ table[t] \notin {NoEntry, Null}
        /\ pending' = pending \cup {table[t]}
        /\ UNCHANGED <<table, items, tidOf>>

\* Slips: the entry is not erased; the event is not deleted.
killKeepEntry(t) ==
  /\ items' = items \ {table[t]}
  /\ pending' = pending \ {table[t]}
  /\ table' = [table EXCEPT ![t] = Null]
  /\ UNCHANGED <<tidOf, func>>

killKeepEvent(t) ==
  /\ items' = items \ {table[t]}
  /\ table' = [table EXCEPT ![t] = NoEntry]
  /\ UNCHANGED <<tidOf, func, pending>>

\* kill: looking the id up adds a null entry if there is none; an item that is
\* there is looked for in the table, reading every entry's item on the way,
\* its event is deleted, it is freed and its entry erased.
kill(t) ==
  \/ /\ table[t] \in {NoEntry, Null}
     /\ table' = [table EXCEPT ![t] = Null]
     /\ UNCHANGED <<items, tidOf, func, pending>>
  \/ /\ table[t] \notin {NoEntry, Null}
     /\ \A u \in Tids : table[u] # Null
     /\ pending' = pending \ {table[t]}
     /\ items' = items \ {table[t]}
     /\ table' = [table EXCEPT ![t] = NoEntry]
     /\ UNCHANGED <<tidOf, func>>

\* destroy: every item's event is deleted and the item freed.
destroy ==
  /\ \A t \in Tids : table[t] # Null
  /\ pending' = pending \ {table[t] : t \in Tids}
  /\ items' = items \ {table[t] : t \in Tids}
  /\ table' = [t \in Tids |-> NoEntry]
  /\ UNCHANGED <<tidOf, func>>

-----------------------------------------------------------------------------
(* _timer_cb.                                                              *)

\* Slip: the event is assigned without EV_PERSIST.
FireOnce(i) ==
  /\ cur = NoItem /\ i \in pending /\ func # NoEntry
  /\ cur' = i /\ killedOwn' = FALSE
  /\ pending' = pending \ {i}
  /\ UNCHANGED <<table, items, tidOf, func, starts>>

\* libevent calls back for an event that is due, and _timer_cb calls _on_timer;
\* a persistent event is put back before that.
Fire(i) ==
  /\ cur = NoItem /\ i \in pending /\ func # NoEntry
  /\ cur' = i /\ killedOwn' = FALSE
  /\ UNCHANGED <<tableVars, starts>>

\* _on_timer returned true.
GoOn ==
  /\ cur # NoItem
  /\ cur' = NoItem /\ killedOwn' = FALSE
  /\ UNCHANGED <<tableVars, starts>>

\* _on_timer returned false: kill(ptimer->tid), which reads the item.  If the
\* callback has killed its own timer, that is freed memory, or the item of
\* another timer it has started since, which is then killed.
Stop ==
  /\ cur # NoItem /\ cur \in items
  /\ kill(tidOf[cur])
  /\ cur' = NoItem /\ killedOwn' = FALSE
  /\ UNCHANGED starts

-----------------------------------------------------------------------------
(* The users of a Timer.                                                   *)

Start(t) ==
  /\ starts < MaxStarts /\ starts' = starts + 1
  /\ start(t)
  /\ UNCHANGED <<cur, killedOwn>>

\* A callback kills a timer that was started, or any.
Kill(t) ==
  /\ cur # NoItem /\ (Careless \/ table[t] # NoEntry)
  /\ kill(t)
  /\ killedOwn' = (killedOwn \/ table[t] = cur)
  /\ UNCHANGED <<cur, starts>>

Destroy ==
  /\ cur = NoItem
  /\ destroy
  /\ UNCHANGED <<cur, killedOwn, starts>>

TimerNext ==
  \/ \E t \in Tids : Start(t) \/ Kill(t)
  \/ \E i \in Items : Fire(i)
  \/ GoOn \/ Stop \/ Destroy

\* Callbacks return, and the loop serves every event that is due.
TimerFairness == /\ WF_timerVars(GoOn \/ Stop)
                 /\ \A i \in Items : SF_timerVars(Fire(i))

TimerSpec     == TimerInit /\ [][TimerNext]_timerVars
FairTimerSpec == TimerSpec /\ TimerFairness

-----------------------------------------------------------------------------
TimerTypeOK ==
  /\ table \in [Tids -> Items \cup {NoEntry, Null}]
  /\ tidOf \in [Items -> Tids] /\ func \in Tids \cup {NoEntry}
  /\ items \subseteq Items /\ pending \subseteq Items
  /\ cur \in Items \cup {NoItem} /\ killedOwn \in BOOLEAN
  /\ starts \in 0 .. MaxStarts

\* The table, the items that exist and the events in the base are the same
\* timers: no event of a freed item that could still fire, and no item that
\* nobody can kill; and there is a function for those that fire.
TableExact ==
  /\ \A t \in Tids : table[t] \in Items => table[t] \in items /\ tidOf[table[t]] = t
  /\ \A i \in items : table[tidOf[i]] = i
  /\ pending = items
  /\ items # {} => func # NoEntry

\* If only timers that were started are killed, the table has no null entry
\* that a later kill or destroy would read.
NoNullEntry == ~ Careless => \A t \in Tids : table[t] # Null

\* What _timer_cb reads after the callback, to kill its timer, is there,
\* whatever timers the callback has started and killed, unless it has killed
\* its own.
ItemAtUse == cur # NoItem /\ ~ killedOwn => cur \in items

\* "定时器只执行无限次执行": a timer that stays in the table, and is not started
\* over and over, fires again and again.
FiresForever ==
  \A t \in Tids : <>[](table[t] \in Items) => []<>(cur # NoItem /\ tidOf[cur] = t)
=============================================================================
