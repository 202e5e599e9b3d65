------------------------- MODULE CenterServerProofs -------------------------
(* Proofs about Timer, SocketServer and CenterServer, from the timers up to *)
(* the sessions, for any number of timers, peers and addresses.             *)
EXTENDS CenterServer, ListProofs

-----------------------------------------------------------------------------
(* Timer: the table of timers, the items and the events of the base always  *)
(* agree, whatever the callbacks start and kill.                            *)

\* What is said of the table alone.
TableTypeOK ==
  /\ table \in [Tids -> Items \cup {NoEntry, Null}]
  /\ tidOf \in [Items -> Tids] /\ func \in Tids \cup {NoEntry}
  /\ items \subseteq Items /\ pending \subseteq Items

TableInv == TableTypeOK /\ TableExact

\* The inductive invariant.
TimerInv == TimerTypeOK /\ TableExact /\ NoNullEntry /\ ItemAtUse

\* start keeps the table exact: a new item is in no other entry, and one that
\* is there is kept with its event.
LEMMA StartKeeps ==
  ASSUME NEW t \in Tids, TableInv, start(t)
  PROVE  /\ TableInv' /\ items \subseteq items'
         /\ (\A u \in Tids : table[u] # Null) => (\A u \in Tids : table'[u] # Null)
<1>0. func' = t /\ t # NoEntry
  BY ItemAssumption DEF start
<1>1. CASE table[t] \notin {NoEntry, Null}
  <2>1. /\ pending' = pending \cup {table[t]} /\ UNCHANGED <<table, items, tidOf>>
        /\ table[t] \in Items
    BY <1>1 DEF start, TableInv, TableTypeOK
  <2>2. table[t] \in items
    BY <2>1 DEF TableInv, TableExact
  <2> QED BY <1>0, <2>1, <2>2 DEF TableInv, TableTypeOK, TableExact
<1>2. CASE table[t] \in {NoEntry, Null}
  <2>1. PICK i \in Items \ items : /\ items' = items \cup {i}
                                   /\ table' = [table EXCEPT ![t] = i]
                                   /\ tidOf' = [tidOf EXCEPT ![i] = t]
                                   /\ pending' = pending \cup {i}
    BY <1>2 DEF start
  <2>2. table[t] \notin Items
    BY <1>2, ItemAssumption
  <2>3. TableTypeOK'
    BY <1>0, <2>1 DEF TableInv, TableTypeOK
  <2>4. ASSUME NEW u \in Tids, table'[u] \in Items
        PROVE  table'[u] \in items' /\ tidOf'[table'[u]] = u
    <3>1. CASE u = t
      BY <2>1, <3>1 DEF TableInv, TableTypeOK
    <3>2. CASE u # t
      <4>1. table'[u] = table[u]
        BY <2>1, <3>2 DEF TableInv, TableTypeOK
      <4>2. table[u] \in items /\ tidOf[table[u]] = u
        BY <4>1, <2>4 DEF TableInv, TableExact
      <4> QED BY <4>1, <4>2, <2>1 DEF TableInv, TableTypeOK
    <3> QED BY <3>1, <3>2
  <2>5. ASSUME NEW j \in items' PROVE table'[tidOf'[j]] = j
    <3>1. CASE j = i
      BY <2>1, <3>1 DEF TableInv, TableTypeOK
    <3>2. CASE j # i
      <4>1. j \in items /\ table[tidOf[j]] = j /\ j \in Items
        BY <2>1, <3>2 DEF TableInv, TableTypeOK, TableExact
      <4>2. tidOf[j] # t
        BY <4>1, <2>2
      <4> QED BY <4>1, <4>2, <2>1, <3>2 DEF TableInv, TableTypeOK
    <3> QED BY <3>1, <3>2
  <2>6. pending' = items'
    BY <2>1 DEF TableInv, TableExact
  <2>7. (\A u \in Tids : table[u] # Null) => (\A u \in Tids : table'[u] # Null)
    BY <2>1, ItemAssumption DEF TableInv, TableTypeOK
  <2>8. TableExact'
    BY <1>0, <2>4, <2>5, <2>6 DEF TableExact
  <2> QED BY <2>1, <2>3, <2>7, <2>8 DEF TableInv
<1> QED BY <1>1, <1>2

\* kill keeps the table exact: what it frees is in no other entry.  It leaves
\* a null entry only for an id that had no item.
LEMMA KillKeeps ==
  ASSUME NEW t \in Tids, TableInv, kill(t)
  PROVE  /\ TableInv' /\ items \ {table[t]} \subseteq items'
         /\ (table[t] \in Items /\ (\A u \in Tids : table[u] # Null))
              => (\A u \in Tids : table'[u] # Null)
<1>1. CASE table[t] \in {NoEntry, Null}
  <2>1. table' = [table EXCEPT ![t] = Null] /\ UNCHANGED <<items, tidOf, func, pending>>
    BY <1>1 DEF kill
  <2>2. table[t] \notin Items /\ Null \notin Items
    BY <1>1, ItemAssumption
  <2>3. TableTypeOK'
    BY <2>1 DEF TableInv, TableTypeOK
  <2>4. TableExact'
    BY <2>1, <2>2 DEF TableInv, TableTypeOK, TableExact
  <2> QED BY <2>1, <2>2, <2>3, <2>4 DEF TableInv
<1>2. CASE table[t] \notin {NoEntry, Null}
  <2> DEFINE i == table[t]
  <2>1. /\ pending' = pending \ {i} /\ items' = items \ {i}
        /\ table' = [table EXCEPT ![t] = NoEntry] /\ UNCHANGED <<tidOf, func>>
    BY <1>2 DEF kill
  <2>2. i \in items /\ i \in Items /\ tidOf[i] = t
    BY <1>2 DEF TableInv, TableTypeOK, TableExact
  <2>3. TableTypeOK'
    BY <2>1 DEF TableInv, TableTypeOK
  <2>4. ASSUME NEW u \in Tids, table'[u] \in Items
        PROVE  table'[u] \in items' /\ tidOf'[table'[u]] = u
    <3>1. u # t
      BY <2>1, <2>4, ItemAssumption DEF TableInv, TableTypeOK
    <3>2. table'[u] = table[u]
      BY <2>1, <3>1 DEF TableInv, TableTypeOK
    <3>3. table[u] \in items /\ tidOf[table[u]] = u
      BY <3>2, <2>4 DEF TableInv, TableExact
    <3>4. table[u] # i
      BY <3>3, <3>1, <2>2
    <3> QED BY <2>1, <3>2, <3>3, <3>4
  <2>5. ASSUME NEW j \in items' PROVE table'[tidOf'[j]] = j
    <3>1. j \in items /\ j # i /\ table[tidOf[j]] = j /\ j \in Items
      BY <2>1 DEF TableInv, TableTypeOK, TableExact
    <3>2. tidOf[j] # t
      BY <3>1
    <3> QED BY <3>1, <3>2, <2>1 DEF TableInv, TableTypeOK
  <2>6. pending' = items'
    BY <2>1 DEF TableInv, TableExact
  <2>7. TableExact'
    BY <2>1, <2>4, <2>5, <2>6 DEF TableExact, TableInv
  <2>8. (\A u \in Tids : table[u] # Null) => (\A u \in Tids : table'[u] # Null)
    BY <2>1, ItemAssumption DEF TableInv, TableTypeOK
  <2> QED BY <2>1, <2>3, <2>7, <2>8 DEF TableInv
<1> QED BY <1>1, <1>2

\* destroy leaves no timer behind.
LEMMA DestroyKeeps ==
  ASSUME TableInv, destroy
  PROVE  TableInv' /\ items' = {} /\ (\A u \in Tids : table'[u] # Null)
<1>1. /\ pending' = pending \ {table[t] : t \in Tids}
      /\ items' = items \ {table[t] : t \in Tids}
      /\ table' = [t \in Tids |-> NoEntry] /\ UNCHANGED <<tidOf, func>>
  BY DEF destroy
<1>2. \A i \in items : tidOf[i] \in Tids /\ table[tidOf[i]] = i
  BY DEF TableInv, TableTypeOK, TableExact
<1>3. items \subseteq {table[t] : t \in Tids}
  BY <1>2
<1>4. items' = {} /\ pending' = {}
  BY <1>1, <1>3 DEF TableInv, TableExact
<1>5. \A u \in Tids : table'[u] = NoEntry
  BY <1>1
<1> QED BY <1>1, <1>4, <1>5, ItemAssumption DEF TableInv, TableTypeOK, TableExact

\* A table no operation touches stays exact.
LEMMA TableUnchanged ==
  ASSUME TableInv, UNCHANGED tableVars
  PROVE  TableInv'
BY DEF TableInv, TableTypeOK, TableExact, tableVars

\* The invariant, in the parts the proofs below treat one by one.
LEMMA TimerInvParts ==
  TimerInv <=> /\ TableInv /\ NoNullEntry /\ ItemAtUse
               /\ cur \in Items \cup {NoItem} /\ killedOwn \in BOOLEAN
               /\ starts \in 0 .. MaxStarts
BY Zenon DEF TimerInv, TimerTypeOK, TableInv, TableTypeOK

\* The same after a step.
LEMMA TimerInvPartsNext ==
  TimerInv' <=> /\ TableInv' /\ NoNullEntry' /\ ItemAtUse'
                /\ cur' \in Items \cup {NoItem} /\ killedOwn' \in BOOLEAN
                /\ starts' \in 0 .. MaxStarts
BY Zenon DEF TimerInv, TimerTypeOK, TableInv, TableTypeOK

\* At first there is no timer.
LEMMA TimerInitInv == TimerInit => TimerInv
<1> SUFFICES ASSUME TimerInit PROVE TimerInv
  OBVIOUS
<1>1. TableInv
  BY ItemAssumption DEF TimerInit, TableInv, TableTypeOK, TableExact
<1>2. NoNullEntry /\ ItemAtUse
  BY ItemAssumption DEF TimerInit, NoNullEntry, ItemAtUse
<1>3. starts \in 0 .. MaxStarts
  BY StartAssumption DEF TimerInit
<1>4. killedOwn \in BOOLEAN /\ cur \in Items \cup {NoItem}
  BY DEF TimerInit
<1> QED BY <1>1, <1>2, <1>3, <1>4, TimerInvParts

\* Every operation and every callback keeps the invariant.
LEMMA TimerNextInv == TimerInv /\ [TimerNext]_timerVars => TimerInv'
<1> SUFFICES ASSUME TimerInv, [TimerNext]_timerVars PROVE TimerInv'
  OBVIOUS
<1> USE DEF NoNullEntry
<1>0. /\ TableInv /\ NoNullEntry /\ ItemAtUse
      /\ cur \in Items \cup {NoItem} /\ killedOwn \in BOOLEAN
      /\ starts \in 0 .. MaxStarts
  BY TimerInvParts
<1>1. ASSUME NEW t \in Tids, Start(t) PROVE TimerInv'
  <2>1. start(t) /\ UNCHANGED <<cur, killedOwn>>
    BY <1>1 DEF Start
  <2>2. TableInv' /\ items \subseteq items' /\ NoNullEntry'
    BY <2>1, <1>0, StartKeeps
  <2>3. ItemAtUse'
    BY <2>1, <2>2, <1>0 DEF ItemAtUse
  <2>4. starts' \in 0 .. MaxStarts
    BY <1>0, <1>1, StartAssumption DEF Start
  <2> QED BY <1>0, <2>1, <2>2, <2>3, <2>4, TimerInvPartsNext
<1>2. ASSUME NEW t \in Tids, Kill(t) PROVE TimerInv'
  <2>1. /\ kill(t) /\ UNCHANGED <<cur, starts>>
        /\ killedOwn' = (killedOwn \/ table[t] = cur)
        /\ Careless \/ table[t] # NoEntry
    BY <1>2 DEF Kill
  <2>2. TableInv' /\ items \ {table[t]} \subseteq items'
    BY <2>1, <1>0, KillKeeps
  <2>3. NoNullEntry'
    <3> SUFFICES ASSUME ~ Careless PROVE \A u \in Tids : table'[u] # Null
      OBVIOUS
    <3>1. table[t] \in Items /\ \A u \in Tids : table[u] # Null
      BY <1>0, <2>1 DEF TableInv, TableTypeOK
    <3> QED BY <2>1, <1>0, <3>1, KillKeeps
  <2>4. ItemAtUse'
    <3> SUFFICES ASSUME cur' # NoItem, ~ killedOwn' PROVE cur' \in items'
      BY DEF ItemAtUse
    <3>1. cur # NoItem /\ ~ killedOwn /\ table[t] # cur
      BY <2>1, Zenon
    <3> QED BY <3>1, <2>1, <2>2, <1>0 DEF ItemAtUse
  <2>5. killedOwn' \in BOOLEAN
    BY <2>1, Zenon
  <2> QED BY <1>0, <2>1, <2>2, <2>3, <2>4, <2>5, TimerInvPartsNext
<1>3. ASSUME NEW i \in Items, Fire(i) PROVE TimerInv'
  <2>1. UNCHANGED tableVars /\ UNCHANGED starts /\ cur' = i /\ killedOwn' = FALSE /\ i \in pending
    BY <1>3 DEF Fire
  <2>2. TableInv' /\ NoNullEntry'
    BY <2>1, <1>0, TableUnchanged DEF tableVars
  <2>3. ItemAtUse'
    BY <2>1, <1>0 DEF ItemAtUse, TableInv, TableExact, tableVars
  <2> QED BY <1>0, <2>1, <2>2, <2>3, TimerInvPartsNext
<1>4. ASSUME GoOn PROVE TimerInv'
  <2>1. UNCHANGED tableVars /\ UNCHANGED starts /\ cur' = NoItem /\ killedOwn' = FALSE
    BY <1>4 DEF GoOn
  <2>2. TableInv' /\ NoNullEntry' /\ ItemAtUse'
    BY <2>1, <1>0, TableUnchanged DEF tableVars, ItemAtUse
  <2> QED BY <1>0, <2>1, <2>2, TimerInvPartsNext
<1>5. ASSUME Stop PROVE TimerInv'
  <2>1. /\ cur \in items /\ kill(tidOf[cur]) /\ cur' = NoItem
        /\ killedOwn' = FALSE /\ UNCHANGED starts
    BY <1>5 DEF Stop
  <2>2. tidOf[cur] \in Tids /\ table[tidOf[cur]] = cur /\ cur \in Items
    BY <2>1, <1>0 DEF TableInv, TableTypeOK, TableExact
  <2>3. TableInv'
    BY <2>1, <2>2, <1>0, KillKeeps
  <2>4. NoNullEntry'
    BY <2>1, <2>2, <1>0, KillKeeps
  <2>5. ItemAtUse'
    BY <2>1 DEF ItemAtUse
  <2> QED BY <1>0, <2>1, <2>3, <2>4, <2>5, TimerInvPartsNext
<1>6. ASSUME Destroy PROVE TimerInv'
  <2>1. destroy /\ cur = NoItem /\ UNCHANGED <<cur, killedOwn, starts>>
    BY <1>6 DEF Destroy
  <2>2. TableInv' /\ NoNullEntry'
    BY <2>1, <1>0, DestroyKeeps
  <2>3. ItemAtUse'
    BY <2>1 DEF ItemAtUse
  <2> QED BY <1>0, <2>1, <2>2, <2>3, TimerInvPartsNext
<1>7. ASSUME UNCHANGED timerVars PROVE TimerInv'
  <2>1. UNCHANGED tableVars /\ UNCHANGED <<cur, killedOwn, starts>>
    BY <1>7 DEF timerVars, tableVars
  <2>2. TableInv' /\ NoNullEntry'
    BY <2>1, <1>0, TableUnchanged DEF tableVars
  <2>3. ItemAtUse'
    BY <2>1, <1>0 DEF ItemAtUse, tableVars
  <2> QED BY <1>0, <2>1, <2>2, <2>3, TimerInvPartsNext
<1> QED BY <1>1, <1>2, <1>3, <1>4, <1>5, <1>6, <1>7 DEF TimerNext

\* The invariant holds throughout.
THEOREM TimerInvariant == TimerSpec => []TimerInv
BY TimerInitInv, TimerNextInv, PTL DEF TimerSpec

\* Table, items and events agree at all times, also with callbacks that kill
\* ids nobody started.
THEOREM TimerTableExact == TimerSpec => []TableExact
<1>1. TimerInv => TableExact
  BY DEF TimerInv
<1> QED BY <1>1, TimerInvariant, PTL

\* What _timer_cb reads to kill its timer was not freed by the callback, unless
\* it has killed its own timer.
THEOREM TimerItemAtUse == TimerSpec => []ItemAtUse
<1>1. TimerInv => ItemAtUse
  BY DEF TimerInv
<1> QED BY <1>1, TimerInvariant, PTL

\* kill and destroy meet no null entry if only timers that were started are
\* killed.
THEOREM TimerNoNullEntry == TimerSpec => []NoNullEntry
<1>1. TimerInv => NoNullEntry
  BY DEF TimerInv
<1> QED BY <1>1, TimerInvariant, PTL

\* The types of the timers' state.
THEOREM TimerTyped == TimerSpec => []TimerTypeOK
<1>1. TimerInv => TimerTypeOK
  BY DEF TimerInv
<1> QED BY <1>1, TimerInvariant, PTL

-----------------------------------------------------------------------------
(* CenterServer: the list of sessions.                                      *)

\* Nothing is twice in the list.
NoRepeats == \A i, j \in 1 .. Len(live) : live[i] = live[j] => i = j

\* What is said of the sessions: the types and the list.
SessionInv == CenterTypeOK /\ Contents(live) = Allocated /\ NoRepeats

\* The inductive invariant is ListExact itself; these are its parts.
LEMMA ListExactParts == ListExact <=> SessionInv /\ ServerRunTypeOK
BY Zenon DEF ListExact, SessionInv, NoRepeats

\* The same after a step.
LEMMA ListExactPartsNext == ListExact' <=> SessionInv' /\ ServerRunTypeOK'
BY Zenon DEF ListExact, SessionInv, NoRepeats

-----------------------------------------------------------------------------
(* The timers and the run loop.                                             *)

\* The timers' types after start.
LEMMA StartTyped ==
  ASSUME NEW t \in Tids, TimerTypeOK, start(t)
  PROVE  /\ table' \in [Tids -> Items \cup {NoEntry, Null}] /\ tidOf' \in [Items -> Tids]
         /\ items' \subseteq Items /\ pending' \subseteq Items /\ func' \in Tids \cup {NoEntry}
<1>1. CASE table[t] \in {NoEntry, Null}
  BY <1>1 DEF start, TimerTypeOK
<1>2. CASE table[t] \notin {NoEntry, Null}
  BY <1>2 DEF start, TimerTypeOK
<1> QED BY <1>1, <1>2

\* The timers' types after kill.
LEMMA KillTyped ==
  ASSUME NEW t \in Tids, TimerTypeOK, kill(t)
  PROVE  /\ table' \in [Tids -> Items \cup {NoEntry, Null}] /\ tidOf' \in [Items -> Tids]
         /\ items' \subseteq Items /\ pending' \subseteq Items /\ func' \in Tids \cup {NoEntry}
BY DEF kill, TimerTypeOK

\* The types of what the run loop keeps beside its timers.
LoopTypeOK ==
  /\ run \in {"none", "listen", "arm", "loop", "listener", "timer", "base", "done"}
  /\ {base, listener, trouble, exiting} \subseteq BOOLEAN
  /\ backlog \subseteq Peers /\ accepted \subseteq Peers /\ gone \subseteq Peers
  /\ announced \in Nat

\* Each step of the server's thread, the announcement and the peers keeps the
\* types.
LEMMA ServerKeepsTypes ==
  ASSUME ServerRunTypeOK, Server
  PROVE  ServerRunTypeOK'
<1> USE DEF ServerRunTypeOK
<1>1. CASE createAndRun \/ listen \/ LoopEnds \/ destroyListener
  <2>1. TimerTypeOK'
    BY <1>1 DEF createAndRun, listen, LoopEnds, destroyListener, timerVars, TimerTypeOK
  <2>2. LoopTypeOK'
    BY <1>1 DEF createAndRun, listen, LoopEnds, destroyListener, LoopTypeOK, peerVars
  <2> QED BY <2>1, <2>2 DEF LoopTypeOK
<1>2. CASE arm
  <2>1. PICK t \in Tids : Start(t)
    BY <1>2 DEF arm
  <2>2. start(t) /\ starts' = starts + 1 /\ starts < MaxStarts /\ UNCHANGED <<cur, killedOwn>>
    BY <2>1 DEF Start
  <2>3. starts' \in 0 .. MaxStarts
    BY <2>2, StartAssumption DEF TimerTypeOK
  <2>4. TimerTypeOK'
    BY <2>2, <2>3, StartTyped DEF TimerTypeOK
  <2>5. LoopTypeOK'
    BY <1>2 DEF arm, LoopTypeOK, peerVars
  <2> QED BY <2>4, <2>5 DEF LoopTypeOK
<1>3. CASE destroyTimer
  <2>1. TimerTypeOK'
    BY <1>3 DEF destroyTimer, destroy, TimerTypeOK
  <2>2. LoopTypeOK'
    BY <1>3 DEF destroyTimer, LoopTypeOK, peerVars
  <2> QED BY <2>1, <2>2 DEF LoopTypeOK
<1>4. CASE destroyBase
  <2>1. TimerTypeOK'
    BY <1>4 DEF destroyBase, TimerTypeOK
  <2>2. LoopTypeOK'
    BY <1>4 DEF destroyBase, LoopTypeOK, peerVars
  <2> QED BY <2>1, <2>2 DEF LoopTypeOK
<1>5. CASE AnnounceDue
  <2>1. PICK i \in Items : Fire(i)
    BY <1>5 DEF AnnounceDue
  <2>2. TimerTypeOK'
    BY <2>1 DEF Fire, tableVars, TimerTypeOK
  <2>3. LoopTypeOK'
    BY <1>5 DEF AnnounceDue, LoopTypeOK, peerVars, runVars
  <2> QED BY <2>2, <2>3 DEF LoopTypeOK
<1>6. CASE Announce
  <2>1. Stop /\ announced' = announced + 1 /\ UNCHANGED <<peerVars, run, base, listener, trouble, exiting>>
    BY <1>6 DEF Announce
  <2>2. kill(tidOf[cur]) /\ tidOf[cur] \in Tids /\ cur' = NoItem /\ killedOwn' = FALSE /\ UNCHANGED starts
    BY <2>1 DEF Stop, TimerTypeOK
  <2>3. TimerTypeOK'
    BY <2>2, KillTyped DEF TimerTypeOK
  <2>4. LoopTypeOK'
    BY <2>1 DEF LoopTypeOK, peerVars
  <2> QED BY <2>3, <2>4 DEF LoopTypeOK
<1>7. CASE listener_error_cb
  <2>1. TimerTypeOK'
    BY <1>7 DEF listener_error_cb, timerVars, TimerTypeOK
  <2>2. LoopTypeOK'
    BY <1>7 DEF listener_error_cb, LoopTypeOK, peerVars
  <2> QED BY <2>1, <2>2 DEF LoopTypeOK
<1>8. ASSUME NEW c \in Peers, Connect(c) PROVE ServerRunTypeOK'
  <2>1. TimerTypeOK'
    BY <1>8 DEF Connect, timerVars, TimerTypeOK
  <2>2. LoopTypeOK'
    BY <1>8 DEF Connect, LoopTypeOK, runVars
  <2> QED BY <2>1, <2>2 DEF LoopTypeOK
<1> QED BY <1>1, <1>2, <1>3, <1>4, <1>5, <1>6, <1>7, <1>8 DEF Server, Thread

\* So does accepting a peer.
LEMMA AcceptKeepsTypes ==
  ASSUME ServerRunTypeOK, NEW c \in Peers, listener_cb(c)
  PROVE  ServerRunTypeOK'
<1>1. TimerTypeOK'
  BY DEF listener_cb, timerVars, TimerTypeOK, ServerRunTypeOK
<1>2. LoopTypeOK'
  BY DEF listener_cb, LoopTypeOK, runVars, ServerRunTypeOK
<1> QED BY <1>1, <1>2 DEF LoopTypeOK, ServerRunTypeOK

\* And so does what leaves the server's variables alone.
LEMMA RestKeepsTypes ==
  ASSUME ServerRunTypeOK, UNCHANGED serverVars
  PROVE  ServerRunTypeOK'
<1>1. TimerTypeOK'
  BY DEF serverVars, timerVars, TimerTypeOK, ServerRunTypeOK
<1>2. LoopTypeOK'
  BY DEF serverVars, peerVars, runVars, LoopTypeOK, ServerRunTypeOK
<1> QED BY <1>1, <1>2 DEF LoopTypeOK, ServerRunTypeOK

-----------------------------------------------------------------------------
(* The sessions and their list.                                             *)

\* A peer gets a session at an address where there was none: the address was
\* not in the list, and now is, once.
LEMMA AcceptKeepsList ==
  ASSUME SessionInv, NEW c \in Peers, NEW a \in Addresses, onListener(c, a)
  PROVE  SessionInv'
<1> USE DEF SessionInv
<1>1. /\ holder[a] = NoPeer /\ holder' = [holder EXCEPT ![a] = c]
      /\ connected' = [connected EXCEPT ![a] = TRUE]
      /\ arg' = [arg EXCEPT ![c] = a] /\ open' = open \cup {c}
      /\ add(a) /\ UNCHANGED <<most, reports, owed, rest, garbled>>
  BY DEF onListener, beatVars
<1>2. a \notin Contents(live) /\ live \in Seq(Addresses)
  BY <1>1 DEF Allocated, CenterTypeOK
<1>3. live' = Append(live, a)
  BY <1>1, <1>2 DEF add
<1>4. /\ live' \in Seq(Addresses)
      /\ Len(live') = Len(live) + 1 /\ Len(live) \in Nat
      /\ \A i \in 1 .. Len(live) : live'[i] = live[i]
      /\ live'[Len(live) + 1] = a
      /\ Contents(live') = Contents(live) \cup {a}
  BY <1>2, <1>3, AppendContents
<1>5. CenterTypeOK'
  BY <1>1, <1>4 DEF CenterTypeOK
<1>6. Contents(live)' = Allocated'
  <2>1. Allocated' = Allocated \cup {a}
    BY <1>1, AddressAssumption DEF Allocated, CenterTypeOK
  <2>2. Contents(live)' = Contents(live')
    BY DEF Contents
  <2> QED BY <1>4, <2>1, <2>2
<1>7. NoRepeats'
  <2>1. \A i \in 1 .. Len(live) : live[i] # a
    BY <1>2 DEF Contents
  <2>2. \A i \in 1 .. Len(live') : i \in 1 .. Len(live) \/ i = Len(live) + 1
    BY <1>4
  <2> QED BY <1>4, <2>1, <2>2 DEF NoRepeats
<1> QED BY <1>5, <1>6, <1>7

\* A report takes whatever session is at its address off the list and deletes
\* it, both or neither.
LEMMA EndKeepsList ==
  ASSUME SessionInv, NEW c \in Peers, onSocketEnd(c)
  PROVE  SessionInv'
<1> USE DEF SessionInv
<1> DEFINE a == arg[c]
<1>1. /\ a # NoAddress /\ holder[a] # NoPeer
      /\ reports[c] < most /\ reports' = [reports EXCEPT ![c] = @ + 1]
      /\ remove(a)
      /\ connected' = [connected EXCEPT ![a] = FALSE]
      /\ UNCHANGED <<arg, open, most, owed, rest, garbled>>
  BY DEF onSocketEnd, beatVars
<1>2. a \in Addresses /\ a \in Contents(live) /\ live \in Seq(Addresses)
  BY <1>1 DEF CenterTypeOK, Allocated
<1>3. PICK i \in 1 .. Len(live) : live[i] = a /\ live' = erase(live, i)
  BY <1>1, <1>2 DEF remove
<1>4. holder' = [holder EXCEPT ![a] = NoPeer]
  BY <1>1, <1>2 DEF remove
<1> HIDE DEF a
<1>5. live' \in Seq(Addresses)
  BY <1>2, <1>3, EraseProperties
<1>6. /\ Contents(live') = Contents(live) \ {a}
      /\ \A j, k \in 1 .. Len(live') : live'[j] = live'[k] => j = k
  BY <1>2, <1>3, EraseContents DEF NoRepeats
<1>7. reports' \in [Peers -> 0 .. most]
  BY <1>1 DEF CenterTypeOK
<1>8. CenterTypeOK'
  BY <1>1, <1>4, <1>5, <1>7 DEF CenterTypeOK
<1>9. Contents(live)' = Allocated'
  <2>1. Allocated' = Allocated \ {a}
    BY <1>2, <1>4 DEF Allocated, CenterTypeOK
  <2>2. Contents(live)' = Contents(live')
    BY DEF Contents
  <2> QED BY <1>6, <2>1, <2>2
<1> QED BY <1>6, <1>8, <1>9 DEF NoRepeats

\* The types of what is kept of the heartbeats.
BeatTypeOK ==
  /\ owed \in [Peers -> BOOLEAN]
  /\ rest \in Peers \cup {NoPeer} /\ garbled \in BOOLEAN

\* No other step changes the list or a session.
LEMMA OthersKeepList ==
  ASSUME SessionInv,
         \/ UNCHANGED centerVars
         \/ \E c \in Peers : onRead(c) \/ PeerBeats(c) \/ Hangup(c)
  PROVE  SessionInv'
<1>1. /\ UNCHANGED <<live, holder, connected, arg, most, reports>>
      /\ open' \subseteq open /\ BeatTypeOK'
  <2>0. BeatTypeOK
    BY DEF SessionInv, CenterTypeOK, BeatTypeOK
  <2>1. CASE UNCHANGED centerVars
    BY <2>0, <2>1 DEF centerVars, beatVars, BeatTypeOK
  <2>2. ASSUME NEW c \in Peers, onRead(c)
        PROVE  /\ UNCHANGED <<live, holder, connected, arg, most, reports>>
               /\ open' \subseteq open /\ BeatTypeOK'
    <3>1. connected[arg[c]] \in BOOLEAN
      BY <2>2 DEF onRead, ReadPacket, ReadPart, ReadMixed, MayRead, SessionInv, CenterTypeOK
    <3>2. sendHeartbeat(c) => owed' \in [Peers -> BOOLEAN]
      BY <2>0, <3>1 DEF sendHeartbeat, BeatTypeOK
    <3> QED BY <2>0, <2>2, <3>2 DEF onRead, ReadPacket, ReadPart, ReadMixed, BeatTypeOK
  <2>3. ASSUME NEW c \in Peers, PeerBeats(c) \/ Hangup(c)
        PROVE  /\ UNCHANGED <<live, holder, connected, arg, most, reports>>
               /\ open' \subseteq open /\ BeatTypeOK'
    BY <2>0, <2>3 DEF PeerBeats, Hangup, beatVars, BeatTypeOK
  <2> QED BY <2>1, <2>2, <2>3
<1>2. CenterTypeOK'
  BY <1>1 DEF CenterTypeOK, SessionInv, BeatTypeOK
<1>3. Contents(live)' = Allocated' /\ NoRepeats'
  BY <1>1 DEF SessionInv, Contents, Allocated, NoRepeats
<1> QED BY <1>2, <1>3 DEF SessionInv

-----------------------------------------------------------------------------
\* At first there are no sessions.
LEMMA CenterInitList == CenterInit => ListExact
<1> SUFFICES ASSUME CenterInit PROVE ListExact
  OBVIOUS
<1>1. TimerTypeOK
  <2>1. TimerInit
    BY DEF CenterInit, ServerInit
  <2>2. MaxStarts \in Nat
    BY StartAssumption
  <2>3. starts \in 0 .. MaxStarts
    BY <2>1, <2>2 DEF TimerInit
  <2>4. table \in [Tids -> Items \cup {NoEntry, Null}]
    BY <2>1 DEF TimerInit
  <2> QED BY <2>1, <2>3, <2>4 DEF TimerInit, TimerTypeOK
<1>2. LoopTypeOK
  BY DEF CenterInit, ServerInit, LoopTypeOK
<1>3. CenterTypeOK
  <2>1. BeatTypeOK
    BY DEF CenterInit, BeatTypeOK
  <2>2. live \in Seq(Addresses) /\ most \in {1, 2} /\ reports \in [Peers -> 0 .. most]
    BY DEF CenterInit
  <2> QED BY <2>1, <2>2 DEF CenterInit, CenterTypeOK, BeatTypeOK
<1>4. Contents(live) = {} /\ Allocated = {} /\ NoRepeats
  BY EmptyContents DEF CenterInit, Allocated, NoRepeats
<1> QED BY <1>1, <1>2, <1>3, <1>4, ListExactParts DEF SessionInv, ServerRunTypeOK, LoopTypeOK

\* Every step keeps the list exact.
LEMMA CenterNextList == ListExact /\ [CenterNext]_allVars => ListExact'
<1> SUFFICES ASSUME ListExact, [CenterNext]_allVars PROVE ListExact'
  OBVIOUS
<1>0. SessionInv /\ ServerRunTypeOK
  BY ListExactParts
<1>1. CASE UNCHANGED allVars
  <2>1. UNCHANGED serverVars /\ UNCHANGED centerVars
    BY <1>1 DEF allVars
  <2> QED BY <1>0, <2>1, RestKeepsTypes, OthersKeepList, ListExactPartsNext
<1>2. CASE Server /\ UNCHANGED centerVars
  BY <1>0, <1>2, ServerKeepsTypes, OthersKeepList, ListExactPartsNext
<1>3. ASSUME NEW c \in Peers, Accept(c) PROVE ListExact'
  <2>1. listener_cb(c) /\ \E a \in Addresses : onListener(c, a)
    BY <1>3 DEF Accept
  <2> QED BY <1>0, <2>1, AcceptKeepsTypes, AcceptKeepsList, ListExactPartsNext
<1>4. ASSUME NEW c \in Peers, onSocketEnd(c) PROVE ListExact'
  <2>1. UNCHANGED serverVars
    BY <1>4 DEF onSocketEnd
  <2> QED BY <1>0, <1>4, <2>1, RestKeepsTypes, EndKeepsList, ListExactPartsNext
<1>5. ASSUME NEW c \in Peers, onRead(c) \/ PeerBeats(c) \/ Hangup(c) PROVE ListExact'
  <2>1. UNCHANGED serverVars
    BY <1>5 DEF onRead, ReadPacket, ReadPart, ReadMixed, PeerBeats, Hangup
  <2> QED BY <1>0, <1>5, <2>1, RestKeepsTypes, OthersKeepList, ListExactPartsNext
<1> QED BY <1>1, <1>2, <1>3, <1>4, <1>5 DEF CenterNext

\* The center server's list is exactly the sessions that exist, however many
\* peers come, go and get addresses that were used before, and however the ends
\* of their connections are reported.
THEOREM CenterListExact == CenterSpec => []ListExact
BY CenterInitList, CenterNextList, PTL DEF CenterSpec

-----------------------------------------------------------------------------
(* SocketServer's run loop, as CenterServer runs it.                        *)

\* The announcement was made at most once, and its timer is gone then.
AnnouncedAtMostOnce == announced <= 1 /\ (announced = 1 => items = {})

\* When a server has stopped, its base, its listener and its timers are gone.
StoppedClean == run = "done" => ~ base /\ ~ listener /\ items = {} /\ pending = {}

\* What the thread reads when it takes down its listener and its timers, and
\* when the announcement's callback is through, is there: no step ends the
\* process.
TeardownSafe ==
  /\ cur # NoItem => cur \in items /\ ~ killedOwn
  /\ run \in {"listener", "timer", "base"} => base
  /\ \A t \in Tids : table[t] # Null

\* The table is exact and there is at most one timer, that of the announcement,
\* started on the way into the loop and not yet due or in its callback.
AnnounceInv ==
  /\ TableInv /\ (\A t \in Tids : table[t] # Null)
  /\ \A i, j \in items : i = j
  /\ run \in {"none", "listen", "arm"} => items = {} /\ announced = 0
  /\ announced \in {0, 1} /\ (announced = 1 => items = {})
  /\ killedOwn = FALSE
  /\ cur # NoItem => run = "loop" /\ cur \in items

\* The base and the listener are there from their creation to their end, and the
\* timers are gone before the base is.
TeardownInv ==
  /\ run \in {"none", "listen", "arm", "loop", "listener", "timer", "base", "done"}
  /\ base <=> run \notin {"none", "done"}
  /\ listener <=> run \in {"arm", "loop", "listener"}
  /\ run \in {"base", "done"} => items = {}

RunInv == AnnounceInv /\ TeardownInv

\* A step that leaves the timers and the run loop's state alone.
LEMMA RunKept ==
  ASSUME RunInv, UNCHANGED <<timerVars, run, base, listener, announced>>
  PROVE  RunInv'
<1>1. TableInv'
  BY TableUnchanged DEF RunInv, AnnounceInv, timerVars, tableVars
<1>2. AnnounceInv'
  BY <1>1 DEF RunInv, AnnounceInv, timerVars
<1> QED BY <1>2 DEF RunInv, TeardownInv, timerVars

\* The thread's steps before and after the loop that leave the timers alone.
LEMMA ThreadQuietStep ==
  ASSUME RunInv, createAndRun \/ listen \/ LoopEnds \/ destroyListener
  PROVE  RunInv'
<1> USE DEF RunInv
<1>1. UNCHANGED timerVars /\ announced' = announced
  BY DEF createAndRun, listen, LoopEnds, destroyListener
<1>2. TableInv'
  BY <1>1, TableUnchanged DEF AnnounceInv, timerVars, tableVars
<1>3. /\ run' \in {"none", "listen", "arm"} => run \in {"none", "listen", "arm"}
      /\ cur # NoItem => run' = "loop"
      /\ run' \notin {"base", "done"}
  BY DEF createAndRun, listen, LoopEnds, destroyListener, InLoop, AnnounceInv
<1>4. AnnounceInv'
  BY <1>1, <1>2, <1>3 DEF AnnounceInv, timerVars
<1>5. TeardownInv'
  BY <1>3 DEF createAndRun, listen, LoopEnds, destroyListener, InLoop, TeardownInv
<1> QED BY <1>4, <1>5

\* The only timer is started.
LEMMA ArmStep ==
  ASSUME RunInv, arm
  PROVE  RunInv'
<1> USE DEF RunInv
<1>1. PICK t \in Tids : Start(t)
  BY DEF arm
<1>2. start(t) /\ cur' = cur /\ killedOwn' = killedOwn
  BY <1>1 DEF Start
<1>3. /\ run = "arm" /\ run' = "loop" /\ UNCHANGED <<base, listener, announced>>
  BY DEF arm
<1>4. items = {} /\ announced = 0 /\ cur = NoItem
  BY <1>3 DEF AnnounceInv
<1>5. TableInv' /\ (\A u \in Tids : table'[u] # Null)
  BY <1>2, StartKeeps DEF AnnounceInv
<1>6. \A i, j \in items' : i = j
  BY <1>2, <1>4 DEF start
<1>7. AnnounceInv'
  BY <1>2, <1>3, <1>4, <1>5, <1>6 DEF AnnounceInv
<1>8. TeardownInv'
  BY <1>3 DEF TeardownInv
<1> QED BY <1>7, <1>8

\* The timers are destroyed, then the base.
LEMMA DestroyStep ==
  ASSUME RunInv, destroyTimer \/ destroyBase
  PROVE  RunInv'
<1> USE DEF RunInv
<1>1. CASE destroyTimer
  <2>1. /\ run = "timer" /\ run' = "base" /\ destroy
        /\ UNCHANGED <<cur, killedOwn, base, listener, announced>>
    BY <1>1 DEF destroyTimer
  <2>2. TableInv' /\ items' = {} /\ (\A u \in Tids : table'[u] # Null)
    BY <2>1, DestroyKeeps DEF AnnounceInv
  <2>3. AnnounceInv'
    BY <2>1, <2>2 DEF AnnounceInv
  <2>4. TeardownInv'
    BY <2>1, <2>2 DEF TeardownInv
  <2> QED BY <2>3, <2>4
<1>2. CASE destroyBase
  <2>1. /\ run = "base" /\ run' = "done" /\ base' = FALSE /\ pending' = {}
        /\ UNCHANGED <<table, items, tidOf, func, cur, killedOwn, listener, announced>>
    BY <1>2 DEF destroyBase
  <2>2. items = {} /\ pending = {}
    BY <2>1 DEF TeardownInv, AnnounceInv, TableInv, TableExact
  <2>3. TableInv'
    BY <2>1, <2>2, TableUnchanged DEF tableVars, AnnounceInv
  <2>4. AnnounceInv'
    BY <2>1, <2>3 DEF AnnounceInv
  <2>5. TeardownInv'
    BY <2>1, <2>2 DEF TeardownInv
  <2> QED BY <2>4, <2>5
<1> QED BY <1>1, <1>2

\* The announcement is due, and made: its timer is killed with it.
LEMMA AnnounceStep ==
  ASSUME RunInv, AnnounceDue \/ Announce
  PROVE  RunInv'
<1> USE DEF RunInv
<1>1. CASE AnnounceDue
  <2>1. PICK i \in Items : Fire(i)
    BY <1>1 DEF AnnounceDue
  <2>2. /\ run = "loop" /\ cur' = i /\ i \in pending /\ killedOwn' = FALSE
        /\ UNCHANGED tableVars /\ UNCHANGED <<run, base, listener, announced>>
    BY <1>1, <2>1 DEF AnnounceDue, InLoop, Fire, runVars
  <2>3. TableInv' /\ i \in items
    BY <2>2, TableUnchanged DEF AnnounceInv, TableInv, TableExact
  <2>4. AnnounceInv'
    BY <2>2, <2>3 DEF AnnounceInv, tableVars
  <2>5. TeardownInv'
    BY <2>2 DEF TeardownInv, tableVars
  <2> QED BY <2>4, <2>5
<1>2. CASE Announce
  <2>1. /\ cur # NoItem /\ cur \in items /\ kill(tidOf[cur]) /\ cur' = NoItem
        /\ killedOwn' = FALSE
    BY <1>2 DEF Announce, Stop
  <2>2. announced' = announced + 1 /\ UNCHANGED <<run, base, listener>>
    BY <1>2 DEF Announce
  <2>3. tidOf[cur] \in Tids /\ table[tidOf[cur]] = cur /\ cur \in Items
    BY <2>1 DEF AnnounceInv, TableInv, TableTypeOK, TableExact
  <2>4. TableInv' /\ (\A u \in Tids : table'[u] # Null)
    BY <2>1, <2>3, KillKeeps DEF AnnounceInv
  <2>5. items' = items \ {cur}
    BY <2>1, <2>3, ItemAssumption DEF kill
  <2>6. items' = {}
    BY <2>1, <2>5 DEF AnnounceInv
  <2>7. announced = 0 /\ run = "loop"
    BY <2>1 DEF AnnounceInv
  <2>8. AnnounceInv'
    BY <2>1, <2>2, <2>4, <2>6, <2>7 DEF AnnounceInv
  <2>9. TeardownInv'
    BY <2>2, <2>7 DEF TeardownInv
  <2> QED BY <2>8, <2>9
<1> QED BY <1>1, <1>2

\* The server starts in the invariant, and every step of the center server
\* keeps it.
LEMMA RunInit == CenterInit => RunInv
<1> SUFFICES ASSUME CenterInit PROVE RunInv
  OBVIOUS
<1>1. TimerInit /\ run = "none" /\ base = FALSE /\ listener = FALSE /\ announced = 0
  BY Zenon DEF CenterInit, ServerInit
<1>2. TableInv /\ items = {} /\ cur = NoItem /\ killedOwn = FALSE
  BY <1>1, ItemAssumption DEF TimerInit, TableInv, TableTypeOK, TableExact
<1>3. \A t \in Tids : table[t] # Null
  BY <1>1, ItemAssumption DEF TimerInit
<1> QED BY <1>1, <1>2, <1>3 DEF RunInv, AnnounceInv, TeardownInv

\* Every step keeps what is said of a run and its end.
LEMMA RunNext == RunInv /\ [CenterNext]_allVars => RunInv'
<1> SUFFICES ASSUME RunInv, [CenterNext]_allVars PROVE RunInv'
  OBVIOUS
<1>1. CASE Thread
  BY <1>1, ThreadQuietStep, ArmStep, DestroyStep DEF Thread
<1>2. CASE AnnounceDue \/ Announce
  BY <1>2, AnnounceStep
<1>3. CASE listener_error_cb \/ \E c \in Peers : Connect(c)
  BY <1>3, RunKept DEF listener_error_cb, Connect, runVars
<1>4. ASSUME NEW c \in Peers, Accept(c) PROVE RunInv'
  BY <1>4, RunKept DEF Accept, listener_cb, runVars
<1>5. ASSUME NEW c \in Peers, onSocketEnd(c) \/ onRead(c) \/ PeerBeats(c) \/ Hangup(c)
      PROVE  RunInv'
  BY <1>5, RunKept DEF onSocketEnd, onRead, ReadPacket, ReadPart, ReadMixed, PeerBeats, Hangup, serverVars, runVars
<1>6. CASE UNCHANGED allVars
  BY <1>6, RunKept DEF allVars, serverVars, runVars
<1> QED BY <1>1, <1>2, <1>3, <1>4, <1>5, <1>6 DEF CenterNext, Server

\* The safety half of AnnouncedOnce: a server never announces itself twice, and
\* when it has, the timer is gone.
THEOREM CenterAnnounces == CenterSpec => []AnnouncedAtMostOnce
<1>1. RunInv => AnnouncedAtMostOnce
  BY DEF RunInv, AnnounceInv, AnnouncedAtMostOnce
<1> QED BY <1>1, RunInit, RunNext, PTL DEF CenterSpec

\* The safety half of ShutsDown: whichever way the server came to stop, its
\* base, its listener and its timers with their events are gone.
THEOREM CenterStopsClean == CenterSpec => []StoppedClean
<1>1. RunInv => StoppedClean
  BY DEF RunInv, AnnounceInv, TeardownInv, StoppedClean, TableInv, TableExact
<1> QED BY <1>1, RunInit, RunNext, PTL DEF CenterSpec

\* The listener and the timers are taken down while their base is there, and
\* the callback of the announcement kills a timer that is still there.
THEOREM CenterTeardown == CenterSpec => []TeardownSafe
<1>1. RunInv => TeardownSafe
  BY DEF RunInv, AnnounceInv, TeardownInv, TeardownSafe
<1> QED BY <1>1, RunInit, RunNext, PTL DEF CenterSpec

\* The base deletes its events when no timer is left, which changes none.
LEMMA BaseLeavesTimers == ASSUME RunInv, destroyBase PROVE UNCHANGED timerVars
<1>1. run = "base" /\ pending' = {} /\ UNCHANGED <<table, items, tidOf, func, cur, killedOwn, starts>>
  BY DEF destroyBase
<1>2. pending = items /\ items = {}
  BY <1>1 DEF RunInv, AnnounceInv, TeardownInv, TableInv, TableExact
<1> QED BY <1>1, <1>2 DEF timerVars

\* The server uses its timers as their own specification allows: every step of
\* the center server is one of the timers' or leaves them alone, the teardown
\* included, so that what holds of the timers holds of them here.
THEOREM CenterUsesTimers == CenterSpec => TimerSpec
<1>1. CenterInit => TimerInit
  BY DEF CenterInit, ServerInit
<1>2. ASSUME RunInv, [CenterNext]_allVars
      PROVE  [TimerNext]_timerVars
  <2>1. CASE arm
    BY <2>1 DEF arm, TimerNext
  <2>2. CASE destroyTimer
    <3>1. cur = NoItem
      BY <1>2, <2>2 DEF destroyTimer, RunInv, AnnounceInv
    <3>2. Destroy
      BY <2>2, <3>1 DEF destroyTimer, Destroy
    <3> QED BY <3>2 DEF TimerNext
  <2>3. CASE destroyBase
    BY <1>2, <2>3, BaseLeavesTimers
  <2>4. CASE createAndRun \/ listen \/ LoopEnds \/ destroyListener
    BY <2>4 DEF createAndRun, listen, LoopEnds, destroyListener
  <2>5. CASE AnnounceDue \/ Announce
    BY <2>5 DEF AnnounceDue, Announce, TimerNext
  <2>6. CASE listener_error_cb \/ \E c \in Peers : Connect(c)
    BY <2>6 DEF listener_error_cb, Connect
  <2>7. ASSUME NEW c \in Peers, Accept(c) PROVE UNCHANGED timerVars
    BY <2>7 DEF Accept, listener_cb
  <2>8. ASSUME NEW c \in Peers, onSocketEnd(c) \/ onRead(c) \/ PeerBeats(c) \/ Hangup(c)
        PROVE  UNCHANGED timerVars
    BY <2>8 DEF onSocketEnd, onRead, ReadPacket, ReadPart, ReadMixed, PeerBeats, Hangup, serverVars
  <2>9. CASE UNCHANGED allVars
    BY <2>9 DEF allVars, serverVars
  <2> QED BY <1>2, <2>1, <2>2, <2>3, <2>4, <2>5, <2>6, <2>7, <2>8, <2>9 DEF CenterNext, Server, Thread
<1> QED BY <1>1, <1>2, RunInit, RunNext, PTL DEF CenterSpec, TimerSpec

-----------------------------------------------------------------------------
(* Who a callback reaches.                                                  *)

\* If libevent reports an end once, the callbacks of a connection reach the
\* session that was made for it until its end was reported, and it is connected
\* while the connection is up: no callback meets a deleted session.
OwnSession ==
  most = 1 => \A c \in Peers :
    /\ arg[c] # NoAddress /\ reports[c] = 0 => holder[arg[c]] = c
    /\ c \in open => arg[c] # NoAddress /\ holder[arg[c]] = c /\ connected[arg[c]]

\* A connection that is up was accepted and no end of it was reported; the
\* session of one that was accepted and not reported is its own and connected.
OwnInv ==
  \A c \in Peers :
    /\ c \in open => arg[c] # NoAddress /\ reports[c] = 0
    /\ reports[c] > 0 => arg[c] # NoAddress
    /\ most = 1 /\ arg[c] # NoAddress /\ reports[c] = 0
         => holder[arg[c]] = c /\ connected[arg[c]]

\* A session is made at an address nobody owns.
LEMMA OwnAccept ==
  ASSUME CenterTypeOK, OwnInv, NEW d \in Peers, NEW a \in Addresses, onListener(d, a)
  PROVE  OwnInv'
<1>1. /\ arg[d] = NoAddress /\ holder[a] = NoPeer
      /\ holder' = [holder EXCEPT ![a] = d] /\ connected' = [connected EXCEPT ![a] = TRUE]
      /\ arg' = [arg EXCEPT ![d] = a] /\ open' = open \cup {d}
      /\ most' = most /\ reports' = reports
  BY DEF onListener
<1> SUFFICES ASSUME NEW c \in Peers
             PROVE  /\ c \in open' => arg'[c] # NoAddress /\ reports'[c] = 0
                    /\ reports'[c] > 0 => arg'[c] # NoAddress
                    /\ most' = 1 /\ arg'[c] # NoAddress /\ reports'[c] = 0
                         => holder'[arg'[c]] = c /\ connected'[arg'[c]]
  BY DEF OwnInv
<1>2. a # NoAddress /\ NoPeer \notin Peers
  BY AddressAssumption
<1>3. reports[d] = 0
  BY <1>1 DEF CenterTypeOK, OwnInv
<1>4. CASE c = d
  BY <1>1, <1>2, <1>3, <1>4 DEF CenterTypeOK
<1>5. CASE c # d
  <2>1. arg'[c] = arg[c] /\ (c \in open' <=> c \in open)
    BY <1>1, <1>5 DEF CenterTypeOK
  <2>2. ASSUME most = 1, arg[c] # NoAddress, reports[c] = 0
        PROVE  holder'[arg[c]] = c /\ connected'[arg[c]]
    <3>1. holder[arg[c]] = c /\ connected[arg[c]] /\ arg[c] \in Addresses
      BY <2>2 DEF OwnInv, CenterTypeOK
    <3>2. arg[c] # a
      BY <1>1, <1>2, <3>1
    <3> QED BY <1>1, <3>1, <3>2 DEF CenterTypeOK
  <2> QED BY <1>1, <2>1, <2>2 DEF OwnInv
<1> QED BY <1>4, <1>5

\* With one report, what it removes is the session of the connection that ended.
LEMMA OwnEnd ==
  ASSUME CenterTypeOK, OwnInv, NEW d \in Peers, onSocketEnd(d)
  PROVE  OwnInv'
<1>1. /\ arg[d] # NoAddress /\ d \notin open /\ reports[d] < most
      /\ reports' = [reports EXCEPT ![d] = reports[d] + 1]
      /\ connected' = [connected EXCEPT ![arg[d]] = FALSE]
      /\ arg' = arg /\ open' = open /\ most' = most
  BY DEF onSocketEnd
<1>2. holder' = [holder EXCEPT ![arg[d]] = NoPeer] \/ holder' = holder
  BY DEF onSocketEnd, remove
<1>3. /\ arg[d] \in Addresses /\ reports[d] \in Nat /\ reports'[d] > 0
      /\ \A c \in Peers : c # d => reports'[c] = reports[c]
  BY <1>1 DEF CenterTypeOK
<1> SUFFICES ASSUME NEW c \in Peers
             PROVE  /\ c \in open' => arg'[c] # NoAddress /\ reports'[c] = 0
                    /\ reports'[c] > 0 => arg'[c] # NoAddress
                    /\ most' = 1 /\ arg'[c] # NoAddress /\ reports'[c] = 0
                         => holder'[arg'[c]] = c /\ connected'[arg'[c]]
  BY DEF OwnInv
<1>4. CASE c = d
  BY <1>1, <1>3, <1>4
<1>5. CASE c # d
  <2>1. ASSUME most = 1, arg[c] # NoAddress, reports[c] = 0
        PROVE  holder'[arg[c]] = c /\ connected'[arg[c]]
    <3>1. holder[arg[c]] = c /\ connected[arg[c]] /\ arg[c] \in Addresses
      BY <2>1 DEF OwnInv, CenterTypeOK
    <3>2. reports[d] = 0
      BY <1>1, <1>3, <2>1
    <3>3. holder[arg[d]] = d
      BY <1>1, <2>1, <3>2 DEF OwnInv
    <3>4. arg[c] # arg[d]
      BY <1>5, <3>1, <3>3
    <3> QED BY <1>1, <1>2, <1>3, <3>1, <3>4 DEF CenterTypeOK
  <2> QED BY <1>1, <1>3, <1>5, <2>1 DEF OwnInv
<1> QED BY <1>4, <1>5

\* Every step keeps it.
LEMMA OwnNext == ListExact /\ OwnInv /\ [CenterNext]_allVars => OwnInv'
<1> SUFFICES ASSUME ListExact, OwnInv, [CenterNext]_allVars PROVE OwnInv'
  OBVIOUS
<1>1. CenterTypeOK
  BY ListExactParts DEF SessionInv
<1>2. ASSUME NEW c \in Peers, Accept(c) PROVE OwnInv'
  BY <1>1, <1>2, OwnAccept DEF Accept
<1>3. ASSUME NEW c \in Peers, onSocketEnd(c) PROVE OwnInv'
  BY <1>1, <1>3, OwnEnd
<1>4. ASSUME NEW c \in Peers, Hangup(c) PROVE OwnInv'
  BY <1>4 DEF Hangup, OwnInv
<1>5. ASSUME UNCHANGED <<holder, connected, arg, open, most, reports>> PROVE OwnInv'
  BY <1>5 DEF OwnInv
<1>6. ASSUME NEW c \in Peers, onRead(c) \/ PeerBeats(c) PROVE OwnInv'
  BY <1>5, <1>6 DEF onRead, ReadPacket, ReadPart, ReadMixed, PeerBeats
<1>7. ASSUME UNCHANGED centerVars PROVE OwnInv'
  BY <1>5, <1>7 DEF centerVars
<1> QED BY <1>2, <1>3, <1>4, <1>6, <1>7 DEF CenterNext, allVars

\* The safety that BeatsAnswered rests on: with one report for each connection,
\* no session is deleted, or reached, by the callback of another connection that
\* had the same address before.
THEOREM CenterOwnSession == CenterSpec => []OwnSession
<1>1. CenterInit => OwnInv
  BY DEF CenterInit, OwnInv
<1>2. OwnInv => OwnSession
  BY DEF OwnInv, OwnSession
<1> QED BY <1>1, <1>2, OwnNext, CenterListExact, PTL DEF CenterSpec
=============================================================================
