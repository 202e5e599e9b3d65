---------------------------- MODULE NanomsgProofs ----------------------------
(* The two programs over nanomsg.  That the two nodes of nanomsg_ipc never  *)
(* block each other in send, for every capacity of the transport, with      *)
(* processes that die and come back; that the queue of nanomsg_pub between  *)
(* the producers and the server loses, repeats and reorders nothing, and    *)
(* that pop's look at it without the mutex is sound, for any number of      *)
(* producers and messages, there being one server.                          *)
EXTENDS PairNodes, MessageQueue, SequenceTheorems, TLAPS

-----------------------------------------------------------------------------
(* The pair.                                                                *)

\* The inductive invariant.
PairInv == PairTypeOK /\ InFlightBounded

\* There are a node and its peer.
LEMMA PeerIsNode ==
  ASSUME NEW n \in Nodes
  PROVE  /\ Peer(n) \in Nodes /\ Peer(n) # n
         /\ {n, Peer(n)} = Nodes
BY DEF Nodes, Peer

\* How many messages there are, seen from either node.
Flight(n) == inbox[n] + inbox[Peer(n)] + InHand(n) + InHand(Peer(n))

\* The bound may be stated from either node ...
LEMMA FlightSame ==
  ASSUME NEW n \in Nodes, PairTypeOK
  PROVE  (InFlightBounded <=> Flight(n) <= Capacity + 2)
<1>1. 0 \in Nodes /\ 1 \in Nodes /\ Peer(0) = 1 /\ Peer(1) = 0 /\ (n = 0 \/ n = 1)
  BY DEF Nodes, Peer
<1>2. inbox[0] \in Nat /\ inbox[1] \in Nat
  BY <1>1, CapacityAssumption DEF PairTypeOK
<1>3. InHand(0) \in Nat /\ InHand(1) \in Nat
  BY DEF InHand
<1>4. InFlightBounded <=> inbox[0] + inbox[1] + InHand(0) + InHand(1) <= Capacity + 2
  BY DEF InFlightBounded
<1>5. CASE n = 0
  <2>1. Flight(n) = inbox[0] + inbox[1] + InHand(0) + InHand(1)
    BY <1>1, <1>5 DEF Flight
  <2> QED BY <1>4, <2>1
<1>6. CASE n = 1
  <2>1. Flight(n) = inbox[1] + inbox[0] + InHand(1) + InHand(0)
    BY <1>1, <1>6 DEF Flight
  <2>2. Flight(n) = inbox[0] + inbox[1] + InHand(0) + InHand(1)
    BY <2>1, <1>2, <1>3
  <2> QED BY <1>4, <2>2
<1> QED BY <1>1, <1>5, <1>6

\* ... and so after a step.
LEMMA FlightSameNext ==
  ASSUME NEW n \in Nodes, PairTypeOK'
  PROVE  (InFlightBounded' <=> Flight(n)' <= Capacity + 2)
<1>1. 0 \in Nodes /\ 1 \in Nodes /\ Peer(0) = 1 /\ Peer(1) = 0 /\ (n = 0 \/ n = 1)
  BY DEF Nodes, Peer
<1>2. inbox'[0] \in Nat /\ inbox'[1] \in Nat
  BY <1>1, CapacityAssumption DEF PairTypeOK
<1>3. InHand(0)' \in Nat /\ InHand(1)' \in Nat
  BY DEF InHand
<1>4. InFlightBounded' <=> inbox'[0] + inbox'[1] + InHand(0)' + InHand(1)' <= Capacity + 2
  BY DEF InFlightBounded
<1>5. CASE n = 0
  <2>1. Flight(n)' = inbox'[0] + inbox'[1] + InHand(0)' + InHand(1)'
    BY <1>1, <1>5 DEF Flight, InHand
  <2> QED BY <1>4, <2>1
<1>6. CASE n = 1
  <2>1. Flight(n)' = inbox'[1] + inbox'[0] + InHand(1)' + InHand(0)'
    BY <1>1, <1>6 DEF Flight, InHand
  <2>2. Flight(n)' = inbox'[0] + inbox'[1] + InHand(0)' + InHand(1)'
    BY <2>1, <1>2, <1>3
  <2> QED BY <1>4, <2>2
<1> QED BY <1>1, <1>5, <1>6

\* A step of a process keeps the bound: it moves a message, or adds one when
\* the way to it is empty.
LEMMA StepKeepsBound ==
  ASSUME NEW n \in Nodes, PairInv, Step(n)
  PROVE  PairInv'
<1> DEFINE m == Peer(n)
<1>0. m \in Nodes /\ m # n /\ PairTypeOK /\ Flight(n) <= Capacity + 2
  BY PeerIsNode, FlightSame DEF PairInv
<1>1. /\ inbox[n] \in 0 .. Capacity /\ inbox[m] \in 0 .. Capacity
      /\ Capacity \in Nat /\ Capacity >= 1
      /\ InHand(n) \in {0, 1} /\ InHand(m) \in {0, 1}
  BY <1>0, CapacityAssumption DEF PairTypeOK, InHand
<1>2. CASE create(n) \/ attach(n) \/ setsockopt(n)
  <2>1. PairTypeOK'
    BY <1>0, <1>2, ReleaseAssumption DEF PairTypeOK, create, attach, setsockopt, Goto
  <2>2. inbox' = inbox /\ InHand(n)' = 0 /\ InHand(m)' = InHand(m)
    BY <1>0, <1>2 DEF PairTypeOK, create, attach, setsockopt, Goto, InHand
  <2>3. Flight(n)' <= Flight(n)
    BY <2>2, <1>0, <1>1 DEF Flight
  <2>4. Flight(n)' \in Nat /\ Flight(n) \in Nat
    BY <2>2, <1>0, <1>1 DEF Flight
  <2> QED BY <1>0, <1>1, <2>1, <2>3, <2>4, FlightSameNext DEF PairInv
<1>3. CASE recv(n)
  <2>1. PairTypeOK'
    BY <1>0, <1>1, <1>3 DEF PairTypeOK, recv, Goto
  <2>2. /\ inbox'[n] = inbox[n] - 1 /\ inbox'[m] = inbox[m]
        /\ InHand(n) = 0 /\ InHand(n)' = 1 /\ InHand(m)' = InHand(m)
    BY <1>0, <1>3 DEF PairTypeOK, recv, Goto, InHand
  <2>3. Flight(n)' = Flight(n)
    BY <2>2, <1>1 DEF Flight
  <2> QED BY <1>0, <2>1, <2>3, FlightSameNext DEF PairInv
<1>4. CASE recvTimesOut(n)
  <2>1. PairTypeOK'
    BY <1>0, <1>4 DEF PairTypeOK, recvTimesOut, Goto
  <2>2. inbox' = inbox /\ inbox[n] = 0 /\ InHand(n)' = 1 /\ InHand(m)' = InHand(m)
    BY <1>0, <1>4 DEF PairTypeOK, recvTimesOut, Goto, InHand
  <2>3. Flight(n)' <= Capacity + 2
    BY <2>2, <1>1 DEF Flight
  <2> QED BY <1>0, <2>1, <2>3, FlightSameNext DEF PairInv
<1>5. CASE send(n)
  <2>1. inbox[m] < Capacity
    BY <1>5 DEF send, CanSend
  <2>2. PairTypeOK'
    BY <1>0, <1>1, <1>5, <2>1 DEF PairTypeOK, send, Goto
  <2>3. /\ inbox'[n] = inbox[n] /\ inbox'[m] = inbox[m] + 1
        /\ InHand(n) = 1 /\ InHand(n)' = 0 /\ InHand(m)' = InHand(m)
    BY <1>0, <1>5 DEF PairTypeOK, send, Goto, InHand
  <2>4. Flight(n)' = Flight(n)
    BY <2>3, <1>1 DEF Flight
  <2> QED BY <1>0, <2>2, <2>4, FlightSameNext DEF PairInv
<1> QED BY <1>2, <1>3, <1>4, <1>5 DEF Step

\* At first nothing is on its way.
LEMMA PairInitInv == PairInit => PairInv
<1> SUFFICES ASSUME PairInit PROVE PairInv
  OBVIOUS
<1>0. 0 \in 0 .. Capacity
  BY CapacityAssumption
<1>1. PairTypeOK
  BY <1>0, Zenon DEF PairInit, PairTypeOK
<1>2. inbox[0] = 0 /\ inbox[1] = 0 /\ InHand(0) = 0 /\ InHand(1) = 0
  BY DEF PairInit, InHand, Nodes
<1>3. InFlightBounded
  BY <1>2, CapacityAssumption DEF InFlightBounded
<1> QED BY <1>1, <1>3 DEF PairInv

\* Every step keeps the bound; a process that dies empties both ways.
LEMMA PairNextInv == PairInv /\ [PairNext]_pairVars => PairInv'
<1> SUFFICES ASSUME PairInv, [PairNext]_pairVars PROVE PairInv'
  OBVIOUS
<1>1. CASE Link
  BY <1>1 DEF Link, PairInv, PairTypeOK, InFlightBounded, InHand
<1>2. ASSUME NEW n \in Nodes, Step(n) PROVE PairInv'
  BY <1>2, StepKeepsBound
<1>3. ASSUME NEW n \in Nodes, Die(n) PROVE PairInv'
  <2>0. 0 \in 0 .. Capacity
    BY CapacityAssumption
  <2>1. PairTypeOK'
    <3>1. /\ at' \in [Nodes -> {"off", "created", "attached", "recv", "send"}]
          /\ attached' \in [Nodes -> BOOLEAN] /\ limited' \in [Nodes -> BOOLEAN]
      BY <1>3 DEF Die, Goto, PairInv, PairTypeOK
    <3>2. linked' \in BOOLEAN /\ inbox' \in [Nodes -> 0 .. Capacity]
      BY <1>3, <2>0, Zenon DEF Die
    <3> QED BY <3>1, <3>2 DEF PairTypeOK
  <2>2. inbox'[0] = 0 /\ inbox'[1] = 0
    BY <1>3 DEF Die, Nodes
  <2>3. InHand(0)' \in {0, 1} /\ InHand(1)' \in {0, 1}
    BY DEF InHand
  <2>4. InFlightBounded'
    BY <2>2, <2>3, CapacityAssumption DEF InFlightBounded
  <2> QED BY <2>1, <2>4 DEF PairInv
<1>4. CASE UNCHANGED pairVars
  BY <1>4 DEF pairVars, PairInv, PairTypeOK, InFlightBounded, InHand
<1> QED BY <1>1, <1>2, <1>3, <1>4 DEF PairNext

\* Every way holds what it can hold, and no more messages are about than the
\* bound, at all times.
THEOREM PairInvariant == PairSpec => []PairInv
BY PairInitInv, PairNextInv, PTL DEF PairSpec

\* The number of messages on their way and in hand is bounded.
THEOREM PairInFlightBounded == PairSpec => []InFlightBounded
<1>1. PairInv => InFlightBounded
  BY DEF PairInv
<1> QED BY <1>1, PairInvariant, PTL

\* The types of the pair's state.
THEOREM PairTyped == PairSpec => []PairTypeOK
<1>1. PairInv => PairTypeOK
  BY DEF PairInv
<1> QED BY <1>1, PairInvariant, PTL

\* Two full ways and two messages in hand are more than the bound allows, so
\* the nodes never both wait in send.
THEOREM PairNotBothBlocked == PairSpec => []NotBothBlocked
<1>1. PairInv => NotBothBlocked
  <2> SUFFICES ASSUME PairInv, Blocked(0), Blocked(1) PROVE FALSE
    BY DEF NotBothBlocked
  <2>1. InHand(0) = 1 /\ InHand(1) = 1
    BY DEF Blocked, InHand
  <2>2. ~ (inbox[1] < Capacity) /\ ~ (inbox[0] < Capacity)
    BY DEF Blocked, CanSend, Peer
  <2>3. inbox[0] \in 0 .. Capacity /\ inbox[1] \in 0 .. Capacity
    BY DEF PairInv, PairTypeOK, Nodes
  <2>4. inbox[0] + inbox[1] + 1 + 1 <= Capacity + 2
    BY <2>1 DEF PairInv, InFlightBounded
  <2> QED BY <2>2, <2>3, <2>4, CapacityAssumption
<1> QED BY <1>1, PairInvariant, PTL

-----------------------------------------------------------------------------
(* The queue.                                                               *)

\* The mutex is held by the producer between storing and counting.
MutexHeld == \A p \in Producers : pc[p] = "counting" <=> mutex = p

\* The channel is there before the producers are, and they before the server.
ChannelFirst ==
  /\ main # "start" => created
  /\ main \in {"start", "created", "producing"} => srv = "none"
  /\ main \in {"start", "created"} => \A p \in Producers : pc[p] = "none"

\* What the server's look at the count tells it stays true until it pops.
CountSeen == srv \in {"test", "count"} => total >= 1

\* The inductive invariant.
QInv == QTypeOK /\ MutexHeld /\ ChannelFirst /\ CountExact /\ CountSeen /\ NoNullPublished

\* The count says that there is a message wherever pop counts on one.
LEMMA QueueThere ==
  ASSUME QTypeOK, CountExact, CountSeen, srv \in {"test", "count", "take"}
  PROVE  queue # << >>
<1>1. Uncounted \in {0, 1} /\ Claimed \in {0, 1} /\ Len(queue) \in Nat /\ total \in Int
  BY DEF Uncounted, Claimed, QTypeOK
<1>2. CASE srv \in {"test", "count"}
  <2>1. Len(queue) >= 1
    BY <1>1, <1>2 DEF CountExact, CountSeen
  <2> QED BY <2>1
<1>3. CASE srv = "take"
  <2>1. Claimed = 1
    BY <1>3 DEF Claimed
  <2>2. Len(queue) >= 1
    BY <1>1, <2>1 DEF CountExact
  <2> QED BY <2>2
<1> QED BY <1>2, <1>3

\* The program starts with nothing there.
LEMMA QInitInv == QInit => QInv
<1> SUFFICES ASSUME QInit PROVE QInv
  OBVIOUS
<1>1. created \in BOOLEAN /\ flag \in BOOLEAN
  BY Zenon DEF QInit
<1>2. QTypeOK
  BY <1>1, PushAssumption DEF QInit, QTypeOK
<1>3. MutexHeld /\ ChannelFirst /\ NoNullPublished /\ CountSeen
  BY NobodyAssumption DEF QInit, MutexHeld, ChannelFirst, NoNullPublished, CountSeen
<1>4. CountExact
  BY DEF QInit, CountExact, Uncounted, Claimed
<1> QED BY <1>2, <1>3, <1>4 DEF QInv

\* main creates the channel and starts the threads.
LEMMA MainStep == QInv /\ Main => QInv'
<1> SUFFICES ASSUME QInv, Main PROVE QInv'
  OBVIOUS
<1>0. /\ QTypeOK /\ MutexHeld /\ ChannelFirst /\ CountExact /\ CountSeen /\ NoNullPublished
      /\ UNCHANGED <<flag, mutex, queue, total, pushes, hand, sent>>
  BY DEF QInv, Main, createChannel, StartProducers, StartServer
<1>1. CASE createChannel
  <2>1. created' \in BOOLEAN /\ created'
    BY <1>1, Zenon DEF createChannel
  <2>2. main = "start" /\ main' = "created" /\ UNCHANGED <<pc, srv>>
    BY <1>1 DEF createChannel
  <2>3. QTypeOK'
    BY <1>0, <2>1, <2>2 DEF QTypeOK
  <2>4. MutexHeld' /\ ChannelFirst' /\ CountSeen' /\ NoNullPublished'
    BY <1>0, <2>1, <2>2 DEF MutexHeld, ChannelFirst, CountSeen, NoNullPublished
  <2>5. CountExact'
    BY <1>0, <2>2 DEF CountExact, Uncounted, Claimed
  <2> QED BY <2>3, <2>4, <2>5 DEF QInv
<1>2. CASE StartProducers
  <2>1. /\ main = "created" /\ main' = "producing" /\ UNCHANGED <<created, srv>>
        /\ pc' = [p \in Producers |-> "waiting"]
    BY <1>2 DEF StartProducers
  <2>2. QTypeOK'
    BY <1>0, <2>1 DEF QTypeOK
  <2>3. \A p \in Producers : mutex # p
    BY <1>0, <2>1 DEF MutexHeld, ChannelFirst
  <2>4. MutexHeld' /\ ChannelFirst' /\ CountSeen' /\ NoNullPublished'
    BY <1>0, <2>1, <2>3 DEF MutexHeld, ChannelFirst, CountSeen, NoNullPublished
  <2>5. CountExact'
    BY <1>0, <2>1 DEF CountExact, Uncounted, Claimed
  <2> QED BY <2>2, <2>4, <2>5 DEF QInv
<1>3. CASE StartServer
  <2>1. /\ main = "producing" /\ main' \in {"serving", "exit"} /\ UNCHANGED <<created, pc>>
        /\ srv' = "create" \/ srv' = srv
    BY <1>3 DEF StartServer
  <2>2. QTypeOK'
    BY <1>0, <2>1 DEF QTypeOK
  <2>3. MutexHeld' /\ ChannelFirst' /\ CountSeen' /\ NoNullPublished'
    BY <1>0, <2>1 DEF MutexHeld, ChannelFirst, CountSeen, NoNullPublished
  <2>4. CountExact'
    <3>1. srv = "none"
      BY <1>0, <2>1 DEF ChannelFirst
    <3>2. Claimed = 0 /\ Claimed' = 0 /\ Uncounted' = Uncounted
      BY <1>0, <2>1, <3>1 DEF Claimed, Uncounted
    <3> QED BY <1>0, <3>2 DEF CountExact
  <2> QED BY <2>2, <2>3, <2>4 DEF QInv
<1> QED BY <1>1, <1>2, <1>3 DEF Main

\* A producer stores and counts.
LEMMA ProducerStep ==
  ASSUME QInv, NEW p \in Producers, Producer(p)
  PROVE  QInv'
<1>0. /\ QTypeOK /\ MutexHeld /\ ChannelFirst /\ CountExact /\ CountSeen /\ NoNullPublished
      /\ UNCHANGED <<main, created, flag, srv, hand, sent>>
  BY DEF QInv, Producer, Connected, PushStore, PushCount
<1>1. pc[p] # "none" => main \notin {"start", "created"}
  BY <1>0 DEF ChannelFirst
<1>2. NoNullPublished' /\ Claimed' = Claimed /\ Claimed \in {0, 1}
  BY <1>0 DEF NoNullPublished, Claimed
<1>3. CASE Connected(p)
  <2>1. /\ pc[p] = "waiting" /\ pc' = [pc EXCEPT ![p] = "running"]
        /\ UNCHANGED <<mutex, queue, total, pushes>>
    BY <1>3 DEF Connected
  <2>2. QTypeOK'
    BY <1>0, <2>1 DEF QTypeOK
  <2>3. MutexHeld'
    BY <1>0, <2>1 DEF MutexHeld, QTypeOK
  <2>4. ChannelFirst' /\ CountSeen'
    BY <1>0, <1>1, <2>1 DEF ChannelFirst, CountSeen
  <2>5. CountExact'
    BY <1>0, <1>2, <2>1 DEF CountExact, Uncounted
  <2> QED BY <1>2, <2>2, <2>3, <2>4, <2>5 DEF QInv
<1>4. CASE PushStore(p)
  <2>1. /\ pc[p] = "running" /\ pushes[p] < MaxPush /\ mutex = Nobody /\ mutex' = p
        /\ pushes' = [pushes EXCEPT ![p] = @ + 1]
        /\ queue' = Append(queue, <<p, pushes[p] + 1>>)
        /\ pc' = [pc EXCEPT ![p] = "counting"] /\ UNCHANGED total
    BY <1>4 DEF PushStore
  <2>2. pushes[p] + 1 \in 1 .. MaxPush /\ pushes[p] + 1 \in 0 .. MaxPush
    BY <1>0, <2>1, PushAssumption DEF QTypeOK
  <2>3. <<p, pushes[p] + 1>> \in Messages
    BY <2>2 DEF Messages
  <2>4. queue' \in Seq(Messages) /\ Len(queue') = Len(queue) + 1 /\ Len(queue) \in Nat
    BY <1>0, <2>1, <2>3 DEF QTypeOK
  <2>5. QTypeOK'
    BY <1>0, <2>1, <2>2, <2>4 DEF QTypeOK
  <2>6. MutexHeld'
    BY <1>0, <2>1, NobodyAssumption DEF MutexHeld, QTypeOK
  <2>7. ChannelFirst' /\ CountSeen'
    BY <1>0, <1>1, <2>1 DEF ChannelFirst, CountSeen
  <2>8. Uncounted = 0 /\ Uncounted' = 1
    BY <2>1, NobodyAssumption DEF Uncounted
  <2>9. CountExact'
    BY <1>0, <1>2, <2>1, <2>4, <2>8 DEF CountExact, QTypeOK
  <2> QED BY <1>2, <2>5, <2>6, <2>7, <2>9 DEF QInv
<1>5. CASE PushCount(p)
  <2>1. /\ pc[p] = "counting" /\ total' = total + 1 /\ mutex' = Nobody
        /\ pc' = [pc EXCEPT ![p] = "running"] /\ UNCHANGED <<queue, pushes>>
    BY <1>5 DEF PushCount
  <2>2. mutex = p /\ mutex # Nobody
    BY <1>0, <2>1, NobodyAssumption DEF MutexHeld
  <2>3. QTypeOK'
    BY <1>0, <2>1 DEF QTypeOK
  <2>4. MutexHeld'
    BY <1>0, <2>1, <2>2, NobodyAssumption DEF MutexHeld, QTypeOK
  <2>5. ChannelFirst'
    BY <1>0, <1>1, <2>1 DEF ChannelFirst
  <2>6. Uncounted = 1 /\ Uncounted' = 0 /\ total \in Int /\ Len(queue) \in Nat
    BY <1>0, <2>1, <2>2 DEF Uncounted, QTypeOK
  <2>7. CountExact'
    BY <1>0, <1>2, <2>1, <2>6 DEF CountExact
  <2>8. CountSeen'
    BY <1>0, <2>1, <2>6 DEF CountSeen
  <2> QED BY <1>2, <2>3, <2>4, <2>5, <2>7, <2>8 DEF QInv
<1> QED BY <1>3, <1>4, <1>5 DEF Producer

\* The server looks, counts down, takes and sends.
LEMMA ServerStep == QInv /\ Server => QInv'
<1> SUFFICES ASSUME QInv, Server PROVE QInv'
  OBVIOUS
<1>0. /\ QTypeOK /\ MutexHeld /\ ChannelFirst /\ CountExact /\ CountSeen /\ NoNullPublished
      /\ UNCHANGED <<main, created, mutex, pc, pushes>>
  BY DEF QInv, Server, Bind, Loop, PopTest, PopCount, PopTake, Send
<1>1. srv # "none"
  BY DEF Server, Bind, Loop, PopTest, PopCount, PopTake, Send
<1>2. MutexHeld' /\ ChannelFirst' /\ Uncounted' = Uncounted /\ Uncounted \in {0, 1}
  BY <1>0, <1>1 DEF MutexHeld, ChannelFirst, Uncounted
<1>3. total \in Int /\ Len(queue) \in Nat
  BY <1>0 DEF QTypeOK
<1>4. CASE Bind
  <2>1. srv = "create" /\ srv' \in {"loop", "ended"} /\ UNCHANGED <<queue, total, hand, sent>>
    BY <1>4 DEF Bind
  <2>2. flag' \in BOOLEAN
    <3>1. flag' = TRUE \/ flag' = flag
      BY <1>4 DEF Bind
    <3>2. flag \in BOOLEAN
      BY <1>0 DEF QTypeOK
    <3> QED BY <3>1, <3>2, Zenon
  <2>3. QTypeOK' /\ NoNullPublished' /\ CountSeen'
    BY <1>0, <2>1, <2>2 DEF QTypeOK, NoNullPublished, CountSeen
  <2>4. CountExact'
    BY <1>0, <1>2, <2>1 DEF CountExact, Claimed
  <2> QED BY <1>2, <2>3, <2>4 DEF QInv
<1>5. CASE Loop
  <2>1. srv = "loop" /\ srv' = "test" /\ total # 0 /\ UNCHANGED <<flag, queue, total, hand, sent>>
    BY <1>5 DEF Loop
  <2>2. QTypeOK' /\ NoNullPublished'
    BY <1>0, <2>1 DEF QTypeOK, NoNullPublished
  <2>3. CountSeen'
    BY <1>0, <1>3, <2>1 DEF CountSeen, CountExact
  <2>4. CountExact'
    BY <1>0, <1>2, <2>1 DEF CountExact, Claimed
  <2> QED BY <1>2, <2>2, <2>3, <2>4 DEF QInv
<1>6. CASE PopTest
  <2>1. queue # << >>
    BY <1>0, <1>6, QueueThere DEF PopTest
  <2>2. srv = "test" /\ srv' = "count" /\ UNCHANGED <<flag, queue, total, hand, sent>>
    BY <1>6, <2>1 DEF PopTest
  <2>3. QTypeOK' /\ NoNullPublished' /\ CountSeen'
    BY <1>0, <2>2 DEF QTypeOK, NoNullPublished, CountSeen
  <2>4. CountExact'
    BY <1>0, <1>2, <2>2 DEF CountExact, Claimed
  <2> QED BY <1>2, <2>3, <2>4 DEF QInv
<1>7. CASE PopCount
  <2>1. srv = "count" /\ srv' = "take" /\ total' = total - 1 /\ UNCHANGED <<flag, queue, hand, sent>>
    BY <1>7 DEF PopCount
  <2>2. QTypeOK' /\ NoNullPublished' /\ CountSeen'
    BY <1>0, <2>1 DEF QTypeOK, NoNullPublished, CountSeen
  <2>3. Claimed = 0 /\ Claimed' = 1 /\ total >= 1
    BY <1>0, <2>1 DEF Claimed, CountSeen
  <2>4. CountExact'
    BY <1>0, <1>2, <1>3, <2>1, <2>3 DEF CountExact
  <2> QED BY <1>2, <2>2, <2>4 DEF QInv
<1>8. CASE PopTake
  <2>1. /\ srv = "take" /\ srv' = "send" /\ queue # << >>
        /\ hand' = Head(queue) /\ queue' = Tail(queue) /\ UNCHANGED <<flag, total, sent>>
    BY <1>8 DEF PopTake
  <2>2. /\ Head(queue) \in Messages /\ Tail(queue) \in Seq(Messages)
        /\ Len(Tail(queue)) = Len(queue) - 1
    BY <1>0, <2>1, HeadTailProperties DEF QTypeOK
  <2>3. QTypeOK' /\ CountSeen'
    BY <1>0, <2>1, <2>2 DEF QTypeOK, CountSeen
  <2>4. NoNullPublished'
    BY <2>1, <2>2, NullMsgAssumption DEF NoNullPublished
  <2>5. Claimed = 1 /\ Claimed' = 0
    BY <2>1 DEF Claimed
  <2>6. CountExact'
    BY <1>0, <1>2, <1>3, <2>1, <2>2, <2>5 DEF CountExact
  <2> QED BY <1>2, <2>3, <2>4, <2>6 DEF QInv
<1>9. CASE Send
  <2>1. /\ srv = "send" /\ srv' = "loop" /\ sent' = Append(sent, hand)
        /\ UNCHANGED <<flag, queue, total, hand>>
    BY <1>9 DEF Send
  <2>2. hand \in Messages /\ sent' \in Seq(Messages)
    BY <1>0, <2>1 DEF QTypeOK, NoNullPublished
  <2>3. QTypeOK' /\ CountSeen' /\ NoNullPublished'
    BY <1>0, <2>1, <2>2 DEF QTypeOK, CountSeen, NoNullPublished
  <2>4. CountExact'
    BY <1>0, <1>2, <2>1 DEF CountExact, Claimed
  <2> QED BY <1>2, <2>3, <2>4 DEF QInv
<1> QED BY <1>4, <1>5, <1>6, <1>7, <1>8, <1>9 DEF Server

\* Every step of every thread keeps the invariant.
LEMMA QNextInv == QInv /\ [QNext]_qvars => QInv'
<1> SUFFICES ASSUME QInv, [QNext]_qvars PROVE QInv'
  OBVIOUS
<1>1. CASE UNCHANGED qvars
  BY <1>1 DEF qvars, QInv, QTypeOK, MutexHeld, ChannelFirst, CountExact, CountSeen,
              NoNullPublished, Uncounted, Claimed
<1>2. CASE Main \/ Server
  BY <1>2, MainStep, ServerStep
<1>3. ASSUME NEW p \in Producers, Producer(p) PROVE QInv'
  BY <1>3, ProducerStep
<1> QED BY <1>1, <1>2, <1>3 DEF QNext

\* The invariant holds throughout.
THEOREM QueueInvariant == QSpec => []QInv
BY QInitInv, QNextInv, PTL DEF QSpec

\* The types of the queue's state.
THEOREM QueueTyped == QSpec => []QTypeOK
<1>1. QInv => QTypeOK
  BY DEF QInv
<1> QED BY <1>1, QueueInvariant, PTL

\* The count is the number of messages up to the one being stored and the one
\* being taken, and never negative.
THEOREM QueueCountExact == QSpec => []CountExact
<1>1. QInv => CountExact
  BY DEF QInv
<1> QED BY <1>1, QueueInvariant, PTL

\* push finds its channel, and pop its message.
THEOREM QueueUsable == QSpec => []QueueAtUse
<1>1. QInv => QueueAtUse
  <2> SUFFICES ASSUME QInv PROVE QueueAtUse
    OBVIOUS
  <2>1. \A p \in Producers : pc[p] = "running" => created
    BY DEF QInv, ChannelFirst
  <2>2. srv \in {"count", "take"} => queue # << >>
    BY QueueThere DEF QInv
  <2> QED BY <2>1, <2>2 DEF QueueAtUse
<1> QED BY <1>1, QueueInvariant, PTL

\* NULL_MSG is never published.
THEOREM QueueNoNull == QSpec => []NoNullPublished
<1>1. QInv => NoNullPublished
  BY DEF QInv
<1> QED BY <1>1, QueueInvariant, PTL

-----------------------------------------------------------------------------
(* The refinement.                                                          *)

\* What the server holds to send, as a sequence.
InServer == IF srv = "send" THEN <<hand>> ELSE << >>

\* It is at most one message, and not NULL_MSG.
LEMMA InServerTyped ==
  ASSUME QInv
  PROVE  InServer \in Seq(Messages)
<1>1. srv = "send" => hand \in Messages
  BY DEF QInv, QTypeOK, NoNullPublished
<1> QED BY <1>1 DEF InServer

\* A message in front of a queue is its head.
LEMMA InFront ==
  ASSUME NEW m \in Messages, NEW q \in Seq(Messages)
  PROVE  /\ <<m>> \o q # << >> /\ Head(<<m>> \o q) = m /\ Tail(<<m>> \o q) = q
<1>1. <<m>> \in Seq(Messages) /\ Len(<<m>>) = 1 /\ <<m>>[1] = m
  OBVIOUS
<1> DEFINE s == <<m>> \o q
<1>2. /\ s \in Seq(Messages) /\ Len(s) = 1 + Len(q)
      /\ \A i \in 1 .. 1 + Len(q) : s[i] = IF i <= 1 THEN <<m>>[i] ELSE q[i - 1]
  BY <1>1, ConcatProperties
<1>3. Len(q) \in Nat
  BY LenProperties
<1>4. s[1] = m /\ \A i \in 1 .. Len(q) : s[i + 1] = q[i]
  BY <1>1, <1>2, <1>3
<1> HIDE DEF s
<1>5. s # << >> /\ Head(s) = m
  BY <1>2, <1>3, <1>4
<1>6. /\ Tail(s) \in Seq(Messages) /\ Len(Tail(s)) = Len(q)
      /\ \A i \in 1 .. Len(Tail(s)) : Tail(s)[i] = s[i + 1]
  BY <1>2, <1>3, <1>5, HeadTailProperties
<1>7. Tail(s) = q
  BY <1>4, <1>6, SeqEqual
<1> QED BY <1>5, <1>7 DEF s

\* Taking a message off a queue and putting it in front again.
LEMMA TakenBack ==
  ASSUME NEW q \in Seq(Messages), q # << >>
  PROVE  <<Head(q)>> \o Tail(q) = q
<1> DEFINE m == Head(q)  t == Tail(q)  s == <<m>> \o t
<1>1. /\ m \in Messages /\ t \in Seq(Messages) /\ Len(t) = Len(q) - 1
      /\ \A i \in 1 .. Len(t) : t[i] = q[i + 1]
  BY HeadTailProperties
<1>2. m = q[1] /\ Len(q) \in Nat /\ Len(q) >= 1
  BY LenProperties
<1> HIDE DEF m, t
<1>3. <<m>> \in Seq(Messages) /\ Len(<<m>>) = 1 /\ <<m>>[1] = m
  BY <1>1
<1>4. /\ s \in Seq(Messages) /\ Len(s) = 1 + Len(t)
      /\ \A i \in 1 .. 1 + Len(t) : s[i] = IF i <= 1 THEN <<m>>[i] ELSE t[i - 1]
  BY <1>1, <1>3, ConcatProperties
<1> HIDE DEF s
<1>5. Len(s) = Len(q)
  BY <1>1, <1>2, <1>4
<1>6. ASSUME NEW i \in 1 .. Len(s) PROVE s[i] = q[i]
  <2>1. CASE i = 1
    BY <1>2, <1>3, <1>4, <2>1
  <2>2. CASE i # 1
    <3>1. i - 1 \in 1 .. Len(t) /\ (i - 1) + 1 = i
      BY <1>1, <1>2, <1>5, <1>6, <2>2
    <3>2. s[i] = t[i - 1]
      BY <1>1, <1>2, <1>4, <1>6, <2>2
    <3> QED BY <1>1, <3>1, <3>2
  <2> QED BY <2>1, <2>2
<1>7. s = q
  BY <1>4, <1>5, <1>6, SeqEqual
<1> QED BY <1>7 DEF s, m, t

\* Appending behind two sequences put together.
LEMMA AppendBehind ==
  ASSUME NEW s \in Seq(Messages), NEW q \in Seq(Messages), NEW m \in Messages
  PROVE  s \o Append(q, m) = Append(s \o q, m)
<1>1. Append(q, m) = q \o <<m>> /\ <<m>> \in Seq(Messages)
  BY AppendIsConcat
<1>2. s \o q \in Seq(Messages)
  BY ConcatProperties
<1>3. Append(s \o q, m) = (s \o q) \o <<m>>
  BY <1>2, AppendIsConcat
<1>4. (s \o q) \o <<m>> = s \o (q \o <<m>>)
  BY <1>1, ConcatAssociative
<1> QED BY <1>1, <1>3, <1>4

\* Every step is a push, a delivery, or nothing to the users of the channel.
LEMMA ChannelStep ==
  ASSUME QInv, [QNext]_qvars
  PROVE  [Channel!ChannelNext]_(Channel!channelVars)
<1> DEFINE pend == InServer \o queue
<1>0. QTypeOK /\ InServer \in Seq(Messages) /\ queue \in Seq(Messages)
  BY InServerTyped DEF QInv, QTypeOK
<1> SUFFICES \/ pend' = pend /\ sent' = sent
             \/ \E m \in Messages : pend' = Append(pend, m) /\ sent' = sent
             \/ pend # << >> /\ sent' = Append(sent, Head(pend)) /\ pend' = Tail(pend)
  BY DEF Channel!ChannelNext, Channel!Push, Channel!Deliver, Channel!channelVars, InServer
<1>1. CASE UNCHANGED <<srv, hand, queue, sent>>
  BY <1>1 DEF InServer
<1>2. CASE \E p \in Producers : PushStore(p)
  <2>1. PICK p \in Producers : PushStore(p)
    BY <1>2
  <2> DEFINE m == <<p, pushes[p] + 1>>
  <2>2. m \in Messages
    <3>1. pushes[p] + 1 \in 1 .. MaxPush
      BY <1>0, <2>1, PushAssumption DEF QTypeOK, PushStore
    <3> QED BY <3>1 DEF Messages
  <2>3. queue' = Append(queue, m) /\ sent' = sent /\ InServer' = InServer
    BY <2>1 DEF PushStore, InServer
  <2> HIDE DEF m
  <2>4. pend' = Append(pend, m)
    BY <1>0, <2>2, <2>3, AppendBehind
  <2> QED BY <2>2, <2>3, <2>4
<1>3. CASE PopTake
  <2>1. /\ srv = "take" /\ srv' = "send" /\ hand' = Head(queue) /\ queue' = Tail(queue)
        /\ queue # << >> /\ sent' = sent
    BY <1>3 DEF PopTake
  <2>2. InServer = << >> /\ InServer' = <<Head(queue)>>
    BY <2>1 DEF InServer
  <2>3. pend = queue
    BY <1>0, <2>2, ConcatEmptySeq
  <2>4. pend' = queue
    BY <1>0, <2>1, <2>2, TakenBack
  <2> QED BY <2>1, <2>3, <2>4
<1>4. CASE Send
  <2>1. srv = "send" /\ srv' = "loop" /\ sent' = Append(sent, hand) /\ queue' = queue
    BY <1>4 DEF Send
  <2>2. hand \in Messages
    BY <2>1 DEF QInv, QTypeOK, NoNullPublished
  <2>3. InServer = <<hand>> /\ InServer' = << >>
    BY <2>1 DEF InServer
  <2>4. pend # << >> /\ Head(pend) = hand /\ Tail(pend) = queue
    BY <1>0, <2>2, <2>3, InFront
  <2>5. pend' = queue
    BY <1>0, <2>1, <2>3, ConcatEmptySeq
  <2> QED BY <2>1, <2>4, <2>5
<1>5. CASE \/ Main \/ Bind \/ Loop \/ PopTest \/ PopCount
           \/ \E p \in Producers : Connected(p) \/ PushCount(p)
  <2>1. sent' = sent /\ queue' = queue
    BY <1>5 DEF Main, createChannel, StartProducers, StartServer, Bind, Loop, PopTest, PopCount,
                Connected, PushCount
  <2>2. InServer' = InServer
    <3>1. CASE Main
      <4>1. /\ main \in {"start", "created", "producing"} /\ hand' = hand
            /\ srv' = srv \/ srv' = "create"
        BY <3>1 DEF Main, createChannel, StartProducers, StartServer
      <4>2. srv = "none"
        BY <4>1 DEF QInv, ChannelFirst
      <4> QED BY <4>1, <4>2 DEF InServer
    <3>2. CASE PopTest
      <4>1. queue # << >>
        BY <3>2, QueueThere DEF PopTest, QInv
      <4> QED BY <3>2, <4>1 DEF PopTest, InServer
    <3>3. CASE Bind \/ Loop \/ PopCount
      BY <3>3 DEF Bind, Loop, PopCount, InServer
    <3>4. CASE \E p \in Producers : Connected(p) \/ PushCount(p)
      BY <3>4 DEF Connected, PushCount, InServer
    <3> QED BY <1>5, <3>1, <3>2, <3>3, <3>4
  <2> QED BY <2>1, <2>2
<1> QED BY <1>1, <1>2, <1>3, <1>4, <1>5 DEF QNext, Server, Producer, qvars

\* The queue with its threads implements a channel: what is published is what
\* was pushed, in order and once.
THEOREM QueueImplementsChannel == QSpec => ImplementsChannel
<1>1. QInit => Channel!ChannelInit
  <2> SUFFICES ASSUME QInit PROVE Channel!ChannelInit
    OBVIOUS
  <2>1. << >> \o << >> = << >>
    BY ConcatEmptySeq
  <2> QED BY <2>1 DEF QInit, Channel!ChannelInit
<1>2. QInv /\ [QNext]_qvars => [Channel!ChannelNext]_(Channel!channelVars)
  BY ChannelStep
<1> QED BY <1>1, <1>2, QueueInvariant, PTL DEF QSpec, ImplementsChannel, Channel!ChannelSpec
=============================================================================
