---------------------------- MODULE MessageQueue ----------------------------
(***************************************************************************)
(* SimpleMessageQueue (libnet/message_queue.cpp) between the threads of    *)
(* nanomsg_pub/main.cpp: producers push heartbeats, and the server thread  *)
(* pops each one and publishes it on a NanomsgSocket.                      *)
(*                                                                         *)
(* push stores and counts under the mutex.  pop looks whether the queue is *)
(* empty and counts down before it takes the mutex, and the server decides *)
(* to pop by the count: every one of these is a step of its own, and the   *)
(* reads without the mutex see what is there at that moment.  The program  *)
(* starts one producer; the queue admits any number.                       *)
(*                                                                         *)
(* A message is the pair of its producer and its number there; its text is *)
(* copied in and out and never shared.  Both threads use the default       *)
(* channel.  Named channels are left out: createChannel with a name adds   *)
(* no entry to the table, so that there never is one.                      *)
(***************************************************************************)
EXTENDS Integers, Sequences

CONSTANTS Producers,   \* threads that run pthread_push_msgdata
          Nobody,      \* no thread holds the mutex
          NullMsg,     \* NULL_MSG
          MaxPush      \* bound: messages of one producer

Messages == Producers \X (1 .. MaxPush)

ASSUME NobodyAssumption  == Nobody \notin Producers
ASSUME NullMsgAssumption == NullMsg \notin Messages
ASSUME PushAssumption    == MaxPush \in Nat

VARIABLES main,      \* where main is
          created,   \* the table has an entry for the default channel
          flag,      \* connection_flag
          mutex,     \* who holds _m
          queue,     \* the default channel's entry in _msg_queue
          total,     \* _msg_total
          pc,        \* pc[p]: where producer p is
          pushes,    \* pushes[p]: messages of p so far
          srv,       \* where the server thread is
          hand,      \* msg, the server's local
          sent       \* what was given to nn_send so far

qvars == <<main, created, flag, mutex, queue, total, pc, pushes, srv, hand, sent>>

QInit ==
  /\ main = "start" /\ created = FALSE /\ flag = FALSE
  /\ mutex = Nobody /\ queue = << >> /\ total = 0
  /\ pc = [p \in Producers |-> "none"] /\ pushes = [p \in Producers |-> 0]
  /\ srv = "none" /\ hand = NullMsg /\ sent = << >>

-----------------------------------------------------------------------------
(* main.                                                                   *)

\* createChannel.
createChannel ==
  /\ main = "start" /\ main' = "created"
  /\ created' = TRUE
  /\ UNCHANGED <<flag, mutex, queue, total, pc, pushes, srv, hand, sent>>

StartProducers ==
  /\ main = "created" /\ main' = "producing"
  /\ pc' = [p \in Producers |-> "waiting"]
  /\ UNCHANGED <<created, flag, mutex, queue, total, pushes, srv, hand, sent>>

\* With "-s" the server thread is started, else the program exits.
StartServer ==
  /\ main = "producing"
  /\ \/ main' = "serving" /\ srv' = "create"
     \/ main' = "exit" /\ UNCHANGED srv
  /\ UNCHANGED <<created, flag, mutex, queue, total, pc, pushes, hand, sent>>

Main == createChannel \/ StartProducers \/ StartServer

-----------------------------------------------------------------------------
(* pthread_push_msgdata.                                                   *)

\* Leaves the loop that waits for connection_flag.
Connected(p) ==
  /\ pc[p] = "waiting" /\ flag
  /\ pc' = [pc EXCEPT ![p] = "running"]
  /\ UNCHANGED <<main, created, flag, mutex, queue, total, pushes, srv, hand, sent>>

\* Slip: without the mutex.
PushStoreUnlocked(p) ==
  /\ pc[p] = "running" /\ created /\ pushes[p] < MaxPush
  /\ pushes' = [pushes EXCEPT ![p] = @ + 1]
  /\ queue' = Append(queue, <<p, pushes[p] + 1>>)
  /\ mutex' = p
  /\ pc' = [pc EXCEPT ![p] = "counting"]
  /\ UNCHANGED <<main, created, flag, total, srv, hand, sent>>

\* push: lock, at(0).push(msg); at throws when there is no such channel ...
PushStore(p) ==
  /\ pc[p] = "running" /\ created /\ pushes[p] < MaxPush
  /\ mutex = Nobody /\ mutex' = p
  /\ pushes' = [pushes EXCEPT ![p] = @ + 1]
  /\ queue' = Append(queue, <<p, pushes[p] + 1>>)
  /\ pc' = [pc EXCEPT ![p] = "counting"]
  /\ UNCHANGED <<main, created, flag, total, srv, hand, sent>>

\* Slip: the count is not raised.
PushUncounted(p) ==
  /\ pc[p] = "counting"
  /\ mutex' = Nobody
  /\ pc' = [pc EXCEPT ![p] = "running"]
  /\ UNCHANGED <<main, created, flag, queue, total, pushes, srv, hand, sent>>

\* ... _msg_total += 1, unlock.
PushCount(p) ==
  /\ pc[p] = "counting"
  /\ total' = total + 1
  /\ mutex' = Nobody
  /\ pc' = [pc EXCEPT ![p] = "running"]
  /\ UNCHANGED <<main, created, flag, queue, pushes, srv, hand, sent>>

Producer(p) == Connected(p) \/ PushStore(p) \/ PushCount(p)

-----------------------------------------------------------------------------
(* pub_thread_server.                                                      *)

\* create and bind: the thread returns when one of them fails, closing the
\* socket, and connection_flag stays 0.
Bind ==
  /\ srv = "create"
  /\ \/ srv' = "loop" /\ flag' = TRUE
     \/ srv' = "ended" /\ UNCHANGED flag
  /\ UNCHANGED <<main, created, mutex, queue, total, pc, pushes, hand, sent>>

\* The loop's empty(), by the count; sleeps and looks again if it is so.
Loop ==
  /\ srv = "loop" /\ total # 0 /\ srv' = "test"
  /\ UNCHANGED <<main, created, flag, mutex, queue, total, pc, pushes, hand, sent>>

\* pop: without the mutex, is there a message?  NULL_MSG is returned if not.
PopTest ==
  /\ srv = "test"
  /\ IF queue # << >> THEN srv' = "count" /\ UNCHANGED hand
                      ELSE srv' = "send" /\ hand' = NullMsg
  /\ UNCHANGED <<main, created, flag, mutex, queue, total, pc, pushes, sent>>

\* _msg_total -= 1, still without the mutex.
PopCount ==
  /\ srv = "count" /\ srv' = "take"
  /\ total' = total - 1
  /\ UNCHANGED <<main, created, flag, mutex, queue, pc, pushes, hand, sent>>

\* Slip: the message is read and left in the queue.
PopPeek ==
  /\ srv = "take" /\ mutex = Nobody /\ queue # << >> /\ srv' = "send"
  /\ hand' = Head(queue)
  /\ UNCHANGED <<main, created, flag, mutex, queue, total, pc, pushes, sent>>

\* Under the mutex, front and pop.
PopTake ==
  /\ srv = "take" /\ mutex = Nobody /\ queue # << >> /\ srv' = "send"
  /\ hand' = Head(queue) /\ queue' = Tail(queue)
  /\ UNCHANGED <<main, created, flag, mutex, total, pc, pushes, sent>>

\* send, whose result is not looked at.
Send ==
  /\ srv = "send" /\ srv' = "loop"
  /\ sent' = Append(sent, hand)
  /\ UNCHANGED <<main, created, flag, mutex, queue, total, pc, pushes, hand>>

Server == Bind \/ Loop \/ PopTest \/ PopCount \/ PopTake \/ Send

QNext == Main \/ Server \/ \E p \in Producers : Producer(p)

\* Threads that can go on do; the mutex is given to the server at some point
\* even when producers keep asking for it.
QFairness == /\ WF_qvars(Server)
             /\ SF_qvars(PopTake)
             /\ \A p \in Producers : WF_qvars(PushCount(p))

QSpec     == QInit /\ [][QNext]_qvars
FairQSpec == QSpec /\ QFairness

-----------------------------------------------------------------------------
QTypeOK ==
  /\ main \in {"start", "created", "producing", "serving", "exit"}
  /\ created \in BOOLEAN /\ flag \in BOOLEAN
  /\ mutex \in Producers \cup {Nobody}
  /\ queue \in Seq(Messages) /\ sent \in Seq(Messages)
  /\ total \in Int
  /\ pc \in [Producers -> {"none", "waiting", "running", "counting"}]
  /\ pushes \in [Producers -> 0 .. MaxPush]
  /\ srv \in {"none", "create", "loop", "test", "count", "take", "send", "ended"}
  /\ hand \in Messages \cup {NullMsg}

\* push never meets a missing channel, and pop never takes from an empty
\* queue, although it looked before it had the mutex.
QueueAtUse ==
  /\ \A p \in Producers : pc[p] = "running" => created
  /\ srv \in {"count", "take"} => queue # << >>

\* The message in a producer's hands that is stored and not counted, and the
\* one the server counted down and has not taken.
Uncounted == IF mutex = Nobody THEN 0 ELSE 1
Claimed   == IF srv = "take" THEN 1 ELSE 0

\* _msg_total is the number of messages up to those two, and never negative:
\* empty() is then never false on an empty queue, whatever the interleaving.
CountExact == /\ total = Len(queue) - Uncounted - Claimed
              /\ total >= 0

\* The server never publishes NULL_MSG: between its empty() and pop's own
\* test the queue stays non-empty.
NoNullPublished == srv = "send" => hand # NullMsg

\* What is sent is what was pushed, in order and once.
Channel == INSTANCE MessageChannel
             WITH pending   <- (IF srv = "send" THEN <<hand>> ELSE << >>) \o queue,
                  delivered <- sent

ImplementsChannel == Channel!ChannelSpec

\* Every message pushed is published at some time.
EverythingPublished ==
  \A p \in Producers : \A n \in 1 .. MaxPush :
    pushes[p] >= n ~> \E k \in 1 .. Len(sent) : sent[k] = <<p, n>>
=============================================================================
