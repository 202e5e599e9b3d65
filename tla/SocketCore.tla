----------------------------- MODULE SocketCore -----------------------------
(***************************************************************************)
(* Packet framing: SocketCore::send and SocketCore::parse of               *)
(* libnet/socket_core.cpp over the byte buffer of libnet/cache_queue.cpp,  *)
(* driven by SocketSession::__onRead and NanomsgSocket::recv.              *)
(*                                                                         *)
(* A packet is a NetHead of HEAD bytes, whose first field is the size of   *)
(* the whole packet, followed by a body.  A byte is known by the session   *)
(* it was sent on and its position in that session's stream, so that where *)
(* a byte came from is never lost.  The transport (TCP, nanomsg) hands the *)
(* stream to the receiver in pieces of any length, in order.               *)
(*                                                                         *)
(* Each session has a SocketCore, CoreOf[s].  A SocketClient and a         *)
(* NanomsgSocket own theirs; all the sessions a SocketServer accepts share *)
(* the one of its SocketProcessor.  Reads of different sessions run on     *)
(* different threads, reads of one session one after the other, so a       *)
(* session also stands for the thread that runs its read callback.  parse  *)
(* takes the core's mutex to append the piece (Read) and once for every    *)
(* packet (Take); the callback runs outside it (Deliver).  Between them    *)
(* parse relies on dqs, the size of the buffer when it was last looked at. *)
(***************************************************************************)
EXTENDS Integers, Sequences

CONSTANTS Sessions,     \* connections, each with the thread that reads it
          Cores,        \* SocketCore objects
          CoreOf,       \* CoreOf[s]: the core that parses what s receives
          HEAD,         \* C_NETHEAD_SIZE
          BodySizes,    \* the object sizes handed to send
          MaxPackets,   \* bound: packets sent on one session
          Garbage       \* what a size field read from other bytes may hold

ASSUME CoreAssumption   == CoreOf \in [Sessions -> Cores]
ASSUME SizeAssumption   == HEAD \in Nat \ {0} /\ BodySizes \subseteq Nat
ASSUME BoundAssumption  == MaxPackets \in Nat
ASSUME GarbageAssumption == Garbage \subseteq Int

\* No two sessions share a core: SocketClient, NanomsgSocket.
OwnCores == \A s, t \in Sessions : CoreOf[s] = CoreOf[t] => s = t

VARIABLES ends,     \* ends[s][k]: stream position of the last byte of packet k
          arrived,  \* arrived[s]: how many bytes of the stream were read
          cq,       \* cq[c]: CacheQueue::_cq, the unparsed bytes of core c
          pc,       \* pc[s]: where the read callback of s is in parse
          dqs,      \* dqs[s]: parse's local copy of the buffer's size
          package,  \* package[s]: parse's local copy of one packet
          got       \* got[s]: packages given to the callback of s so far

vars == <<ends, arrived, cq, pc, dqs, package, got>>

-----------------------------------------------------------------------------
(* Packets and their bytes.                                                *)

Byte(s, p) == [from |-> s, pos |-> p]
Bytes      == [from : Sessions, pos : Nat]

\* Stream position before the first byte of packet k, and the packet's size.
Start(s, k) == IF k = 1 THEN 0 ELSE ends[s][k - 1]
Size(s, k)  == ends[s][k] - Start(s, k)

\* The bytes of packet k of session s.
Packet(s, k) == [i \in 1 .. Size(s, k) |-> Byte(s, Start(s, k) + i)]

\* Everything sent on s so far.
Written(s) == Start(s, Len(ends[s]) + 1)

\* q begins with the head of packet k of s.
HeadOf(q, s, k) ==
  /\ HEAD <= Len(q)
  /\ \A i \in 1 .. HEAD : q[i] = Byte(s, Start(s, k) + i)

\* What ((NetHead*)_cq.front())->size may read: the size of the packet whose
\* head is in front, or any value if the front is not a head.
HeadSizes(q) == {Size(h[1], h[2]) :
                   h \in {x \in UNION {{s} \X (1 .. Len(ends[s])) : s \in Sessions} :
                            HeadOf(q, x[1], x[2])}}
SizeField(q) == IF HeadSizes(q) # {} THEN HeadSizes(q) ELSE Garbage

-----------------------------------------------------------------------------
(* CacheQueue.                                                             *)

push(q, buf) == q \o buf

\* Slips a property must notice: pop keeps the last byte of the packet;
\* front_copyto leaves it out.
popShort(q, n)  == IF 0 < n /\ n <= Len(q) THEN SubSeq(q, n, Len(q)) ELSE q
copyShort(q, n) == IF 0 < n /\ n <= Len(q) THEN SubSeq(q, 1, n - 1) ELSE << >>

\* pop and front_copyto do nothing unless the buffer holds that many bytes;
\* the copy then stays as new left it, which << >> stands for.
Holds(q, n)        == 0 < n /\ n <= Len(q)
pop(q, n)          == IF Holds(q, n) THEN SubSeq(q, n + 1, Len(q)) ELSE q
front_copyto(q, n) == IF Holds(q, n) THEN SubSeq(q, 1, n) ELSE << >>

-----------------------------------------------------------------------------
Init ==
  /\ ends    = [s \in Sessions |-> << >>]
  /\ arrived = [s \in Sessions |-> 0]
  /\ cq      = [c \in Cores |-> << >>]
  /\ pc      = [s \in Sessions |-> "idle"]
  /\ dqs     = [s \in Sessions |-> 0]
  /\ package = [s \in Sessions |-> << >>]
  /\ got     = [s \in Sessions |-> << >>]

\* SocketCore::send by the peer of s: a NetPackage of HEAD bytes and the
\* object goes to the transport in one call.
Send(s, n) ==
  /\ Len(ends[s]) < MaxPackets
  /\ ends' = [ends EXCEPT ![s] = Append(@, Written(s) + HEAD + n)]
  /\ UNCHANGED <<arrived, cq, pc, dqs, package, got>>

\* The next n bytes of the stream of s.
Piece(s, n) == [i \in 1 .. n |-> Byte(s, arrived[s] + i)]

\* __onRead or recv gets n bytes and calls parse, which appends them under
\* the lock and enters its loop if the buffer may hold a head.
Read(s, n) ==
  LET q == push(cq[CoreOf[s]], Piece(s, n))
  IN  /\ pc[s] = "idle"
      /\ arrived[s] + n <= Written(s)
      /\ arrived' = [arrived EXCEPT ![s] = @ + n]
      /\ cq'  = [cq EXCEPT ![CoreOf[s]] = q]
      /\ dqs' = [dqs EXCEPT ![s] = Len(q)]
      /\ pc'  = [pc EXCEPT ![s] = IF HEAD <= Len(q) THEN "loop" ELSE "idle"]
      /\ UNCHANGED <<ends, package, got>>

\* Slip: dqs <= hd->size.
IncompleteAtSize(s) ==
  /\ pc[s] = "loop"
  /\ \E size \in SizeField(cq[CoreOf[s]]) : dqs[s] <= size
  /\ pc' = [pc EXCEPT ![s] = "idle"]
  /\ UNCHANGED <<ends, arrived, cq, dqs, package, got>>

\* dqs < hd->size: the packet in front is not complete, parse returns.
Incomplete(s) ==
  /\ pc[s] = "loop"
  /\ \E size \in SizeField(cq[CoreOf[s]]) : dqs[s] < size
  /\ pc' = [pc EXCEPT ![s] = "idle"]
  /\ UNCHANGED <<ends, arrived, cq, dqs, package, got>>

\* Slip: dqs is not brought up to date.
TakeStale(s) ==
  /\ pc[s] = "loop"
  /\ \E size \in SizeField(cq[CoreOf[s]]) :
       /\ size <= dqs[s]
       /\ package' = [package EXCEPT ![s] = front_copyto(cq[CoreOf[s]], size)]
       /\ cq'  = [cq EXCEPT ![CoreOf[s]] = pop(@, size)]
  /\ pc' = [pc EXCEPT ![s] = "deliver"]
  /\ UNCHANGED <<ends, arrived, dqs, got>>

\* Otherwise the packet in front is copied out and removed, and dqs brought
\* up to date, all under the lock.
Take(s) ==
  /\ pc[s] = "loop"
  /\ \E size \in SizeField(cq[CoreOf[s]]) :
       LET q == pop(cq[CoreOf[s]], size)
       IN  /\ size <= dqs[s]
           /\ package' = [package EXCEPT
                            ![s] = front_copyto(cq[CoreOf[s]], size)]
           /\ cq'  = [cq EXCEPT ![CoreOf[s]] = q]
           /\ dqs' = [dqs EXCEPT ![s] = Len(q)]
  /\ pc' = [pc EXCEPT ![s] = "deliver"]
  /\ UNCHANGED <<ends, arrived, got>>

\* Slip: the loop goes on while HEAD < dqs.
DeliverBreak(s) ==
  /\ pc[s] = "deliver"
  /\ got' = [got EXCEPT ![s] = Append(@, package[s])]
  /\ package' = [package EXCEPT ![s] = << >>]
  /\ pc' = [pc EXCEPT ![s] = IF HEAD < dqs[s] THEN "loop" ELSE "idle"]
  /\ UNCHANGED <<ends, arrived, cq, dqs>>

\* func(cmd, body, length, userdata), then once more if dqs allows a head.
Deliver(s) ==
  /\ pc[s] = "deliver"
  /\ got' = [got EXCEPT ![s] = Append(@, package[s])]
  /\ package' = [package EXCEPT ![s] = << >>]
  /\ pc' = [pc EXCEPT ![s] = IF HEAD <= dqs[s] THEN "loop" ELSE "idle"]
  /\ UNCHANGED <<ends, arrived, cq, dqs>>

Parse(s) == Incomplete(s) \/ Take(s) \/ Deliver(s)

ReadSome(s) == \E n \in 1 .. (Written(s) - arrived[s]) : Read(s, n)

SendSome(s) == \E n \in BodySizes : Send(s, n)

Next == \E s \in Sessions : SendSome(s) \/ ReadSome(s) \/ Parse(s)

\* A thread that is inside parse keeps running, and libevent calls the read
\* callback again while bytes are waiting.  Nobody has to send.
Fairness == \A s \in Sessions : WF_vars(ReadSome(s)) /\ WF_vars(Parse(s))

Spec     == Init /\ [][Next]_vars
FairSpec == Spec /\ Fairness

-----------------------------------------------------------------------------
(* Properties.                                                             *)

TypeOK ==
  /\ ends    \in [Sessions -> Seq(Nat)]
  /\ arrived \in [Sessions -> Nat]
  /\ cq      \in [Cores -> Seq(Bytes)]
  /\ pc      \in [Sessions -> {"idle", "loop", "deliver"}]
  /\ dqs     \in [Sessions -> Nat]
  /\ package \in [Sessions -> Seq(Bytes)]
  /\ got     \in [Sessions -> Seq(Seq(Bytes))]

\* How many packets parse has taken off the buffer on behalf of s.
Taken(s) == Len(got[s]) + (IF pc[s] = "deliver" THEN 1 ELSE 0)

\* Every package handed to a session's callback is, byte for byte, the packet
\* its peer sent, and they come in the order sent: nothing is cut short, run
\* together, repeated, skipped or given to another session.
PacketsIntact ==
  \A s \in Sessions :
    /\ Taken(s) <= Len(ends[s])
    /\ \A k \in 1 .. Len(got[s]) : got[s][k] = Packet(s, k)
    /\ pc[s] = "deliver" => package[s] = Packet(s, Taken(s))

\* parse compares hd->size with a length it read before giving up the lock and
\* never checks it again: while it is about to look at the head, that length
\* is still the length of the buffer, and the buffer holds a whole head.
LengthCurrent ==
  \A s \in Sessions :
    pc[s] # "idle" => /\ dqs[s] = Len(cq[CoreOf[s]])
                      /\ pc[s] = "loop" => HEAD <= dqs[s]

\* When parse has returned, no packet that has fully arrived is left behind in
\* the buffer: nothing would look at it until more bytes came.
NothingStranded ==
  \A s \in Sessions :
    pc[s] = "idle" =>
      \/ Taken(s) = Len(ends[s])
      \/ arrived[s] < ends[s][Taken(s) + 1]

\* hd->size is "the size of the packet" only if the bytes in front of the buffer
\* are the head of a packet of the session being read.
HeadInFront ==
  \A s \in Sessions :
    pc[s] = "loop" =>
      \E k \in 1 .. Len(ends[s]) : HeadOf(cq[CoreOf[s]], s, k)

\* Every packet sent is eventually handed to the callback.
EverythingDelivered ==
  \A s \in Sessions : \A k \in 1 .. MaxPackets :
    (k <= Len(ends[s])) ~> (k <= Len(got[s]))

\* The framing implements the packet stream an application sees.
Stream ==
  INSTANCE PacketStream
    WITH sent     <- [s \in Sessions |-> [k \in 1 .. Len(ends[s]) |-> Packet(s, k)]],
         received <- got

ImplementsStream == Stream!Spec
=============================================================================
