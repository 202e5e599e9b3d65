-------------------------- MODULE SocketCoreProofs --------------------------
(* Proofs about SocketCore, for any number of sessions, packets and sizes. *)
EXTENDS SocketCore, SequenceTheorems, TLAPS

USE CoreAssumption, SizeAssumption, BoundAssumption, GarbageAssumption

\* A packet starts at a natural position, the one to be sent next included.
LEMMA StartType ==
  ASSUME TypeOK, NEW s \in Sessions, NEW k \in 1 .. Len(ends[s]) + 1
  PROVE  Start(s, k) \in Nat
BY DEF TypeOK, Start

\* The elements of what CacheQueue::push returns.
LEMMA ConcatIndex ==
  ASSUME NEW S, NEW a \in Seq(S), NEW b \in Seq(S)
  PROVE  /\ Len(a \o b) = Len(a) + Len(b)
         /\ \A i \in 1 .. Len(a) : (a \o b)[i] = a[i]
         /\ \A i \in Len(a) + 1 .. Len(a) + Len(b) : (a \o b)[i] = b[i - Len(a)]
OBVIOUS

\* Two sequences that agree except for one more element at the end.
LEMMA AppendEqual ==
  ASSUME NEW m \in Nat, NEW a, NEW b,
         a = [i \in 1 .. m |-> a[i]], b = [i \in 1 .. m + 1 |-> b[i]],
         \A i \in 1 .. m : b[i] = a[i]
  PROVE  Len(a) = m /\ Len(b) = m + 1 /\ b = Append(a, b[m + 1])
<1> DEFINE T == {b[i] : i \in 1 .. m + 1}
<1>1. m + 1 \in 1 .. m + 1 /\ \A i \in 1 .. m : i \in 1 .. m + 1
  OBVIOUS
<1>2. /\ \A i \in 1 .. m + 1 : b[i] \in T
      /\ \A i \in 1 .. m : a[i] \in T
  BY <1>1
<1> HIDE DEF T
<1>3. a \in [1 .. m -> T] /\ b \in [1 .. m + 1 -> T] /\ b[m + 1] \in T
  <2>1. [i \in 1 .. m |-> a[i]] \in [1 .. m -> T]
    BY <1>2
  <2>2. [i \in 1 .. m + 1 |-> b[i]] \in [1 .. m + 1 -> T]
    BY <1>2
  <2> QED BY <1>1, <1>2, <2>1, <2>2
<1>4. a \in Seq(T) /\ b \in Seq(T) /\ Len(a) = m /\ Len(b) = m + 1
  BY <1>3
<1>5. /\ Append(a, b[m + 1]) \in Seq(T) /\ Len(Append(a, b[m + 1])) = m + 1
      /\ \A i \in 1 .. m : Append(a, b[m + 1])[i] = a[i]
      /\ Append(a, b[m + 1])[m + 1] = b[m + 1]
  BY <1>3, <1>4, AppendProperties
<1>6. ASSUME NEW i \in 1 .. m + 1 PROVE b[i] = Append(a, b[m + 1])[i]
  <2>1. i = m + 1 \/ i \in 1 .. m
    OBVIOUS
  <2> QED BY <1>5, <2>1
<1>7. b = Append(a, b[m + 1])
  BY <1>4, <1>5, <1>6, SeqEqual
<1> QED BY <1>4, <1>7

\* The elements of what front_copyto takes and of what pop leaves.
LEMMA SubSeqIndex ==
  ASSUME NEW S, NEW a \in Seq(S), NEW n \in Nat, 0 < n, n <= Len(a)
  PROVE  /\ SubSeq(a, 1, n) = [i \in 1 .. n |-> a[i]]
         /\ Len(SubSeq(a, n + 1, Len(a))) = Len(a) - n
         /\ \A i \in 1 .. Len(a) - n : SubSeq(a, n + 1, Len(a))[i] = a[n + i]
OBVIOUS

\* Taken counts the package in hand exactly while it is being delivered.
LEMMA TakenType ==
  ASSUME TypeOK, NEW s \in Sessions
  PROVE  /\ Len(got[s]) \in Nat
         /\ Taken(s) \in Nat
         /\ pc[s] = "deliver" => Taken(s) = Len(got[s]) + 1
         /\ pc[s] # "deliver" => Taken(s) = Len(got[s])
<1>1. got[s] \in Seq(Seq(Bytes))
  BY DEF TypeOK
<1>2. Len(got[s]) \in Nat
  BY <1>1
<1>3. CASE pc[s] = "deliver"
  <2>1. Taken(s) = Len(got[s]) + 1
    BY <1>3 DEF Taken
  <2> QED BY <1>2, <1>3, <2>1
<1>4. CASE pc[s] # "deliver"
  <2>1. Taken(s) = Len(got[s]) + 0
    BY <1>4 DEF Taken
  <2> QED BY <1>2, <1>4, <2>1
<1> QED BY <1>3, <1>4

\* HeadSizes in first-order form.
LEMMA HeadSizesDef ==
  ASSUME NEW q, NEW z
  PROVE  z \in HeadSizes(q) <=>
           \E s \in Sessions : \E k \in 1 .. Len(ends[s]) :
             HeadOf(q, s, k) /\ z = Size(s, k)
<1> DEFINE all == UNION {{s} \X (1 .. Len(ends[s])) : s \in Sessions}
<1>1. ASSUME NEW h \in all
      PROVE  h[1] \in Sessions /\ h[2] \in 1 .. Len(ends[h[1]])
  OBVIOUS
<1>2. ASSUME NEW s \in Sessions, NEW k \in 1 .. Len(ends[s])
      PROVE  <<s, k>> \in all
  OBVIOUS
<1> HIDE DEF all
<1>3. HeadSizes(q) = {Size(h[1], h[2]) : h \in {x \in all : HeadOf(q, x[1], x[2])}}
  BY DEF HeadSizes, all
<1>4. ASSUME NEW s \in Sessions, NEW k \in 1 .. Len(ends[s]), HeadOf(q, s, k),
             z = Size(s, k)
      PROVE  z \in HeadSizes(q)
  BY <1>2, <1>3, <1>4, <<s, k>>[1] = s, <<s, k>>[2] = k
<1>5. ASSUME z \in HeadSizes(q)
      PROVE  \E s \in Sessions : \E k \in 1 .. Len(ends[s]) :
               HeadOf(q, s, k) /\ z = Size(s, k)
  BY <1>1, <1>3, <1>5
<1> QED BY <1>4, <1>5

\* Whatever is read as hd->size is an integer.
LEMMA SizeFieldInt == TypeOK => \A c \in Cores : SizeField(cq[c]) \subseteq Int
<1> SUFFICES ASSUME TypeOK, NEW c \in Cores, NEW z \in SizeField(cq[c])
             PROVE  z \in Int
  OBVIOUS
<1>1. ASSUME NEW s \in Sessions, NEW k \in 1 .. Len(ends[s])
      PROVE  Size(s, k) \in Int
  <2>1. ends[s][k] \in Nat
    BY DEF TypeOK
  <2> QED BY <2>1, StartType DEF Size
<1>2. ASSUME z \in HeadSizes(cq[c]) PROVE z \in Int
  BY <1>1, <1>2, HeadSizesDef
<1> QED BY <1>2 DEF SizeField

\* Every action keeps the types, whatever the size fields hold and however the
\* sessions share cores.
LEMMA TypeStep == TypeOK /\ [Next]_vars => TypeOK'
<1> SUFFICES ASSUME TypeOK, [Next]_vars PROVE TypeOK'
  OBVIOUS
<1>1. ASSUME NEW s \in Sessions, NEW n \in BodySizes, Send(s, n) PROVE TypeOK'
  <2>1. Written(s) \in Nat
    BY StartType DEF Written, TypeOK
  <2> QED BY <1>1, <2>1 DEF Send, TypeOK
<1>2. ASSUME NEW s \in Sessions, ReadSome(s) PROVE TypeOK'
  <2>1. PICK n \in 1 .. (Written(s) - arrived[s]) : Read(s, n)
    BY <1>2 DEF ReadSome
  <2>2. Written(s) \in Nat /\ arrived[s] \in Nat
    BY StartType DEF Written, TypeOK
  <2>3. n \in Nat
    BY <2>1, <2>2
  <2>4. Piece(s, n) \in Seq(Bytes)
    BY <2>2, <2>3 DEF Piece, Byte, Bytes
  <2>5. push(cq[CoreOf[s]], Piece(s, n)) \in Seq(Bytes)
    BY <2>4 DEF push, TypeOK
  <2> QED BY <2>1, <2>2, <2>3, <2>5 DEF Read, TypeOK
<1>3. ASSUME NEW s \in Sessions, Incomplete(s) PROVE TypeOK'
  BY <1>3 DEF Incomplete, TypeOK
<1>4. ASSUME NEW s \in Sessions, Take(s) PROVE TypeOK'
  <2> DEFINE q == cq[CoreOf[s]]
  <2>1. PICK z \in SizeField(q) :
          /\ package' = [package EXCEPT ![s] = front_copyto(q, z)]
          /\ cq'  = [cq EXCEPT ![CoreOf[s]] = pop(q, z)]
          /\ dqs' = [dqs EXCEPT ![s] = Len(pop(q, z))]
    BY <1>4 DEF Take
  <2>2. z \in Int /\ q \in Seq(Bytes)
    BY SizeFieldInt DEF TypeOK
  <2>3. front_copyto(q, z) \in Seq(Bytes) /\ pop(q, z) \in Seq(Bytes)
    BY <2>2 DEF front_copyto, pop, Holds
  <2>4. Len(pop(q, z)) \in Nat
    BY <2>3
  <2> QED BY <1>4, <2>1, <2>3, <2>4 DEF Take, TypeOK
<1>5. ASSUME NEW s \in Sessions, Deliver(s) PROVE TypeOK'
  BY <1>5 DEF Deliver, TypeOK
<1>6. CASE UNCHANGED vars
  BY <1>6 DEF vars, TypeOK
<1> QED BY <1>1, <1>2, <1>3, <1>4, <1>5, <1>6 DEF Next, SendSome, Parse

\* The buffers, local lengths and packages of parse keep their types in every
\* behaviour, for any assignment of sessions to cores.
THEOREM TypeCorrect == Spec => []TypeOK
<1>1. Init => TypeOK
  BY DEF Init, TypeOK
<1> QED BY <1>1, TypeStep, PTL DEF Spec

-----------------------------------------------------------------------------
(* Framing when every session has a core of its own.  PacketsIntact says    *)
(* nothing of the bytes still in the buffer, so it is strengthened with     *)
(* where they are: packets are at least a head apart (Spaced), the buffer   *)
(* is exactly the stretch of the stream after the packets taken so far      *)
(* (Aligned), and it ends where reading has got to (Accounted).             *)

Base(s) == Start(s, Taken(s) + 1)

Spaced(s) ==
  \A i, j \in 1 .. Len(ends[s]) + 1 : i < j => Start(s, i) + HEAD <= Start(s, j)

Intact(s) ==
  /\ Taken(s) <= Len(ends[s])
  /\ \A k \in 1 .. Len(got[s]) : got[s][k] = Packet(s, k)
  /\ pc[s] = "deliver" => package[s] = Packet(s, Taken(s))

Accounted(s) == /\ arrived[s] <= Written(s)
                /\ Base(s) + Len(cq[CoreOf[s]]) = arrived[s]

Aligned(s) ==
  \A i \in 1 .. Len(cq[CoreOf[s]]) : cq[CoreOf[s]][i] = Byte(s, Base(s) + i)

Current(s) == pc[s] # "idle" => /\ dqs[s] = Len(cq[CoreOf[s]])
                                /\ pc[s] = "loop" => HEAD <= dqs[s]

Unstranded(s) == pc[s] = "idle" => \/ Taken(s) = Len(ends[s])
                                   \/ arrived[s] < ends[s][Taken(s) + 1]

Framed(s) == /\ Spaced(s) /\ Intact(s) /\ Accounted(s)
             /\ Aligned(s) /\ Current(s) /\ Unstranded(s)

IInv == TypeOK /\ \A s \in Sessions : Framed(s)

\* The inductive invariant gives the three properties.
LEMMA IInvImplies == IInv => PacketsIntact /\ LengthCurrent /\ NothingStranded
BY DEF IInv, Framed, Intact, Current, Unstranded,
       PacketsIntact, LengthCurrent, NothingStranded

\* When parse looks at the front of the buffer it sees the head of the next
\* packet, so hd->size has exactly one value.
LEMMA HeadIsNext ==
  ASSUME IInv, NEW s \in Sessions, pc[s] = "loop"
  PROVE  /\ Taken(s) + 1 \in 1 .. Len(ends[s])
         /\ HeadOf(cq[CoreOf[s]], s, Taken(s) + 1)
         /\ SizeField(cq[CoreOf[s]]) = {Size(s, Taken(s) + 1)}
<1> DEFINE q == cq[CoreOf[s]]
           k == Taken(s) + 1
<1>1. /\ q \in Seq(Bytes) /\ HEAD <= Len(q)
      /\ Taken(s) \in Nat /\ Taken(s) <= Len(ends[s]) /\ Len(ends[s]) \in Nat
  BY DEF IInv, Framed, TypeOK, Current, Intact, Taken
<1>2. k \in 1 .. Len(ends[s])
  <2>1. Base(s) + Len(q) <= Written(s)
    BY DEF IInv, Framed, Accounted
  <2>2. Base(s) \in Nat
    BY <1>1, StartType DEF IInv, Base
  <2>3. Taken(s) # Len(ends[s])
    BY <1>1, <2>1, <2>2 DEF Base, Written
  <2> QED BY <1>1, <2>3
<1>3. \A i \in 1 .. HEAD : q[i] = Byte(s, Start(s, k) + i)
  BY <1>1 DEF IInv, Framed, Aligned, Base
<1>4. HeadOf(q, s, k)
  BY <1>1, <1>3 DEF HeadOf
<1>5. ASSUME NEW t \in Sessions, NEW j \in 1 .. Len(ends[t]), HeadOf(q, t, j)
      PROVE  t = s /\ j = k
  <2>1. Byte(t, Start(t, j) + 1) = Byte(s, Start(s, k) + 1)
    BY <1>3, <1>5 DEF HeadOf
  <2>2. t = s /\ Start(t, j) + 1 = Start(s, k) + 1
    BY <2>1 DEF Byte
  <2>3. Start(s, j) \in Nat /\ Start(s, k) \in Nat
    BY <1>2, <2>2, StartType DEF IInv
  <2>4. Start(s, j) = Start(s, k)
    BY <2>2, <2>3
  <2>5. ~ (j < k) /\ ~ (k < j)
    BY <1>2, <2>2, <2>3, <2>4 DEF IInv, Framed, Spaced
  <2> QED BY <1>2, <2>2, <2>5
<1>6. \A z : z \in HeadSizes(q) <=> z = Size(s, k)
  BY <1>2, <1>4, <1>5, HeadSizesDef
<1> QED BY <1>2, <1>4, <1>6 DEF SizeField

\* Positions of packets already sent do not move when another one is sent.
LEMMA SendKeepsPackets ==
  ASSUME TypeOK, NEW s \in Sessions, NEW n \in BodySizes, Send(s, n),
         NEW t \in Sessions
  PROVE  /\ Len(ends[t])' \in {Len(ends[t]), Len(ends[t]) + 1}
         /\ \A k \in 1 .. Len(ends[t]) + 1 : Start(t, k)' = Start(t, k)
         /\ \A k \in 1 .. Len(ends[t]) : ends[t][k]' = ends[t][k]
         /\ \A k \in 1 .. Len(ends[t]) : Packet(t, k)' = Packet(t, k)
         /\ Written(t) <= Written(t)'
         /\ t # s => ends'[t] = ends[t]
<1>1. Written(s) \in Nat
  BY StartType DEF Written, TypeOK
<1>2. /\ ends' = [ends EXCEPT ![s] = Append(@, Written(s) + HEAD + n)]
      /\ ends[t] \in Seq(Nat)
  BY DEF Send, TypeOK
<1>3. /\ Len(ends[t])' \in {Len(ends[t]), Len(ends[t]) + 1}
      /\ \A k \in 1 .. Len(ends[t]) : ends'[t][k] = ends[t][k]
      /\ t # s => ends'[t] = ends[t]
  <2>1. CASE t = s
    <3>1. ends'[s] = Append(ends[s], Written(s) + HEAD + n)
      BY <1>2 DEF TypeOK
    <3>2. Written(s) + HEAD + n \in Nat
      BY <1>1
    <3> QED BY <1>2, <2>1, <3>1, <3>2
  <2>2. CASE t # s
    BY <1>2, <2>2 DEF TypeOK
  <2> QED BY <2>1, <2>2
<1>4. \A k \in 1 .. Len(ends[t]) + 1 : Start(t, k)' = Start(t, k)
  BY <1>2, <1>3 DEF Start
<1>5. \A k \in 1 .. Len(ends[t]) : Packet(t, k)' = Packet(t, k)
  BY <1>2, <1>3, <1>4 DEF Packet, Size, Byte
<1>6. Written(t) <= Written(t)'
  <2>1. CASE t = s
    <3>1. ends'[s] = Append(ends[s], Written(s) + HEAD + n)
      BY <1>2 DEF TypeOK
    <3>2. Written(s)' = Written(s) + HEAD + n
      BY <1>1, <1>2, <2>1, <3>1 DEF Written, Start
    <3> QED BY <1>1, <2>1, <3>2
  <2>2. CASE t # s
    <3>1. Written(t) \in Nat
      BY StartType DEF Written, TypeOK
    <3>2. Written(t)' = Written(t)
      BY <1>3, <2>2 DEF Written, Start
    <3> QED BY <3>1, <3>2
  <2> QED BY <2>1, <2>2
<1> QED BY <1>3, <1>4, <1>5, <1>6

\* A step that leaves everything of session t alone keeps t framed.
LEMMA FramedFrame ==
  ASSUME NEW t \in Sessions, Framed(t),
         ends'[t] = ends[t], arrived'[t] = arrived[t], pc'[t] = pc[t],
         cq'[CoreOf[t]] = cq[CoreOf[t]], dqs'[t] = dqs[t],
         package'[t] = package[t], got'[t] = got[t]
  PROVE  Framed(t)'
<1>1. \A k : Start(t, k)' = Start(t, k)
  BY DEF Start
<1>2. \A k : Packet(t, k)' = Packet(t, k)
  BY <1>1 DEF Packet, Size, Byte
<1>3. Taken(t)' = Taken(t) /\ Base(t)' = Base(t) /\ Written(t)' = Written(t)
  BY <1>1 DEF Taken, Base, Written
<1>4. Spaced(t)'
  BY <1>1 DEF Framed, Spaced
<1>5. Intact(t)'
  BY <1>2, <1>3 DEF Framed, Intact
<1>6. Accounted(t)' /\ Aligned(t)'
  BY <1>3 DEF Framed, Accounted, Aligned, Byte
<1>7. Current(t)' /\ Unstranded(t)'
  BY <1>3 DEF Framed, Current, Unstranded
<1> QED BY <1>4, <1>5, <1>6, <1>7 DEF Framed

\* send, on this or another session, keeps s framed.
LEMMA SendStep ==
  ASSUME IInv, NEW s \in Sessions, NEW n \in BodySizes, Send(s, n),
         NEW t \in Sessions
  PROVE  Framed(t)'
<1> USE DEF Framed
<1>0. TypeOK /\ Framed(t)
  BY DEF IInv
<1>1. CASE t # s
  <2>1. ends'[t] = ends[t]
    BY <1>0, <1>1, SendKeepsPackets
  <2> QED BY <1>0, <2>1, FramedFrame DEF Send
<1>2. CASE t = s
  <2>1. /\ \A k \in 1 .. Len(ends[s]) + 1 : Start(s, k)' = Start(s, k)
        /\ \A k \in 1 .. Len(ends[s]) : ends[s][k]' = ends[s][k]
        /\ \A k \in 1 .. Len(ends[s]) : Packet(s, k)' = Packet(s, k)
        /\ Written(s) <= Written(s)'
    BY <1>0, SendKeepsPackets
  <2>2. /\ ends'[s] = Append(ends[s], Written(s) + HEAD + n)
        /\ UNCHANGED <<arrived, cq, pc, dqs, package, got>>
    BY <1>0 DEF Send, TypeOK
  <2>3. /\ Written(s) \in Nat /\ ends[s] \in Seq(Nat)
        /\ Len(got[s]) \in Nat /\ arrived[s] \in Nat
    <3>1. ends[s] \in Seq(Nat) /\ got[s] \in Seq(Seq(Bytes)) /\ arrived[s] \in Nat
      BY <1>0 DEF TypeOK
    <3> QED BY <1>0, <3>1, StartType DEF Written
  <2>4. /\ Taken(s)' = Taken(s) /\ Taken(s) \in Nat /\ Taken(s) <= Len(ends[s])
        /\ Len(ends[s])' = Len(ends[s]) + 1
    <3>1. Taken(s)' = Taken(s) /\ Taken(s) \in Nat
      BY <1>0, <2>2, TakenType DEF Taken
    <3>2. Taken(s) <= Len(ends[s])
      BY <1>0, <1>2 DEF Intact
    <3>3. Len(ends'[s]) = Len(ends[s]) + 1
      BY <2>2, <2>3
    <3> QED BY <3>1, <3>2, <3>3
  <2>5. Base(s)' = Base(s)
    BY <2>1, <2>3, <2>4 DEF Base
  <2>6. Spaced(s)'
    <3>1. SUFFICES ASSUME NEW i \in 1 .. Len(ends[s]) + 2,
                          NEW j \in 1 .. Len(ends[s]) + 2, i < j
                   PROVE  Start(s, i)' + HEAD <= Start(s, j)'
      BY <2>3, <2>4 DEF Spaced
    <3>2. CASE j <= Len(ends[s]) + 1
      <4>1. Start(s, i)' = Start(s, i) /\ Start(s, j)' = Start(s, j)
        BY <2>1, <2>3, <3>1, <3>2
      <4>2. i \in 1 .. Len(ends[s]) + 1 /\ j \in 1 .. Len(ends[s]) + 1
        BY <2>3, <3>1, <3>2
      <4> QED BY <1>0, <1>2, <3>1, <4>1, <4>2 DEF Spaced
    <3>3. CASE j = Len(ends[s]) + 2
      <4>1. Start(s, j)' = Written(s) + HEAD + n
        BY <2>2, <2>3, <3>3 DEF Start
      <4>2. i \in 1 .. Len(ends[s]) + 1
        BY <2>3, <3>1, <3>3
      <4>3. Start(s, i)' = Start(s, i) /\ Start(s, i) \in Nat
        BY <1>0, <2>1, <4>2, StartType
      <4>4. Start(s, i) <= Written(s)
        <5>1. CASE i = Len(ends[s]) + 1
          BY <2>3, <4>3, <5>1 DEF Written
        <5>2. CASE i # Len(ends[s]) + 1
          <6>1. /\ i < Len(ends[s]) + 1
                /\ Len(ends[s]) + 1 \in 1 .. Len(ends[s]) + 1
            BY <2>3, <4>2, <5>2
          <6>2. Start(s, i) + HEAD <= Written(s)
            BY <1>0, <1>2, <4>2, <6>1 DEF Spaced, Written
          <6> QED BY <2>3, <4>3, <6>2
        <5> QED BY <5>1, <5>2
      <4>5. n \in Nat /\ HEAD \in Nat
        OBVIOUS
      <4> QED BY <2>3, <4>1, <4>3, <4>4, <4>5
    <3> QED BY <2>3, <3>1, <3>2, <3>3
  <2>7. Intact(s)'
    <3>1. \A k \in 1 .. Len(got[s]) : got'[s][k] = Packet(s, k)'
      <4>1. Len(got[s]) <= Len(ends[s]) /\ Len(ends[s]) \in Nat
        BY <1>0, <2>3, <2>4, TakenType
      <4>2. ASSUME NEW k \in 1 .. Len(got[s])
            PROVE  got[s][k] = Packet(s, k) /\ k \in 1 .. Len(ends[s])
        BY <1>0, <1>2, <2>3, <4>1 DEF Intact
      <4> QED BY <2>1, <2>2, <4>2
    <3>2. pc[s] = "deliver" => package'[s] = Packet(s, Taken(s))'
      BY <1>0, <1>2, <2>1, <2>2, <2>3, <2>4 DEF Intact, Taken
    <3> QED BY <2>2, <2>3, <2>4, <3>1, <3>2 DEF Intact
  <2>8. Accounted(s)'
    <3>1. Written(s)' \in Nat
      <4>1. Written(s)' = Written(s) + HEAD + n
        BY <2>2, <2>3, <2>4 DEF Written, Start
      <4> QED BY <2>3, <4>1
    <3>2. arrived[s] <= Written(s)
      BY <1>0, <1>2 DEF Accounted
    <3> QED BY <1>0, <1>2, <2>1, <2>2, <2>3, <2>5, <3>1, <3>2 DEF Accounted
  <2>9. Aligned(s)' /\ Current(s)'
    BY <1>0, <1>2, <2>2, <2>5 DEF Aligned, Current, Byte
  <2>10. Unstranded(s)'
    <3>1. SUFFICES ASSUME pc[s] = "idle"
                   PROVE  arrived[s] < ends'[s][Taken(s) + 1]
      BY <2>2, <2>4 DEF Unstranded
    <3>2. CASE Taken(s) = Len(ends[s])
      <4>1. ends'[s][Taken(s) + 1] = Written(s) + HEAD + n
        BY <2>2, <2>3, <3>2
      <4>2. arrived[s] <= Written(s)
        BY <1>0, <1>2 DEF Accounted
      <4>3. n \in Nat /\ HEAD \in Nat \ {0}
        OBVIOUS
      <4> QED BY <2>3, <4>1, <4>2, <4>3
    <3>3. CASE Taken(s) # Len(ends[s])
      <4>1. Taken(s) + 1 \in 1 .. Len(ends[s])
        BY <2>3, <2>4, <3>3
      <4>2. arrived[s] < ends[s][Taken(s) + 1]
        BY <1>0, <1>2, <3>1, <3>3 DEF Unstranded
      <4> QED BY <2>1, <4>1, <4>2
    <3> QED BY <3>2, <3>3
  <2> QED BY <1>2, <2>6, <2>7, <2>8, <2>9, <2>10
<1> QED BY <1>1, <1>2

\* A step of session s touches no other session's state, because no other
\* session uses its core.
LEMMA OtherSessions ==
  ASSUME OwnCores, IInv, NEW s \in Sessions, ReadSome(s) \/ Parse(s),
         NEW t \in Sessions, t # s
  PROVE  Framed(t)'
<1>1. CoreOf[t] # CoreOf[s] /\ CoreOf[t] \in Cores /\ CoreOf[s] \in Cores
  BY DEF OwnCores
<1>2. TypeOK /\ Framed(t)
  BY DEF IInv
<1>3. /\ ends'[t] = ends[t] /\ arrived'[t] = arrived[t] /\ pc'[t] = pc[t]
      /\ cq'[CoreOf[t]] = cq[CoreOf[t]] /\ dqs'[t] = dqs[t]
      /\ package'[t] = package[t] /\ got'[t] = got[t]
  <2>1. CASE ReadSome(s)
    BY <1>1, <1>2, <2>1 DEF ReadSome, Read, TypeOK
  <2>2. CASE Incomplete(s)
    BY <1>1, <1>2, <2>2 DEF Incomplete, TypeOK
  <2>3. CASE Take(s)
    BY <1>1, <1>2, <2>3 DEF Take, TypeOK
  <2>4. CASE Deliver(s)
    BY <1>1, <1>2, <2>4 DEF Deliver, TypeOK
  <2> QED BY <2>1, <2>2, <2>3, <2>4 DEF Parse
<1> QED BY <1>2, <1>3, FramedFrame

\* A buffer shorter than a head does not hold the packet after the first k.
LEMMA ShortBuffer ==
  ASSUME TypeOK, NEW s \in Sessions, Spaced(s),
         NEW k \in Nat, k <= Len(ends[s]), NEW m \in Nat, m < HEAD
  PROVE  k = Len(ends[s]) \/ Start(s, k + 1) + m < ends[s][k + 1]
<1> SUFFICES ASSUME k # Len(ends[s])
             PROVE  Start(s, k + 1) + m < ends[s][k + 1]
  OBVIOUS
<1>1. ends[s] \in Seq(Nat) /\ Len(ends[s]) \in Nat
  BY DEF TypeOK
<1>2. k + 1 \in 1 .. Len(ends[s]) + 1 /\ k + 2 \in 1 .. Len(ends[s]) + 1
  BY <1>1
<1>3. Start(s, k + 2) = ends[s][k + 1]
  BY <1>1 DEF Start
<1>4. Start(s, k + 1) \in Nat /\ Start(s, k + 2) \in Nat
  BY <1>2, StartType
<1>5. Start(s, k + 1) + HEAD <= Start(s, k + 2)
  BY <1>2 DEF Spaced
<1> QED BY <1>3, <1>4, <1>5

\* Appending a piece keeps the reader's session framed.
LEMMA ReadStep ==
  ASSUME IInv, NEW s \in Sessions, ReadSome(s)
  PROVE  Framed(s)'
<1> DEFINE q  == cq[CoreOf[s]]
           q1 == cq'[CoreOf[s]]
<1>1. /\ TypeOK /\ Spaced(s) /\ Intact(s) /\ Accounted(s) /\ Aligned(s)
  BY DEF IInv, Framed
<1>2. PICK n \in 1 .. (Written(s) - arrived[s]) : Read(s, n)
  BY DEF ReadSome
<1>3. /\ Written(s) \in Nat /\ arrived[s] \in Nat
      /\ ends[s] \in Seq(Nat) /\ Len(ends[s]) \in Nat
      /\ q \in Seq(Bytes) /\ Len(q) \in Nat
  BY <1>1, StartType DEF Written, TypeOK
<1>4. n \in Nat /\ n >= 1
  BY <1>2, <1>3
<1>5. /\ UNCHANGED <<ends, package, got>>
      /\ pc[s] = "idle" /\ arrived[s] + n <= Written(s)
      /\ arrived'[s] = arrived[s] + n
      /\ q1 = q \o Piece(s, n)
      /\ dqs'[s] = Len(q1)
      /\ pc'[s] = IF HEAD <= Len(q1) THEN "loop" ELSE "idle"
  BY <1>1, <1>2 DEF Read, push, TypeOK
<1>6. /\ Piece(s, n) \in Seq(Bytes) /\ Len(Piece(s, n)) = n
      /\ \A i \in 1 .. n : Piece(s, n)[i] = Byte(s, arrived[s] + i)
  BY <1>3, <1>4 DEF Piece, Byte, Bytes
<1>7. /\ Len(q1) = Len(q) + n
      /\ \A i \in 1 .. Len(q) : q1[i] = q[i]
      /\ \A i \in Len(q) + 1 .. Len(q) + n : q1[i] = Byte(s, arrived[s] + (i - Len(q)))
  <2>1. /\ Len(q1) = Len(q) + n
        /\ \A i \in 1 .. Len(q) : q1[i] = q[i]
        /\ \A i \in Len(q) + 1 .. Len(q) + n : q1[i] = Piece(s, n)[i - Len(q)]
    <3> HIDE DEF q, q1
    <3>1. /\ Len(q \o Piece(s, n)) = Len(q) + Len(Piece(s, n))
          /\ \A i \in 1 .. Len(q) : (q \o Piece(s, n))[i] = q[i]
          /\ \A i \in Len(q) + 1 .. Len(q) + Len(Piece(s, n)) :
               (q \o Piece(s, n))[i] = Piece(s, n)[i - Len(q)]
      BY <1>3, <1>6, ConcatIndex
    <3>2. q1 = q \o Piece(s, n) /\ Len(Piece(s, n)) = n
      BY <1>5, <1>6 DEF q, q1
    <3> QED BY <3>1, <3>2
  <2>2. \A i \in Len(q) + 1 .. Len(q) + n : i - Len(q) \in 1 .. n
    BY <1>3, <1>4
  <2> QED BY <1>6, <2>1, <2>2
<1>8. /\ \A k : Start(s, k)' = Start(s, k)
      /\ \A k : Packet(s, k)' = Packet(s, k)
      /\ Written(s)' = Written(s)
  BY <1>5 DEF Start, Packet, Size, Byte, Written
<1>9. /\ pc'[s] # "deliver" /\ Taken(s) \in Nat /\ Taken(s)' = Taken(s)
      /\ Taken(s) <= Len(ends[s])
  BY <1>1, <1>5, TakenType DEF Taken, Intact
<1>10. Base(s)' = Base(s) /\ Base(s) \in Nat
  BY <1>1, <1>3, <1>8, <1>9, StartType DEF Base
<1>11. Base(s) + Len(q) = arrived[s]
  BY <1>1 DEF Accounted
<1>12. Spaced(s)'
  BY <1>1, <1>5, <1>8 DEF Spaced
<1>13. Intact(s)'
  BY <1>1, <1>5, <1>8, <1>9 DEF Intact
<1>14. Accounted(s)'
  BY <1>3, <1>4, <1>5, <1>7, <1>8, <1>10, <1>11 DEF Accounted
<1>15. Aligned(s)'
  <2>1. SUFFICES ASSUME NEW i \in 1 .. Len(q) + n
                 PROVE  q1[i] = Byte(s, Base(s) + i)
    BY <1>7, <1>10 DEF Aligned, Byte
  <2>2. CASE i <= Len(q)
    <3>1. i \in 1 .. Len(q)
      BY <1>3, <1>4, <2>2
    <3> QED BY <1>1, <1>7, <3>1 DEF Aligned
  <2>3. CASE ~ (i <= Len(q))
    <3>1. i \in Len(q) + 1 .. Len(q) + n
      BY <1>3, <1>4, <2>3
    <3>2. arrived[s] + (i - Len(q)) = Base(s) + i
      BY <1>3, <1>4, <1>10, <1>11
    <3> QED BY <1>7, <3>1, <3>2
  <2> QED BY <2>2, <2>3
<1>16. Current(s)'
  BY <1>5, <1>9 DEF Current
<1>17. Unstranded(s)'
  <2>1. SUFFICES ASSUME ~ (HEAD <= Len(q1))
                 PROVE  \/ Taken(s) = Len(ends[s])
                        \/ arrived[s] + n < ends[s][Taken(s) + 1]
    BY <1>5, <1>9 DEF Unstranded
  <2>2. Len(q1) \in Nat /\ Len(q1) < HEAD /\ Base(s) + Len(q1) = arrived[s] + n
    BY <1>3, <1>4, <1>7, <1>10, <1>11, <2>1
  <2>3. \/ Taken(s) = Len(ends[s])
        \/ Start(s, Taken(s) + 1) + Len(q1) < ends[s][Taken(s) + 1]
    BY <1>1, <1>9, <2>2, ShortBuffer
  <2> QED BY <2>2, <2>3 DEF Base
<1> QED BY <1>12, <1>13, <1>14, <1>15, <1>16, <1>17 DEF Framed

\* parse returning for want of bytes keeps s framed: none was complete.
LEMMA IncompleteStep ==
  ASSUME IInv, NEW s \in Sessions, Incomplete(s)
  PROVE  Framed(s)'
<1>1. TypeOK /\ Framed(s)
  BY DEF IInv
<1>2. /\ pc[s] = "loop" /\ pc'[s] = "idle"
      /\ UNCHANGED <<ends, arrived, cq, dqs, package, got>>
  BY <1>1 DEF Incomplete, TypeOK
<1>3. /\ Taken(s) + 1 \in 1 .. Len(ends[s])
      /\ dqs[s] < Size(s, Taken(s) + 1)
  BY <1>2, HeadIsNext DEF Incomplete
<1>4. /\ \A k : Start(s, k)' = Start(s, k)
      /\ \A k : Packet(s, k)' = Packet(s, k)
      /\ Written(s)' = Written(s)
  BY <1>2 DEF Start, Packet, Size, Byte, Written
<1>5. Taken(s)' = Taken(s) /\ Base(s)' = Base(s)
  BY <1>2, <1>4 DEF Taken, Base
<1>6. Spaced(s)' /\ Intact(s)' /\ Accounted(s)' /\ Aligned(s)' /\ Current(s)'
  <2>1. Spaced(s)' /\ Accounted(s)'
    BY <1>1, <1>2, <1>4, <1>5 DEF Framed, Spaced, Accounted
  <2>2. Intact(s)' /\ Aligned(s)' /\ Current(s)'
    BY <1>1, <1>2, <1>4, <1>5 DEF Framed, Intact, Aligned, Current, Byte
  <2> QED BY <2>1, <2>2
<1>7. arrived[s] < ends[s][Taken(s) + 1]
  <2>1. /\ Base(s) + dqs[s] = arrived[s]
    BY <1>1, <1>2 DEF Framed, Accounted, Current
  <2>2. dqs[s] < ends[s][Taken(s) + 1] - Base(s)
    BY <1>3 DEF Size, Base
  <2>3. /\ ends[s] \in Seq(Nat) /\ dqs[s] \in Nat /\ Len(ends[s]) \in Nat
    BY <1>1 DEF TypeOK
  <2>4. Base(s) \in Nat
    BY <1>1, <1>3, <2>3, StartType DEF Base
  <2>5. ends[s][Taken(s) + 1] \in Nat
    BY <1>3, <2>3
  <2> QED BY <2>1, <2>2, <2>3, <2>4, <2>5
<1>8. Unstranded(s)'
  BY <1>2, <1>5, <1>7 DEF Unstranded
<1> QED BY <1>6, <1>8 DEF Framed

\* Copying out and removing the packet in front keeps s framed.
LEMMA TakeStep ==
  ASSUME IInv, NEW s \in Sessions, Take(s)
  PROVE  Framed(s)'
<1> DEFINE q  == cq[CoreOf[s]]
           q1 == cq'[CoreOf[s]]
           k  == Taken(s) + 1
           z  == Size(s, k)
<1>1. TypeOK /\ Spaced(s) /\ Intact(s) /\ Accounted(s) /\ Aligned(s) /\ Current(s)
  BY DEF IInv, Framed
<1>2. /\ pc[s] = "loop" /\ pc'[s] = "deliver"
      /\ UNCHANGED <<ends, arrived, got>>
  BY <1>1 DEF Take, TypeOK
<1>3. k \in 1 .. Len(ends[s]) /\ SizeField(q) = {z}
  BY <1>2, HeadIsNext
<1>4. /\ z <= dqs[s] /\ dqs[s] = Len(q) /\ dqs'[s] = Len(q1)
      /\ package'[s] = front_copyto(q, z)
      /\ q1 = pop(q, z)
  BY <1>1, <1>2, <1>3 DEF Take, TypeOK, Current
<1>5. /\ ends[s] \in Seq(Nat) /\ Len(ends[s]) \in Nat
      /\ q \in Seq(Bytes) /\ Len(q) \in Nat /\ arrived[s] \in Nat
  BY <1>1 DEF TypeOK
<1>6. /\ Start(s, k) \in Nat /\ Start(s, k + 1) \in Nat /\ Start(s, k + 1) = ends[s][k]
      /\ Start(s, k) + HEAD <= Start(s, k + 1)
  <2>1. k \in 1 .. Len(ends[s]) + 1 /\ k + 1 \in 1 .. Len(ends[s]) + 1
    BY <1>3, <1>5
  <2>2. Start(s, k + 1) = ends[s][k]
    BY <1>3, <1>5 DEF Start
  <2> QED BY <1>1, <1>3, <2>1, <2>2, StartType DEF Spaced
<1>7. z \in Nat /\ 0 < z /\ z <= Len(q) /\ Start(s, k) + z = Start(s, k + 1)
  <2>1. z = Start(s, k + 1) - Start(s, k)
    BY <1>6 DEF Size
  <2>2. z <= Len(q)
    BY <1>4
  <2>3. HEAD \in Nat \ {0}
    OBVIOUS
  <2> HIDE DEF z, k, q
  <2> QED BY <1>5, <1>6, <2>1, <2>2, <2>3
<1>8. /\ package'[s] = SubSeq(q, 1, z)
      /\ q1 = SubSeq(q, z + 1, Len(q))
  BY <1>4, <1>7 DEF Holds, front_copyto, pop
<1>9. /\ Len(q1) = Len(q) - z
      /\ \A i \in 1 .. Len(q) - z : q1[i] = q[z + i]
  <2> HIDE DEF z, q, q1
  <2> QED BY <1>5, <1>7, <1>8, SubSeqIndex
<1>10. package'[s] = [i \in 1 .. z |-> q[i]]
  <2> HIDE DEF z, q, q1
  <2> QED BY <1>5, <1>7, <1>8, SubSeqIndex
<1>11. /\ \A j : Start(s, j)' = Start(s, j)
       /\ \A j : Packet(s, j)' = Packet(s, j)
       /\ Written(s)' = Written(s)
  BY <1>2 DEF Start, Packet, Size, Byte, Written
<1>12. Taken(s) = Len(got[s]) /\ Taken(s) \in Nat /\ Taken(s)' = k
  BY <1>1, <1>2, TakenType DEF Taken
<1>13. Base(s) = Start(s, k) /\ Base(s)' = Start(s, k + 1)
  BY <1>11, <1>12 DEF Base
<1>14. Spaced(s)'
  BY <1>1, <1>2, <1>11 DEF Spaced
<1>15. Intact(s)'
  <2>1. package'[s] = Packet(s, k)
    <3>1. \A i \in 1 .. z : q[i] = Byte(s, Start(s, k) + i)
      BY <1>1, <1>5, <1>7, <1>13 DEF Aligned
    <3> QED BY <1>10, <3>1 DEF Packet
  <2> QED BY <1>1, <1>2, <1>3, <1>11, <1>12, <2>1 DEF Intact
<1>16. Accounted(s)'
  <2>1. Base(s) + Len(q) = arrived[s] /\ arrived[s] <= Written(s)
    BY <1>1 DEF Accounted
  <2>2. Start(s, k + 1) + Len(q1) = arrived[s]
    BY <1>5, <1>6, <1>7, <1>9, <1>13, <2>1
  <2> QED BY <1>2, <1>11, <1>13, <2>1, <2>2 DEF Accounted
<1>17. Aligned(s)'
  <2>1. SUFFICES ASSUME NEW i \in 1 .. Len(q1)
                 PROVE  q1[i] = Byte(s, Start(s, k + 1) + i)
    BY <1>13 DEF Aligned, Byte
  <2>2. z + i \in 1 .. Len(q) /\ Start(s, k) + (z + i) = Start(s, k + 1) + i
    <3>1. i \in 1 .. Len(q) - z
      BY <1>9, <2>1
    <3>2. z \in Nat /\ Len(q) \in Nat /\ Start(s, k) \in Nat
      BY <1>5, <1>6, <1>7
    <3>3. Start(s, k + 1) = Start(s, k) + z
      BY <1>7
    <3> HIDE DEF z, q, q1
    <3>4. z + i \in 1 .. Len(q)
      BY <3>1, <3>2
    <3>5. Start(s, k) + (z + i) = (Start(s, k) + z) + i
      BY <3>1, <3>2
    <3> QED BY <3>3, <3>4, <3>5
  <2>3. q1[i] = q[z + i]
    BY <1>9, <2>1
  <2> QED BY <1>1, <1>13, <2>2, <2>3 DEF Aligned
<1>18. Current(s)' /\ Unstranded(s)'
  BY <1>2, <1>4 DEF Current, Unstranded
<1> QED BY <1>14, <1>15, <1>16, <1>17, <1>18 DEF Framed

\* The callback, and the choice to go on or return, keep s framed.
LEMMA DeliverStep ==
  ASSUME IInv, NEW s \in Sessions, Deliver(s)
  PROVE  Framed(s)'
<1> DEFINE q == cq[CoreOf[s]]
<1>1. TypeOK /\ Spaced(s) /\ Intact(s) /\ Accounted(s) /\ Aligned(s) /\ Current(s)
  BY DEF IInv, Framed
<1>2. /\ pc[s] = "deliver" /\ UNCHANGED <<ends, arrived, cq, dqs>>
      /\ got'[s] = Append(got[s], package[s])
      /\ pc'[s] = IF HEAD <= dqs[s] THEN "loop" ELSE "idle"
  BY <1>1 DEF Deliver, TypeOK
<1>3. /\ got[s] \in Seq(Seq(Bytes)) /\ package[s] \in Seq(Bytes)
      /\ Len(got[s]) \in Nat /\ dqs[s] \in Nat /\ dqs[s] = Len(q)
      /\ ends[s] \in Seq(Nat) /\ Len(ends[s]) \in Nat
  BY <1>1, <1>2 DEF TypeOK, Current
<1>4. /\ \A j : Start(s, j)' = Start(s, j)
      /\ \A j : Packet(s, j)' = Packet(s, j)
      /\ Written(s)' = Written(s)
  BY <1>2 DEF Start, Packet, Size, Byte, Written
<1>5. /\ pc'[s] # "deliver"
      /\ Len(got'[s]) = Len(got[s]) + 1
      /\ got'[s][Len(got[s]) + 1] = package[s]
      /\ \A j \in 1 .. Len(got[s]) : got'[s][j] = got[s][j]
  BY <1>2, <1>3
<1>6. Taken(s) = Len(got[s]) + 1 /\ Taken(s) <= Len(ends[s]) /\ Taken(s)' = Taken(s)
  <2>1. Taken(s)' = Len(got'[s]) + 0
    BY <1>5 DEF Taken
  <2> QED BY <1>1, <1>2, <1>3, <1>5, <2>1, TakenType DEF Intact
<1>7. Base(s)' = Base(s)
  BY <1>4, <1>6 DEF Base
<1>8. Spaced(s)'
  BY <1>1, <1>2, <1>4 DEF Spaced
<1>9. Intact(s)'
  <2>1. package[s] = Packet(s, Len(got[s]) + 1)
    BY <1>1, <1>2, <1>6 DEF Intact
  <2>2. \A j \in 1 .. Len(got[s]) : got[s][j] = Packet(s, j)
    BY <1>1 DEF Intact
  <2>3. \A j \in 1 .. Len(got'[s]) : got'[s][j] = Packet(s, j)
    <3> SUFFICES ASSUME NEW j \in 1 .. Len(got'[s])
                 PROVE  got'[s][j] = Packet(s, j)
      OBVIOUS
    <3>1. CASE j = Len(got[s]) + 1
      BY <1>5, <2>1, <3>1
    <3>2. CASE j # Len(got[s]) + 1
      <4>1. j \in 1 .. Len(got[s])
        BY <1>3, <1>5, <3>2
      <4> QED BY <1>5, <2>2, <4>1
    <3> QED BY <3>1, <3>2
  <2> QED BY <1>2, <1>4, <1>5, <1>6, <2>3 DEF Intact
<1>10. Accounted(s)' /\ Aligned(s)'
  BY <1>1, <1>2, <1>4, <1>7 DEF Accounted, Aligned, Byte
<1>11. Current(s)'
  BY <1>2, <1>3, <1>5 DEF Current
<1>12. Unstranded(s)'
  <2>1. SUFFICES ASSUME ~ (HEAD <= dqs[s])
                 PROVE  \/ Taken(s) = Len(ends[s])
                        \/ arrived[s] < ends[s][Taken(s) + 1]
    BY <1>2, <1>6 DEF Unstranded
  <2>2. Base(s) + dqs[s] = arrived[s]
    BY <1>1, <1>3 DEF Accounted
  <2>3. Taken(s) \in Nat /\ dqs[s] < HEAD
    BY <1>3, <1>6, <2>1
  <2>4. \/ Taken(s) = Len(ends[s])
        \/ Start(s, Taken(s) + 1) + dqs[s] < ends[s][Taken(s) + 1]
    BY <1>1, <1>3, <1>6, <2>3, ShortBuffer
  <2> QED BY <2>2, <2>4 DEF Base
<1> QED BY <1>8, <1>9, <1>10, <1>11, <1>12 DEF Framed

\* Every step keeps the inductive invariant when no core is shared.
LEMMA IInvStep ==
  ASSUME OwnCores, IInv, [Next]_vars
  PROVE  IInv'
<1>1. TypeOK'
  BY TypeStep DEF IInv
<1>2. ASSUME NEW t \in Sessions PROVE Framed(t)'
  <2>1. ASSUME NEW s \in Sessions, SendSome(s) PROVE Framed(t)'
    BY <2>1, SendStep DEF SendSome
  <2>2. ASSUME NEW s \in Sessions, ReadSome(s) PROVE Framed(t)'
    BY <2>2, ReadStep, OtherSessions
  <2>3. ASSUME NEW s \in Sessions, Parse(s) PROVE Framed(t)'
    BY <2>3, IncompleteStep, TakeStep, DeliverStep, OtherSessions DEF Parse
  <2>4. CASE UNCHANGED vars
    BY <2>4, FramedFrame DEF vars, IInv
  <2> QED BY <2>1, <2>2, <2>3, <2>4 DEF Next
<1> QED BY <1>1, <1>2 DEF IInv

\* It holds initially.
LEMMA IInvInit == Init => IInv
<1> SUFFICES ASSUME Init PROVE IInv
  OBVIOUS
<1>1. TypeOK
  BY DEF Init, TypeOK
<1>2. ASSUME NEW s \in Sessions PROVE Framed(s)
  <2>1. /\ ends[s] = << >> /\ arrived[s] = 0 /\ cq[CoreOf[s]] = << >>
        /\ pc[s] = "idle" /\ got[s] = << >>
    BY DEF Init
  <2>2. Taken(s) = 0
    BY <2>1 DEF Taken
  <2>3. Start(s, 1) = 0
    BY DEF Start
  <2>4. Spaced(s) /\ Intact(s)
    BY <2>1, <2>2 DEF Spaced, Intact
  <2>5. Accounted(s) /\ Aligned(s)
    BY <2>1, <2>2, <2>3 DEF Accounted, Aligned, Base, Written
  <2>6. Current(s) /\ Unstranded(s)
    BY <2>1, <2>2 DEF Current, Unstranded
  <2> QED BY <2>4, <2>5, <2>6 DEF Framed
<1> QED BY <1>1, <1>2 DEF IInv

\* Clients and nanomsg sockets (no shared core): parse hands out exactly the
\* packets sent, whole and in order, however the bytes were cut up.
THEOREM FramingCorrect == ASSUME OwnCores PROVE Spec => []PacketsIntact
<1>1. IInv /\ [Next]_vars => IInv'
  BY IInvStep
<1> QED BY <1>1, IInvInit, IInvImplies, PTL DEF Spec

\* Clients and nanomsg sockets: the length parse kept from before it gave up
\* the lock is still right when it is compared with the head.
THEOREM LengthStaysCurrent == ASSUME OwnCores PROVE Spec => []LengthCurrent
<1>1. IInv /\ [Next]_vars => IInv'
  BY IInvStep
<1> QED BY <1>1, IInvInit, IInvImplies, PTL DEF Spec

\* Clients and nanomsg sockets: parse never returns with a complete packet
\* still in the buffer.
THEOREM NoPacketStranded == ASSUME OwnCores PROVE Spec => []NothingStranded
<1>1. IInv /\ [Next]_vars => IInv'
  BY IInvStep
<1> QED BY <1>1, IInvInit, IInvImplies, PTL DEF Spec

-----------------------------------------------------------------------------
(* The packet stream an application sees: send is a Send, the callback is a *)
(* Receive, reading and taking a packet off the buffer are invisible.       *)

Sent(s)  == [k \in 1 .. Len(ends[s]) |-> Packet(s, k)]
SentMap  == [s \in Sessions |-> Sent(s)]

\* The packets of a session form a sequence as long as ends.
LEMMA SentSeq ==
  ASSUME TypeOK, NEW s \in Sessions
  PROVE  /\ Sent(s) \in Seq({Packet(s, k) : k \in 1 .. Len(ends[s])})
         /\ Len(Sent(s)) = Len(ends[s])
<1>1. Len(ends[s]) \in Nat
  BY DEF TypeOK
<1> QED BY <1>1 DEF Sent

\* Every step of the framing is a step of the packet stream or changes nothing there.
LEMMA StreamStep ==
  ASSUME OwnCores, IInv, [Next]_vars
  PROVE  [Stream!Next]_(Stream!vars)
<1>1. TypeOK
  BY DEF IInv
<1>2. ASSUME NEW s \in Sessions, NEW n \in BodySizes, Send(s, n)
      PROVE  Stream!Send(s)
  <2>1. TypeOK'
    BY <1>1, <1>2, TypeStep DEF Next, SendSome
  <2>2. /\ Written(s) \in Nat /\ ends[s] \in Seq(Nat) /\ Len(ends[s]) \in Nat
    BY <1>1, StartType DEF Written, TypeOK
  <2>3. ends'[s] = Append(ends[s], Written(s) + HEAD + n)
    BY <1>1, <1>2 DEF Send, TypeOK
  <2>4. PICK m \in Nat : m = Len(ends[s]) /\ Len(ends'[s]) = m + 1
    BY <2>2, <2>3
  <2>5. ASSUME NEW t \in Sessions, t # s PROVE Sent(t)' = Sent(t)
    BY <1>1, <1>2, <2>5, SendKeepsPackets DEF Sent
  <2>6. \A k \in 1 .. m : Packet(s, k)' = Packet(s, k)
    BY <1>1, <1>2, <2>4, SendKeepsPackets
  <2>7. /\ Sent(s)  = [k \in 1 .. m |-> Sent(s)[k]]
        /\ Sent(s)' = [k \in 1 .. m + 1 |-> Sent(s)'[k]]
    BY <2>4 DEF Sent
  <2>8. \A k \in 1 .. m : Sent(s)'[k] = Sent(s)[k]
    BY <2>4, <2>6 DEF Sent
  <2>9. /\ Len(Sent(s)) = m /\ Len(Sent(s)') = m + 1
        /\ Sent(s)' = Append(Sent(s), Sent(s)'[m + 1])
    <3> DEFINE a == Sent(s)
               b == Sent(s)'
    <3>1. /\ a = [k \in 1 .. m |-> a[k]] /\ b = [k \in 1 .. m + 1 |-> b[k]]
          /\ \A k \in 1 .. m : b[k] = a[k]
      BY <2>7, <2>8
    <3> HIDE DEF a, b
    <3>2. Len(a) = m /\ Len(b) = m + 1 /\ b = Append(a, b[m + 1])
      BY <3>1, AppendEqual
    <3> QED BY <3>2 DEF a, b
  <2>10. SentMap' = [SentMap EXCEPT ![s] = Append(@, Sent(s)'[Len(Sent(s)) + 1])]
    BY <2>5, <2>9 DEF SentMap
  <2>11. UNCHANGED got
    BY <1>2 DEF Send
  <2>12. SentMap'[s] = Sent(s)' /\ SentMap[s] = Sent(s)
    BY DEF SentMap
  <2> QED BY <2>9, <2>10, <2>11, <2>12 DEF Stream!Send, SentMap, Sent
<1>3. ASSUME NEW s \in Sessions, Deliver(s) PROVE Stream!Receive(s)
  <2>1. /\ got' = [got EXCEPT ![s] = Append(@, package[s])]
        /\ pc[s] = "deliver" /\ ends' = ends
    BY <1>3 DEF Deliver
  <2>2. /\ Len(got[s]) \in Nat
        /\ Taken(s) = Len(got[s]) + 1 /\ Taken(s) <= Len(ends[s])
        /\ package[s] = Packet(s, Len(got[s]) + 1)
    BY <1>1, <2>1, TakenType DEF IInv, Framed, Intact
  <2>3. Len(ends[s]) \in Nat /\ Len(Sent(s)) = Len(ends[s])
    <3>1. Len(ends[s]) \in Nat
      BY <1>1 DEF TypeOK
    <3> QED BY <1>1, <3>1, SentSeq
  <2>4. Len(got[s]) < Len(Sent(s)) /\ package[s] = Sent(s)[Len(got[s]) + 1]
    BY <2>2, <2>3 DEF Sent
  <2>5. SentMap' = SentMap /\ SentMap[s] = Sent(s)
    BY <2>1 DEF SentMap, Sent, Packet, Size, Start, Byte
  <2> QED BY <2>1, <2>4, <2>5 DEF Stream!Receive, SentMap, Sent
<1>4. ASSUME UNCHANGED <<ends, got>> PROVE UNCHANGED Stream!vars
  BY <1>4 DEF Stream!vars, Packet, Size, Start, Byte
<1>5. ASSUME NEW s \in Sessions, ReadSome(s) PROVE UNCHANGED Stream!vars
  BY <1>4, <1>5 DEF ReadSome, Read
<1>6. ASSUME NEW s \in Sessions, Incomplete(s) \/ Take(s)
      PROVE  UNCHANGED Stream!vars
  BY <1>4, <1>6 DEF Incomplete, Take
<1>7. CASE UNCHANGED vars
  BY <1>4, <1>7 DEF vars
<1> QED BY <1>2, <1>3, <1>5, <1>6, <1>7 DEF Next, SendSome, Parse, Stream!Next

\* Clients and nanomsg sockets implement the packet stream: send, arbitrary
\* cutting, buffering and parse together behave as one queue of packets.
THEOREM ImplementsPacketStream == ASSUME OwnCores PROVE Spec => ImplementsStream
<1>1. Init => Stream!Init
  BY DEF Init, Stream!Init
<1>2. IInv /\ [Next]_vars => IInv'
  BY IInvStep
<1>3. IInv /\ [Next]_vars => [Stream!Next]_(Stream!vars)
  BY StreamStep
<1> QED BY <1>1, <1>2, <1>3, IInvInit, PTL DEF Spec, ImplementsStream, Stream!Spec
=============================================================================
