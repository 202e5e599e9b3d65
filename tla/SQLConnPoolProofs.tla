------------------------- MODULE SQLConnPoolProofs -------------------------
(***************************************************************************)
(* Proofs about SQLConnPool, for any threads, connections and limit.       *)
(*                                                                         *)
(* WithinMax alone is not inductive: that recycleConnection takes away     *)
(* from one list what it adds to the other needs Partition, and counting   *)
(* needs the borrowed connections to be finitely many.                     *)
(***************************************************************************)
EXTENDS SQLConnPool, ListProofs, FiniteSetTheorems, TLAPS

USE ConnAssumption, MaxAssumption

\* The part of Partition about the threads, and what holds of hold.
Held ==
  /\ working = {hold[t] : t \in Borrowers}
  /\ \A t, u \in Borrowers : hold[t] = hold[u] => t = u
  /\ \A t \in Borrowers : hold[t] \in Conns

\* The part of Partition about the lists.
Listed ==
  /\ \A i, j \in 1 .. Len(work) : work[i] = work[j] => i = j
  /\ Contents(work) \cap working = {}
  /\ alloc = Contents(work) \cup working

\* The inductive invariant.
PoolInv ==
  /\ TypeOK /\ Held /\ Listed
  /\ IsFiniteSet(working) /\ WithinMax
  /\ closed \subseteq alloc

\* The two halves and the rest of the invariant give Partition.
LEMMA PoolInvPartition == PoolInv => Partition
BY DEF PoolInv, Held, Listed, Partition

\* Opening connections marks no other as down or without schema.
LEMMA OpenedBounds ==
  ASSUME NEW new, NEW cl, NEW un, Opened(new, cl, un)
  PROVE  /\ closed' \subseteq cl \cup new /\ unset' \subseteq un \cup new
         /\ closed' \subseteq cl \cup unset'
BY DEF Opened

-----------------------------------------------------------------------------
(* The threads' side of each operation.                                     *)

\* A thread that has none borrows c, which nobody has.
LEMMA BorrowHeld ==
  ASSUME PoolInv, NEW t \in Threads, Free(t), NEW c \in Conns, c \notin working,
         Borrow(t, c)
  PROVE  /\ Held' /\ working' = working \cup {c} /\ working' \subseteq Conns
         /\ hold' \in [Threads -> Conns \cup {NoConn}]
         /\ status' \in [Threads -> Statuses]
         /\ IsFiniteSet(working')
         /\ Cardinality(working') = Cardinality(working) + 1
         /\ Cardinality(working) \in Nat
<1> USE DEF PoolInv
<1>1. /\ working' = working \cup {c}
      /\ hold' = [hold EXCEPT ![t] = c]
      /\ status' = [status EXCEPT ![t] = "using"]
  BY DEF Borrow
<1>2. /\ hold' \in [Threads -> Conns \cup {NoConn}]
      /\ status' \in [Threads -> Statuses]
      /\ working' \subseteq Conns
  BY <1>1 DEF TypeOK, Statuses
<1>3. t \notin Borrowers
  BY DEF Free, Borrowers
<1>4. Borrowers' = Borrowers \cup {t}
  BY <1>1 DEF Borrowers, TypeOK
<1>5. hold'[t] = c /\ \A u \in Borrowers : hold'[u] = hold[u] /\ hold[u] # c
  BY <1>1, <1>3 DEF TypeOK, Borrowers, Held
<1>6. {hold'[u] : u \in Borrowers'} = working \cup {c}
  BY <1>4, <1>5 DEF Held
<1>7. \A u, v \in Borrowers' : hold'[u] = hold'[v] => u = v
  BY <1>4, <1>5 DEF Held
<1>8. \A u \in Borrowers' : hold'[u] \in Conns
  BY <1>4, <1>5 DEF Held
<1>9. Held'
  BY <1>1, <1>6, <1>7, <1>8 DEF Held
<1>10. /\ IsFiniteSet(working')
       /\ Cardinality(working') = Cardinality(working) + 1
       /\ Cardinality(working) \in Nat
  BY <1>1, FS_AddElement, FS_CardinalityType
<1> QED BY <1>1, <1>2, <1>9, <1>10

\* A thread that has none gets NULL.
LEMMA RefuseHeld ==
  ASSUME PoolInv, NEW t \in Threads, Free(t), NEW why \in {"down", "busy"},
         Refuse(t, why)
  PROVE  /\ Held' /\ working' = working
         /\ hold' \in [Threads -> Conns \cup {NoConn}]
         /\ status' \in [Threads -> Statuses]
<1> USE DEF PoolInv
<1>1. /\ working' = working
      /\ hold' = [hold EXCEPT ![t] = NoConn]
      /\ status' = [status EXCEPT ![t] = why]
  BY DEF Refuse
<1>2. t \notin Borrowers
  BY DEF Free, Borrowers
<1>3. Borrowers' = Borrowers
  BY <1>1, <1>2 DEF Borrowers, TypeOK
<1>4. \A u \in Borrowers : hold'[u] = hold[u]
  BY <1>1, <1>2 DEF Borrowers, TypeOK
<1>5. Held'
  BY <1>1, <1>3, <1>4 DEF Held
<1> QED BY <1>1, <1>5 DEF TypeOK, Statuses

\* A thread gives its connection back.
LEMMA ReturnHeld ==
  ASSUME PoolInv, NEW t \in Threads, status[t] = "using", Recycle(hold[t]),
         NEW h \in Conns \cup {NoConn}, NEW next \in {"out", "ending"},
         hold' = [hold EXCEPT ![t] = h], status' = [status EXCEPT ![t] = next]
  PROVE  /\ Held' /\ hold[t] \in working /\ working' = working \ {hold[t]}
         /\ hold' \in [Threads -> Conns \cup {NoConn}]
         /\ status' \in [Threads -> Statuses]
<1> USE DEF PoolInv
<1>1. working' = working \ {hold[t]}
  BY DEF Recycle
<1>2. t \in Borrowers /\ hold[t] \in working
  BY DEF Borrowers, Held
<1>3. Borrowers' = Borrowers \ {t}
  BY DEF Borrowers, TypeOK
<1>4. \A u \in Borrowers' : hold'[u] = hold[u] /\ hold[u] # hold[t]
  BY <1>2, <1>3 DEF Borrowers, TypeOK, Held
<1>5. {hold'[u] : u \in Borrowers'} = working'
  BY <1>1, <1>2, <1>3, <1>4 DEF Held
<1>6. \A u, v \in Borrowers' : hold'[u] = hold'[v] => u = v
  BY <1>3, <1>4 DEF Held
<1>7. \A u \in Borrowers' : hold'[u] \in Conns
  BY <1>3, <1>4 DEF Held
<1>8. Held'
  BY <1>5, <1>6, <1>7 DEF Held
<1> QED BY <1>1, <1>2, <1>8 DEF TypeOK, Statuses

-----------------------------------------------------------------------------
(* One lemma per operation.                                                 *)

\* The idle connection in front, and the list without it.
LEMMA Front ==
  ASSUME PoolInv, work # << >>
  PROVE  /\ Head(work) \in Conns /\ Head(work) \in Contents(work)
         /\ Head(work) \notin working
         /\ Tail(work) \in Seq(Conns)
         /\ Len(Tail(work)) = Len(work) - 1 /\ Len(work) \in Nat
         /\ Contents(Tail(work)) = Contents(work) \ {Head(work)}
         /\ \A i, j \in 1 .. Len(Tail(work)) : Tail(work)[i] = Tail(work)[j] => i = j
<1>1. work \in Seq(Conns) /\ Len(work) \in Nat /\ Len(Tail(work)) = Len(work) - 1
  BY DEF PoolInv, TypeOK
<1>2. \A i, j \in 1 .. Len(work) : work[i] = work[j] => i = j
  BY DEF PoolInv, Listed
<1>3. /\ Head(work) \in Conns /\ Head(work) \in Contents(work)
      /\ Tail(work) \in Seq(Conns)
      /\ Contents(Tail(work)) = Contents(work) \ {Head(work)}
      /\ \A i, j \in 1 .. Len(Tail(work)) : Tail(work)[i] = Tail(work)[j] => i = j
  BY <1>1, <1>2, HeadContents
<1>4. Head(work) \notin working
  BY <1>3 DEF PoolInv, Listed
<1> QED BY <1>1, <1>3, <1>4

\* getConnection hands out the open connection in front.
LEMMA ReuseStep ==
  ASSUME PoolInv, NEW t \in Threads, Reuse(t)
  PROVE  PoolInv'
<1> DEFINE c == Head(work)
<1>1. /\ Free(t) /\ work # << >> /\ c \notin closed /\ work' = Tail(work)
      /\ Borrow(t, c) /\ created' = created /\ alloc' = alloc
      /\ closed' = closed /\ unset' = unset
  BY DEF Reuse
<1>2. /\ c \in Conns /\ c \in Contents(work) /\ c \notin working
      /\ work' \in Seq(Conns) /\ Len(work') = Len(work) - 1 /\ Len(work) \in Nat
      /\ Contents(work') = Contents(work) \ {c}
      /\ \A i, j \in 1 .. Len(work') : work'[i] = work'[j] => i = j
  BY <1>1, Front
<1> HIDE DEF c
<1>3. /\ Held' /\ working' = working \cup {c} /\ working' \subseteq Conns
      /\ hold' \in [Threads -> Conns \cup {NoConn}]
      /\ status' \in [Threads -> Statuses]
      /\ IsFiniteSet(working')
      /\ Cardinality(working') = Cardinality(working) + 1
      /\ Cardinality(working) \in Nat
  BY <1>1, <1>2, BorrowHeld
<1>4. TypeOK'
  BY <1>1, <1>2, <1>3 DEF TypeOK, PoolInv
<1>5. Listed'
  <2>1. Contents(work)' = Contents(work')
    BY DEF Contents
  <2> QED BY <1>1, <1>2, <1>3, <2>1 DEF Listed, PoolInv
<1>6. WithinMax'
  BY <1>2, <1>3 DEF WithinMax, PoolInv
<1> QED BY <1>1, <1>3, <1>4, <1>5, <1>6 DEF PoolInv

\* getConnection deletes the closed connection in front and opens another.
LEMMA ReplaceStep ==
  ASSUME PoolInv, NEW t \in Threads, Replace(t)
  PROVE  PoolInv'
<1> DEFINE d == Head(work)
<1>1. /\ Free(t) /\ work # << >> /\ work' = Tail(work)
      /\ created' = created
  BY DEF Replace
<1>2. PICK c \in Conns \ (alloc \ {d}) :
        /\ alloc' = (alloc \ {d}) \cup {c} /\ Borrow(t, c)
        /\ Opened({c}, closed \ {d}, unset \ {d})
  BY DEF Replace
<1>3. /\ d \in Conns /\ d \in Contents(work) /\ d \notin working
      /\ work' \in Seq(Conns) /\ Len(work') = Len(work) - 1 /\ Len(work) \in Nat
      /\ Contents(work') = Contents(work) \ {d}
      /\ \A i, j \in 1 .. Len(work') : work'[i] = work'[j] => i = j
  BY <1>1, Front
<1> HIDE DEF d
<1>4. c \notin working /\ c \notin Contents(work')
  BY <1>2, <1>3 DEF PoolInv, Listed
<1>5. /\ Held' /\ working' = working \cup {c} /\ working' \subseteq Conns
      /\ hold' \in [Threads -> Conns \cup {NoConn}]
      /\ status' \in [Threads -> Statuses]
      /\ IsFiniteSet(working')
      /\ Cardinality(working') = Cardinality(working) + 1
      /\ Cardinality(working) \in Nat
  BY <1>1, <1>2, <1>4, BorrowHeld
<1>6. /\ closed' \subseteq (closed \ {d}) \cup {c}
       /\ unset' \subseteq (unset \ {d}) \cup {c}
  BY <1>2, OpenedBounds
<1>7. TypeOK'
  BY <1>1, <1>2, <1>3, <1>5, <1>6 DEF TypeOK, PoolInv
<1>8. Listed'
  <2>1. Contents(work)' = Contents(work')
    BY DEF Contents
  <2> QED BY <1>2, <1>3, <1>4, <1>5, <2>1 DEF Listed, PoolInv
<1>9. WithinMax'
  BY <1>3, <1>5 DEF WithinMax, PoolInv
<1>10. closed' \subseteq alloc'
  BY <1>2, <1>6 DEF PoolInv
<1> QED BY <1>5, <1>7, <1>8, <1>9, <1>10 DEF PoolInv

\* getConnection deletes the closed connection and the server refuses another.
LEMMA ReplaceFailsStep ==
  ASSUME PoolInv, NEW t \in Threads, ReplaceFails(t)
  PROVE  PoolInv'
<1> DEFINE d == Head(work)
<1>1. /\ Free(t) /\ work # << >> /\ work' = Tail(work)
      /\ closed' = closed \ {d} /\ unset' = unset \ {d}
      /\ alloc' = alloc \ {d} /\ Refuse(t, "down") /\ created' = created
  BY DEF ReplaceFails
<1>2. /\ d \in Conns /\ d \in Contents(work) /\ d \notin working
      /\ work' \in Seq(Conns) /\ Len(work') = Len(work) - 1 /\ Len(work) \in Nat
      /\ Contents(work') = Contents(work) \ {d}
      /\ \A i, j \in 1 .. Len(work') : work'[i] = work'[j] => i = j
  BY <1>1, Front
<1> HIDE DEF d
<1>3. /\ Held' /\ working' = working
      /\ hold' \in [Threads -> Conns \cup {NoConn}]
      /\ status' \in [Threads -> Statuses]
  BY <1>1, RefuseHeld
<1>4. TypeOK'
  BY <1>1, <1>2, <1>3 DEF TypeOK, PoolInv
<1>5. Listed'
  <2>1. Contents(work)' = Contents(work')
    BY DEF Contents
  <2> QED BY <1>1, <1>2, <1>3, <2>1 DEF Listed, PoolInv
<1>6. WithinMax'
  <2>1. Cardinality(working) \in Nat
    BY FS_CardinalityType DEF PoolInv
  <2> QED BY <1>2, <1>3, <2>1 DEF WithinMax, PoolInv
<1> QED BY <1>1, <1>3, <1>4, <1>5, <1>6 DEF PoolInv

\* getConnection opens a connection below the limit.
LEMMA CreateStep ==
  ASSUME PoolInv, NEW t \in Threads, Create(t)
  PROVE  PoolInv'
<1>1. /\ Free(t) /\ work = << >> /\ Cardinality(working) < maxsize
      /\ created' = created /\ work' = work
  BY DEF Create, BelowLimit
<1>2. PICK c \in Conns \ alloc : /\ alloc' = alloc \cup {c} /\ Borrow(t, c)
                                 /\ Opened({c}, closed, unset)
  BY DEF Create
<1>3. c \notin working /\ c \notin Contents(work)
  BY <1>2 DEF PoolInv, Listed
<1>4. /\ Held' /\ working' = working \cup {c} /\ working' \subseteq Conns
      /\ hold' \in [Threads -> Conns \cup {NoConn}]
      /\ status' \in [Threads -> Statuses]
      /\ IsFiniteSet(working')
      /\ Cardinality(working') = Cardinality(working) + 1
      /\ Cardinality(working) \in Nat
  BY <1>1, <1>2, <1>3, BorrowHeld
<1>5. closed' \subseteq closed \cup {c} /\ unset' \subseteq unset \cup {c}
  BY <1>2, OpenedBounds
<1>6. TypeOK'
  BY <1>1, <1>2, <1>4, <1>5 DEF TypeOK, PoolInv
<1>7. Listed'
  <2>1. Contents(work)' = Contents(work)
    BY <1>1 DEF Contents
  <2> QED BY <1>1, <1>2, <1>3, <1>4, <2>1 DEF Listed, PoolInv
<1>8. WithinMax'
  <2>1. Len(work') = 0
    BY <1>1
  <2> QED BY <1>1, <1>4, <2>1 DEF WithinMax
<1> QED BY <1>1, <1>2, <1>4, <1>6, <1>7, <1>8, <1>5 DEF PoolInv

\* Nothing changes but what a refused thread knows.
LEMMA RefuseStep ==
  ASSUME PoolInv, NEW t \in Threads, Free(t), NEW why \in {"down", "busy"},
         Refuse(t, why), UNCHANGED <<created, work, alloc, closed, unset>>
  PROVE  PoolInv'
<1>1. /\ Held' /\ working' = working
      /\ hold' \in [Threads -> Conns \cup {NoConn}]
      /\ status' \in [Threads -> Statuses]
  BY RefuseHeld
<1>2. Contents(work)' = Contents(work)
  BY DEF Contents
<1>3. TypeOK' /\ Listed' /\ WithinMax'
  BY <1>1, <1>2 DEF PoolInv, TypeOK, Listed, WithinMax
<1> QED BY <1>1, <1>3 DEF PoolInv

\* What recycleConnection and ~CONNECT do alike.
LEMMA ReturnStep ==
  ASSUME PoolInv, NEW t \in Threads, status[t] = "using", Recycle(hold[t]),
         NEW h \in Conns \cup {NoConn}, NEW next \in {"out", "ending"},
         hold' = [hold EXCEPT ![t] = h], status' = [status EXCEPT ![t] = next],
         UNCHANGED <<created, alloc, closed, unset>>
  PROVE  PoolInv'
<1> DEFINE c == hold[t]
<1>1. /\ Held' /\ c \in working /\ working' = working \ {c}
      /\ hold' \in [Threads -> Conns \cup {NoConn}]
      /\ status' \in [Threads -> Statuses]
  BY ReturnHeld
<1>2. work' = Append(work, c)
  BY DEF Recycle
<1>3. c \in Conns /\ c \notin Contents(work) /\ work \in Seq(Conns)
  BY <1>1 DEF PoolInv, Listed, TypeOK
<1> HIDE DEF c
<1>4. /\ work' \in Seq(Conns) /\ Len(work') = Len(work) + 1 /\ Len(work) \in Nat
      /\ \A i \in 1 .. Len(work) : work'[i] = work[i]
      /\ work'[Len(work) + 1] = c
      /\ Contents(work') = Contents(work) \cup {c}
  BY <1>2, <1>3, AppendContents
<1>5. \A i, j \in 1 .. Len(work') : work'[i] = work'[j] => i = j
  <2>1. \A i \in 1 .. Len(work') : i \in 1 .. Len(work) \/ i = Len(work) + 1
    BY <1>4
  <2>2. \A i \in 1 .. Len(work) : work[i] # c
    BY <1>3 DEF Contents
  <2> QED BY <1>4, <2>1, <2>2 DEF PoolInv, Listed
<1>6. /\ IsFiniteSet(working') /\ Cardinality(working') = Cardinality(working) - 1
      /\ Cardinality(working) \in Nat /\ Cardinality(working') \in Nat
  BY <1>1, FS_RemoveElement, FS_CardinalityType DEF PoolInv
<1>7. TypeOK'
  BY <1>1, <1>4 DEF TypeOK, PoolInv
<1>8. Listed'
  <2>1. Contents(work)' = Contents(work')
    BY DEF Contents
  <2> QED BY <1>1, <1>3, <1>4, <1>5, <2>1 DEF Listed, PoolInv
<1>9. WithinMax'
  BY <1>4, <1>6 DEF WithinMax, PoolInv
<1> QED BY <1>1, <1>6, <1>7, <1>8, <1>9 DEF PoolInv

\* ~CONNECT is through with the connection it gave back.
LEMMA ThreadEndStep ==
  ASSUME PoolInv, NEW t \in Threads, CONNECT_threadEnd(t)
  PROVE  PoolInv'
<1>1. /\ status[t] = "ending" /\ hold' = [hold EXCEPT ![t] = NoConn]
      /\ status' = [status EXCEPT ![t] = "out"]
      /\ UNCHANGED <<created, work, working, alloc, closed, unset>>
  BY DEF CONNECT_threadEnd
<1>2. t \notin Borrowers /\ Borrowers' = Borrowers
  BY <1>1 DEF Borrowers, PoolInv, TypeOK
<1>3. \A u \in Borrowers : hold'[u] = hold[u]
  BY <1>1, <1>2 DEF Borrowers, PoolInv, TypeOK
<1>4. Held'
  BY <1>1, <1>2, <1>3 DEF Held, PoolInv
<1>5. Contents(work)' = Contents(work)
  BY <1>1 DEF Contents
<1>6. TypeOK'
  BY <1>1 DEF TypeOK, PoolInv, Statuses
<1>7. Listed' /\ WithinMax'
  BY <1>1, <1>5 DEF PoolInv, Listed, WithinMax
<1> QED BY <1>1, <1>4, <1>6, <1>7 DEF PoolInv

\* Before the pool was created nothing is borrowed or open.
Untouched == ~ created => working = {} /\ alloc = {}

\* createConnPool fills the untouched pool with at most half the limit.
LEMMA CreatePoolStep ==
  ASSUME PoolInv, Untouched, createConnPool
  PROVE  PoolInv'
<1>1. /\ ~ created /\ created' = TRUE
      /\ working' = working /\ hold' = hold /\ status' = status
  BY DEF createConnPool
<1>2. PICK n \in 0 .. maxsize \div 2 : \E q \in [1 .. n -> Conns] :
        /\ \A i, j \in 1 .. n : q[i] = q[j] => i = j
        /\ work' = q /\ alloc' = Contents(q)
        /\ Opened(Contents(q), closed, unset)
  BY DEF createConnPool
<1>3. n \in Nat /\ n <= maxsize
  BY <1>2
<1>4. /\ work' \in Seq(Conns) /\ Len(work') = n /\ alloc' = Contents(work')
      /\ \A i, j \in 1 .. Len(work') : work'[i] = work'[j] => i = j
  BY <1>2, <1>3
<1>5. working' = {} /\ closed = {}
  BY <1>1 DEF Untouched, PoolInv
<1>6. closed' \subseteq alloc' /\ unset' \subseteq unset \cup alloc'
  BY <1>2, <1>5, OpenedBounds
<1>7. Contents(work') \subseteq Conns
  BY <1>4 DEF Contents
<1>8. TypeOK'
  BY <1>1, <1>4, <1>5, <1>7, <1>6 DEF TypeOK, PoolInv
<1>9. Held'
  BY <1>1 DEF Held, PoolInv, Borrowers
<1>10. Listed'
  <2>1. Contents(work)' = Contents(work')
    BY DEF Contents
  <2> QED BY <1>4, <1>5, <2>1 DEF Listed
<1>11. IsFiniteSet(working') /\ Cardinality(working') = 0
  BY <1>5, FS_EmptySet
<1>12. WithinMax'
  BY <1>3, <1>4, <1>11 DEF WithinMax
<1> QED BY <1>8, <1>9, <1>10, <1>11, <1>12, <1>6 DEF PoolInv

\* Shutdown empties a pool nobody has borrowed from.
LEMMA DestroyStep ==
  ASSUME PoolInv, Shutdown
  PROVE  PoolInv'
<1>1. /\ \A t \in Threads : hold[t] = NoConn
      /\ work' = << >> /\ working' = {}
      /\ alloc' = alloc \ (Contents(work) \cup working)
      /\ closed' = closed \ (Contents(work) \cup working)
      /\ unset' = unset \ (Contents(work) \cup working)
      /\ created' = created /\ hold' = hold /\ status' = status
  BY DEF Shutdown, destoryConnPool
<1>2. Borrowers = {} /\ Borrowers' = {}
  BY <1>1 DEF Borrowers, PoolInv, Held
<1>3. alloc' = {} /\ closed' = {}
  BY <1>1 DEF PoolInv, Listed
<1>4. work' \in Seq(Conns) /\ Len(work') = 0
  BY <1>1
<1>5. TypeOK'
  BY <1>1, <1>3, <1>4 DEF TypeOK, PoolInv
<1>6. Held'
  BY <1>1, <1>2 DEF Held
<1>7. Contents(work)' = {}
  BY <1>1, EmptyContents DEF Contents
<1>8. Listed'
  BY <1>1, <1>3, <1>4, <1>7 DEF Listed
<1>9. IsFiniteSet(working') /\ Cardinality(working') = 0
  BY <1>1, FS_EmptySet
<1>10. WithinMax'
  BY <1>4, <1>9 DEF WithinMax
<1> QED BY <1>3, <1>5, <1>6, <1>8, <1>9, <1>10 DEF PoolInv

\* Steps that change nothing but closed.
LEMMA ClosedStep ==
  ASSUME PoolInv, UNCHANGED <<created, work, working, alloc, unset, hold, status>>,
         closed' \subseteq alloc
  PROVE  PoolInv'
<1>1. Contents(work)' = Contents(work) /\ Borrowers' = Borrowers
  BY DEF Contents, Borrowers
<1>2. TypeOK'
  BY DEF TypeOK, PoolInv
<1>3. Held' /\ Listed' /\ WithinMax'
  BY <1>1 DEF PoolInv, Held, Listed, WithinMax
<1> QED BY <1>2, <1>3 DEF PoolInv

Inv == PoolInv /\ Untouched

\* The empty pool satisfies the invariant.
LEMMA InvInit == Init => Inv
<1> SUFFICES ASSUME Init PROVE Inv
  OBVIOUS
<1>1. TypeOK
  <2>1. work \in Seq(Conns)
    BY DEF Init
  <2>2. created \in BOOLEAN
    BY Zenon DEF Init
  <2>3. /\ hold \in [Threads -> Conns \cup {NoConn}]
        /\ status \in [Threads -> Statuses]
    BY DEF Init, Statuses
  <2> QED BY <2>1, <2>2, <2>3 DEF Init, TypeOK
<1>2. Borrowers = {}
  BY DEF Init, Borrowers
<1>3. Held
  BY <1>2 DEF Init, Held
<1>4. Contents(work) = {} /\ Len(work) = 0
  BY EmptyContents DEF Init
<1>5. Listed
  BY <1>4 DEF Init, Listed
<1>6. IsFiniteSet(working) /\ Cardinality(working) = 0
  BY FS_EmptySet DEF Init
<1>7. WithinMax
  BY <1>4, <1>6 DEF WithinMax
<1> QED BY <1>1, <1>3, <1>5, <1>6, <1>7 DEF Inv, PoolInv, Untouched, Init

\* Nobody borrows before the pool is created.
LEMMA UntouchedStep ==
  ASSUME Inv, [Next]_vars
  PROVE  Untouched'
<1>1. CASE created
  <2>1. created' = created \/ created' = TRUE
    BY DEF Next, vars, createConnPool, getConnection, Reuse, Replace, ReplaceFails,
           Create, CreateFails, Exhausted, recycleConnection, CONNECT_recycle,
           CONNECT_threadEnd, ServerCloses, Shutdown, destoryConnPool
  <2> QED BY <1>1, <2>1 DEF Untouched
<1>2. CASE ~ created
  <2>1. working = {} /\ alloc = {} /\ Borrowers = {}
    BY <1>2 DEF Inv, Untouched, PoolInv, Held
  <2>2. CASE createConnPool
    BY <2>2 DEF createConnPool, Untouched
  <2>3. ASSUME NEW t \in Threads,
               \/ getConnection(t) \/ recycleConnection(t) \/ CONNECT_recycle(t)
        PROVE  FALSE
    BY <1>2, <2>1, <2>3 DEF getConnection, Reuse, Replace, ReplaceFails, Create,
         CreateFails, Exhausted, Free, recycleConnection, CONNECT_recycle, Borrowers
  <2>4. ASSUME NEW t \in Threads, CONNECT_threadEnd(t) PROVE Untouched'
    BY <2>1, <2>4 DEF CONNECT_threadEnd, Untouched
  <2>5. ASSUME NEW c \in Conns, ServerCloses(c) PROVE Untouched'
    BY <2>1, <2>5 DEF ServerCloses
  <2>6. CASE Shutdown
    BY <1>2, <2>6 DEF Shutdown, destoryConnPool
  <2>7. CASE UNCHANGED vars
    BY <2>1, <2>7 DEF vars, Untouched
  <2> QED BY <2>2, <2>3, <2>4, <2>5, <2>6, <2>7 DEF Next
<1> QED BY <1>1, <1>2

\* Every operation of the pool and every drop of a connection keeps it.
LEMMA InvStep == Inv /\ [Next]_vars => Inv'
<1> SUFFICES ASSUME Inv, [Next]_vars PROVE PoolInv'
  BY UntouchedStep DEF Inv
<1> USE DEF Inv
<1>1. CASE createConnPool
  BY <1>1, CreatePoolStep
<1>2. ASSUME NEW t \in Threads, getConnection(t) PROVE PoolInv'
  <2>1. CASE Reuse(t)
    BY <2>1, ReuseStep
  <2>2. CASE Replace(t)
    BY <2>2, ReplaceStep
  <2>3. CASE ReplaceFails(t)
    BY <2>3, ReplaceFailsStep
  <2>4. CASE Create(t)
    BY <2>4, CreateStep
  <2>5. CASE CreateFails(t)
    BY <2>5, RefuseStep DEF CreateFails
  <2>6. CASE Exhausted(t)
    BY <2>6, RefuseStep DEF Exhausted
  <2> QED BY <1>2, <2>1, <2>2, <2>3, <2>4, <2>5, <2>6 DEF getConnection
<1>3. ASSUME NEW t \in Threads, recycleConnection(t) PROVE PoolInv'
  BY <1>3, ReturnStep DEF recycleConnection
<1>4. ASSUME NEW t \in Threads, CONNECT_recycle(t) PROVE PoolInv'
  <2>1. hold' = [hold EXCEPT ![t] = hold[t]] /\ hold[t] \in Conns \cup {NoConn}
    BY <1>4 DEF CONNECT_recycle, PoolInv, TypeOK
  <2> QED BY <1>4, <2>1, ReturnStep DEF CONNECT_recycle
<1>5. ASSUME NEW t \in Threads, CONNECT_threadEnd(t) PROVE PoolInv'
  BY <1>5, ThreadEndStep
<1>6. ASSUME NEW c \in Conns, ServerCloses(c) PROVE PoolInv'
  BY <1>6, ClosedStep DEF ServerCloses, PoolInv
<1>7. CASE Shutdown
  BY <1>7, DestroyStep
<1>8. CASE UNCHANGED vars
  BY <1>8, ClosedStep DEF vars, PoolInv
<1> QED BY <1>1, <1>2, <1>3, <1>4, <1>5, <1>6, <1>7, <1>8 DEF Next

-----------------------------------------------------------------------------
\* Every variable of the pool keeps its type.
THEOREM PoolTypeCorrect == Spec => []TypeOK
<1>1. Inv => TypeOK
  BY DEF Inv, PoolInv
<1> QED BY <1>1, InvInit, InvStep, PTL DEF Spec

\* Whatever threads borrow and return, and whatever the server drops, every
\* connection that exists is idle in one place or borrowed by one thread.
THEOREM PoolPartition == Spec => []Partition
<1>1. Inv => Partition
  BY PoolInvPartition DEF Inv
<1> QED BY <1>1, InvInit, InvStep, PTL DEF Spec

\* The pool never holds more than maxsize connections.
THEOREM PoolWithinMax == Spec => []WithinMax
<1>1. Inv => WithinMax
  BY DEF Inv, PoolInv
<1> QED BY <1>1, InvInit, InvStep, PTL DEF Spec

\* Only Exhausted makes a thread busy.
LEMMA BusyStep ==
  ASSUME Inv, [Next]_vars, NEW t \in Threads, status[t] # "busy", status'[t] = "busy"
  PROVE  Exhausted(t)
<1>1. status \in [Threads -> Statuses]
  BY DEF Inv, PoolInv, TypeOK
<1>2. ASSUME NEW u \in Threads, status' = [status EXCEPT ![u] = "using"] PROVE FALSE
  BY <1>1, <1>2
<1>3. ASSUME NEW u \in Threads, status' = [status EXCEPT ![u] = "down"] PROVE FALSE
  BY <1>1, <1>3
<1>4. ASSUME NEW u \in Threads, status' = [status EXCEPT ![u] = "out"] PROVE FALSE
  BY <1>1, <1>4
<1>5. ASSUME NEW u \in Threads, status' = [status EXCEPT ![u] = "ending"] PROVE FALSE
  BY <1>1, <1>5
<1>6. status' # status
  OBVIOUS
<1>7. PICK u \in Threads : getConnection(u) \/ recycleConnection(u)
                             \/ CONNECT_recycle(u) \/ CONNECT_threadEnd(u)
  BY <1>6 DEF Next, vars, createConnPool, ServerCloses, Shutdown, destoryConnPool
<1>8. Exhausted(u)
  BY <1>2, <1>3, <1>4, <1>5, <1>7 DEF getConnection, Reuse, Replace, ReplaceFails,
     Create, CreateFails, Borrow, Refuse, recycleConnection, CONNECT_recycle,
     CONNECT_threadEnd
<1>9. status' = [status EXCEPT ![u] = "busy"]
  BY <1>8 DEF Exhausted, Refuse
<1>10. t = u
  BY <1>1, <1>9
<1> QED BY <1>8, <1>10

\* getConnection turns a thread away for lack of connections only when maxsize
\* of them are in the hands of threads.
THEOREM PoolRefusesOnlyExhausted == Spec => RefusedOnlyWhenExhausted
<1>1. ASSUME Inv, [Next]_vars, NEW t \in Threads,
             status[t] # "busy", status'[t] = "busy"
      PROVE  Cardinality({hold[u] : u \in Borrowers}) = maxsize
  <2>1. work = << >> /\ ~ (Cardinality(working) < maxsize)
    BY <1>1, BusyStep DEF Exhausted, BelowLimit
  <2>2. Cardinality(working) \in Nat /\ Len(work) = 0
    BY <1>1, <2>1, FS_CardinalityType DEF Inv, PoolInv
  <2>3. Cardinality(working) <= maxsize
    BY <1>1, <2>2 DEF Inv, PoolInv, WithinMax
  <2>4. Cardinality(working) = maxsize
    BY <2>1, <2>2, <2>3
  <2> QED BY <1>1, <2>4 DEF Inv, PoolInv, Held
<1>2. Inv /\ [Next]_vars
        => [\A t \in Threads : status[t] # "busy" /\ status'[t] = "busy"
              => Cardinality({hold[u] : u \in Borrowers}) = maxsize]_vars
  BY <1>1
<1> QED BY <1>2, InvInit, InvStep, PTL DEF Spec, RefusedOnlyWhenExhausted

\* A thread comes to use a connection only through the three successful paths
\* of getConnection.
LEMMA UsingStep ==
  ASSUME Inv, [Next]_vars, NEW t \in Threads, status[t] # "using", status'[t] = "using"
  PROVE  Reuse(t) \/ Replace(t) \/ Create(t)
<1>1. status \in [Threads -> Statuses]
  BY DEF Inv, PoolInv, TypeOK
<1>2. ASSUME NEW u \in Threads, NEW x \in {"out", "ending", "down", "busy"},
             status' = [status EXCEPT ![u] = x]
      PROVE  FALSE
  BY <1>1, <1>2
<1>3. status' # status
  OBVIOUS
<1>4. PICK u \in Threads : getConnection(u) \/ recycleConnection(u)
                             \/ CONNECT_recycle(u) \/ CONNECT_threadEnd(u)
  BY <1>3 DEF Next, vars, createConnPool, ServerCloses, Shutdown, destoryConnPool
<1>5. Reuse(u) \/ Replace(u) \/ Create(u)
  BY <1>2, <1>4 DEF getConnection, ReplaceFails, CreateFails, Exhausted, Refuse,
     recycleConnection, CONNECT_recycle, CONNECT_threadEnd
<1>6. status' = [status EXCEPT ![u] = "using"]
  BY <1>5 DEF Reuse, Replace, Create, Borrow
<1>7. t = u
  BY <1>1, <1>6
<1> QED BY <1>5, <1>7

\* Although connections go down while they are idle, what getConnection returns
\* is open, unless it went down between connect and setSchema.
THEOREM PoolHandsOutOpen == Spec => HandedOutOpen
<1>1. ASSUME Inv, [Next]_vars, NEW t \in Threads,
             status[t] # "using", status'[t] = "using"
      PROVE  hold'[t] \notin closed' \ unset'
  <2>1. closed \subseteq alloc /\ hold \in [Threads -> Conns \cup {NoConn}]
    BY <1>1 DEF Inv, PoolInv, TypeOK
  <2>2. CASE Reuse(t)
    BY <2>1, <2>2 DEF Reuse, Borrow
  <2>3. CASE Replace(t)
    <3>1. PICK c \in Conns \ (alloc \ {Head(work)}) :
            Borrow(t, c) /\ Opened({c}, closed \ {Head(work)}, unset \ {Head(work)})
      BY <2>3 DEF Replace
    <3>2. c \notin closed \ {Head(work)} /\ hold'[t] = c
      BY <2>1, <3>1 DEF Borrow
    <3> QED BY <3>1, <3>2, OpenedBounds
  <2>4. CASE Create(t)
    <3>1. PICK c \in Conns \ alloc : Borrow(t, c) /\ Opened({c}, closed, unset)
      BY <2>4 DEF Create
    <3>2. c \notin closed /\ hold'[t] = c
      BY <2>1, <3>1 DEF Borrow
    <3> QED BY <3>1, <3>2, OpenedBounds
  <2> QED BY <1>1, <2>2, <2>3, <2>4, UsingStep
<1>2. Inv /\ [Next]_vars
        => [\A t \in Threads : status[t] # "using" /\ status'[t] = "using"
              => hold'[t] \notin closed' \ unset']_vars
  BY <1>1
<1> QED BY <1>2, InvInit, InvStep, PTL DEF Spec, HandedOutOpen
=============================================================================
