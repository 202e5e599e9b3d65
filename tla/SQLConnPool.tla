---------------------------- MODULE SQLConnPool ----------------------------
(***************************************************************************)
(* The pool of database connections (libmysqlwarpper/SQLConnPool.h and     *)
(* .cpp) and the threads that borrow from it.                              *)
(*                                                                         *)
(* Every operation of the pool holds its mutex throughout and is one       *)
(* action.  A thread borrows either with getConnection and                 *)
(* recycleConnection (SQLServer's main) or with a CONNECT object, whose    *)
(* destructor goes on using the connection after giving it back: the step  *)
(* between is status "ending".                                             *)
(*                                                                         *)
(* A connection is known by its address; an address that was freed may be  *)
(* given out again.  The order of _working_pool is never looked at, so it  *)
(* is a set here; that no address would be in the list twice is part of    *)
(* Partition.                                                              *)
(***************************************************************************)
EXTENDS Naturals, Sequences, FiniteSets, Lists

CONSTANTS Threads,    \* the threads of the program
          Conns,      \* addresses of sql::Connection objects
          NoConn,     \* NULL
          maxsize     \* _maxsize

ASSUME ConnAssumption == NoConn \notin Conns
ASSUME MaxAssumption  == maxsize \in Nat

VARIABLES created,    \* createConnPool has run
          work,       \* _work_pool, idle connections
          working,    \* _working_pool, borrowed connections
          alloc,      \* the sql::Connection objects that exist
          closed,     \* those of them whose link to the server is down
          unset,      \* those of them whose setSchema failed
          hold,       \* hold[t]: the connection thread t refers to
          status      \* status[t]: what thread t is doing

vars == <<created, work, working, alloc, closed, unset, hold, status>>

Statuses == {"out",     \* refers to no connection
             "using",   \* has borrowed hold[t]
             "ending",  \* ~CONNECT has given hold[t] back and still uses it
             "down",    \* got NULL: the server did not accept a connection
             "busy"}    \* got NULL: all connections are borrowed

\* Threads that may ask for a connection.
Free(t) == created /\ status[t] \in {"out", "down", "busy"}

Init ==
  /\ created = FALSE
  /\ work = << >> /\ working = {}
  /\ alloc = {} /\ closed = {} /\ unset = {}
  /\ hold   = [t \in Threads |-> NoConn]
  /\ status = [t \in Threads |-> "out"]

\* createConnection when connect succeeds, for the connections new.  Where
\* setSchema then throws, on a link that may be down by now, the connection is
\* returned all the same.
Opened(new, closedOthers, unsetOthers) ==
  \E u \in SUBSET new : /\ unset' = unsetOthers \cup u
                        /\ \E d \in SUBSET u : closed' = closedOthers \cup d

\* createConnPool: up to maxsize / 2 connections are opened at once; those
\* the server refuses are skipped.
createConnPool ==
  /\ ~ created
  /\ created' = TRUE
  /\ \E n \in 0 .. maxsize \div 2 : \E q \in [1 .. n -> Conns] :
       /\ \A i, j \in 1 .. n : q[i] = q[j] => i = j
       /\ work' = q
       /\ alloc' = Contents(q)
       /\ Opened(Contents(q), closed, unset)
  /\ UNCHANGED <<working, hold, status>>

\* getConnection returns c, or NULL for the given reason.
Borrow(t, c) == /\ working' = working \cup {c}
                /\ hold'   = [hold EXCEPT ![t] = c]
                /\ status' = [status EXCEPT ![t] = "using"]

Refuse(t, why) == /\ hold'   = [hold EXCEPT ![t] = NoConn]
                  /\ status' = [status EXCEPT ![t] = why]
                  /\ UNCHANGED working

\* Slip: isClosed is not asked.
ReuseUnchecked(t) ==
  /\ Free(t) /\ work # << >>
  /\ work' = Tail(work)
  /\ Borrow(t, Head(work))
  /\ UNCHANGED <<created, alloc, closed, unset>>

\* The idle connection in front is usable.
Reuse(t) ==
  /\ Free(t) /\ work # << >> /\ Head(work) \notin closed
  /\ work' = Tail(work)
  /\ Borrow(t, Head(work))
  /\ UNCHANGED <<created, alloc, closed, unset>>

\* The idle connection in front is closed: it is deleted and another opened
\* in its place ...
Replace(t) ==
  /\ Free(t) /\ work # << >> /\ Head(work) \in closed
  /\ work' = Tail(work)
  /\ \E c \in Conns \ (alloc \ {Head(work)}) :
       /\ alloc' = (alloc \ {Head(work)}) \cup {c}
       /\ Opened({c}, closed \ {Head(work)}, unset \ {Head(work)})
       /\ Borrow(t, c)
  /\ UNCHANGED created

\* ... unless the server refuses.
ReplaceFails(t) ==
  /\ Free(t) /\ work # << >> /\ Head(work) \in closed
  /\ work' = Tail(work)
  /\ closed' = closed \ {Head(work)} /\ unset' = unset \ {Head(work)}
  /\ alloc' = alloc \ {Head(work)}
  /\ Refuse(t, "down")
  /\ UNCHANGED created

\* Slips: one too many, one too few.
BelowLimitOver  == Cardinality(working) <= maxsize
BelowLimitUnder == Cardinality(working) + 1 < maxsize

\* None is idle: another is opened if the limit allows.
BelowLimit == Cardinality(working) < maxsize

Create(t) ==
  /\ Free(t) /\ work = << >> /\ BelowLimit
  /\ \E c \in Conns \ alloc :
       /\ alloc' = alloc \cup {c}
       /\ Opened({c}, closed, unset)
       /\ Borrow(t, c)
  /\ UNCHANGED <<created, work>>

CreateFails(t) ==
  /\ Free(t) /\ work = << >> /\ BelowLimit
  /\ Refuse(t, "down")
  /\ UNCHANGED <<created, work, alloc, closed, unset>>

Exhausted(t) ==
  /\ Free(t) /\ work = << >> /\ ~ BelowLimit
  /\ Refuse(t, "busy")
  /\ UNCHANGED <<created, work, alloc, closed, unset>>

getConnection(t) == \/ Reuse(t) \/ Replace(t) \/ ReplaceFails(t)
                    \/ Create(t) \/ CreateFails(t) \/ Exhausted(t)

\* Slip: it is not taken off the list of borrowed connections.
RecycleOnly(c) == /\ working' = working
                  /\ work' = Append(work, c)

\* recycleConnection moves the connection from one list to the other.
Recycle(c) == /\ working' = working \ {c}
              /\ work' = Append(work, c)

\* A thread gives its connection back and forgets it ...
recycleConnection(t) ==
  /\ status[t] = "using"
  /\ Recycle(hold[t])
  /\ hold'   = [hold EXCEPT ![t] = NoConn]
  /\ status' = [status EXCEPT ![t] = "out"]
  /\ UNCHANGED <<created, alloc, closed, unset>>

\* ... or it is in ~CONNECT, which keeps the pointer ...
CONNECT_recycle(t) ==
  /\ status[t] = "using"
  /\ Recycle(hold[t])
  /\ status' = [status EXCEPT ![t] = "ending"]
  /\ UNCHANGED <<created, alloc, closed, unset, hold>>

\* ... for _conn->getDriver()->threadEnd().
CONNECT_threadEnd(t) ==
  /\ status[t] = "ending"
  /\ hold'   = [hold EXCEPT ![t] = NoConn]
  /\ status' = [status EXCEPT ![t] = "out"]
  /\ UNCHANGED <<created, work, working, alloc, closed, unset>>

\* The server or the network drops a connection; isClosed finds out.
ServerCloses(c) ==
  /\ c \in alloc \ closed
  /\ closed' = closed \cup {c}
  /\ UNCHANGED <<created, work, working, alloc, unset, hold, status>>

\* destoryConnPool deletes the connections of both lists, those that threads
\* have borrowed as well.
destoryConnPool ==
  /\ created
  /\ work' = << >> /\ working' = {}
  /\ alloc'  = alloc \ (Contents(work) \cup working)
  /\ closed' = closed \ (Contents(work) \cup working)
  /\ unset'  = unset \ (Contents(work) \cup working)
  /\ UNCHANGED <<created, hold, status>>

\* The program never calls it.  A program that did would have to wait until no
\* thread refers to a connection: the pool does not.
Shutdown ==
  /\ \A t \in Threads : hold[t] = NoConn
  /\ destoryConnPool

Next ==
  \/ createConnPool
  \/ \E t \in Threads : \/ getConnection(t)
                        \/ recycleConnection(t)
                        \/ CONNECT_recycle(t)
                        \/ CONNECT_threadEnd(t)
  \/ \E c \in Conns : ServerCloses(c)
  \/ Shutdown

Spec == Init /\ [][Next]_vars

-----------------------------------------------------------------------------
Borrowers == {t \in Threads : status[t] = "using"}

TypeOK ==
  /\ created \in BOOLEAN
  /\ work \in Seq(Conns)
  /\ working \subseteq Conns
  /\ alloc   \subseteq Conns
  /\ closed  \subseteq Conns
  /\ unset   \subseteq Conns
  /\ hold    \in [Threads -> Conns \cup {NoConn}]
  /\ status  \in [Threads -> Statuses]

\* Every connection that exists is idle or borrowed, never both, idle in one
\* place only and borrowed by one thread only; nothing else is in the pool.
\* So no connection is shared, lost, or used by its borrower after its delete.
Partition ==
  /\ \A i, j \in 1 .. Len(work) : work[i] = work[j] => i = j
  /\ Contents(work) \cap working = {}
  /\ alloc = Contents(work) \cup working
  /\ working = {hold[t] : t \in Borrowers}
  /\ \A t, u \in Borrowers : hold[t] = hold[u] => t = u

\* The limit is tested against the borrowed connections alone and only when
\* none is idle; still the pool as a whole never outgrows it.
WithinMax == Len(work) + Cardinality(working) <= maxsize

\* A thread is turned away for lack of connections only when the connections
\* that threads have borrowed number maxsize ("建立的连接数已经达到 maxsize").
RefusedOnlyWhenExhausted ==
  [][\A t \in Threads :
       status[t] # "busy" /\ status'[t] = "busy"
         => Cardinality({hold[u] : u \in Borrowers}) = maxsize]_vars

\* getConnection does not return a connection that is down at that moment, even
\* one that went down while it was idle; the exception is one that went down as
\* it was opened, before setSchema.
HandedOutOpen ==
  [][\A t \in Threads :
       status[t] # "using" /\ status'[t] = "using"
         => hold'[t] \notin closed' \ unset']_vars
=============================================================================
