\* More threads than connections, so that the pool is exhausted; one address
\* more than connections, so that a deleted connection may move.
SPECIFICATION Spec
CONSTANTS
  t1 = t1
  t2 = t2
  t3 = t3
  Threads = {t1, t2, t3}
  c1 = c1
  c2 = c2
  c3 = c3
  Conns = {c1, c2, c3}
  NoConn = NoConn
  maxsize = 2
INVARIANTS Partition WithinMax
PROPERTIES RefusedOnlyWhenExhausted HandedOutOpen
