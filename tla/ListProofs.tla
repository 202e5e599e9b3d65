----------------------------- MODULE ListProofs -----------------------------
(* What the operations of Lists do to the length, the elements and the      *)
(* contents of a list, for lists over any set.                              *)
EXTENDS Lists, TLAPS

\* The length and the elements of a list after erase.
LEMMA EraseProperties ==
  ASSUME NEW S, NEW q \in Seq(S), NEW i \in 1 .. Len(q)
  PROVE  /\ erase(q, i) \in Seq(S)
         /\ Len(erase(q, i)) = Len(q) - 1
         /\ \A j \in 1 .. Len(q) - 1 :
              erase(q, i)[j] = IF j < i THEN q[j] ELSE q[j + 1]
<1>1. Len(q) \in Nat /\ Len(q) - 1 \in Nat
  OBVIOUS
<1>2. \A j \in 1 .. Len(q) - 1 : (IF j < i THEN q[j] ELSE q[j + 1]) \in S
  OBVIOUS
<1> QED BY <1>1, <1>2 DEF erase

\* erase drops the entry at its place and no other.
LEMMA EraseContents ==
  ASSUME NEW S, NEW q \in Seq(S), NEW i \in 1 .. Len(q),
         \A j, k \in 1 .. Len(q) : q[j] = q[k] => j = k
  PROVE  /\ Contents(erase(q, i)) = Contents(q) \ {q[i]}
         /\ \A j, k \in 1 .. Len(erase(q, i)) :
              erase(q, i)[j] = erase(q, i)[k] => j = k
<1> DEFINE e == erase(q, i)
<1>1. /\ e \in Seq(S) /\ Len(e) = Len(q) - 1 /\ Len(q) \in Nat
      /\ \A j \in 1 .. Len(q) - 1 : e[j] = IF j < i THEN q[j] ELSE q[j + 1]
  <2>1. Len(q) \in Nat
    OBVIOUS
  <2> HIDE DEF e
  <2>2. e = erase(q, i)
    BY DEF e
  <2> QED BY <2>1, <2>2, EraseProperties
<1> HIDE DEF e
<1>2. ASSUME NEW j \in 1 .. Len(e), NEW k \in 1 .. Len(e), e[j] = e[k]
      PROVE  j = k
  <2>1. j \in 1 .. Len(q) /\ j + 1 \in 1 .. Len(q)
    BY <1>1
  <2>2. k \in 1 .. Len(q) /\ k + 1 \in 1 .. Len(q)
    BY <1>1
  <2>3. CASE j < i /\ k < i
    BY <1>1, <1>2, <2>1, <2>2, <2>3
  <2>4. CASE j < i /\ ~ (k < i)
    <3>1. q[j] = q[k + 1]
      BY <1>1, <1>2, <2>4
    <3> QED BY <2>1, <2>2, <2>4, <3>1
  <2>5. CASE ~ (j < i) /\ k < i
    <3>1. q[j + 1] = q[k]
      BY <1>1, <1>2, <2>5
    <3> QED BY <2>1, <2>2, <2>5, <3>1
  <2>6. CASE ~ (j < i) /\ ~ (k < i)
    <3>1. q[j + 1] = q[k + 1]
      BY <1>1, <1>2, <2>6
    <3> QED BY <2>1, <2>2, <3>1
  <2> QED BY <2>3, <2>4, <2>5, <2>6
<1>3. ASSUME NEW j \in 1 .. Len(e)
      PROVE  e[j] \in Contents(q) \ {q[i]}
  <2>1. CASE j < i
    <3>1. e[j] = q[j] /\ j \in 1 .. Len(q) /\ j # i
      BY <1>1, <2>1
    <3> QED BY <3>1 DEF Contents
  <2>2. CASE ~ (j < i)
    <3>1. e[j] = q[j + 1] /\ j + 1 \in 1 .. Len(q) /\ j + 1 # i
      BY <1>1, <2>2
    <3> QED BY <3>1 DEF Contents
  <2> QED BY <2>1, <2>2
<1>4. ASSUME NEW k \in 1 .. Len(q), q[k] # q[i]
      PROVE  q[k] \in Contents(e)
  <2>1. CASE k < i
    <3>1. k \in 1 .. Len(e) /\ e[k] = q[k]
      BY <1>1, <2>1
    <3> QED BY <3>1 DEF Contents
  <2>2. CASE ~ (k < i)
    <3>1. k - 1 \in 1 .. Len(e) /\ e[k - 1] = q[k]
      BY <1>1, <1>4, <2>2
    <3> QED BY <3>1 DEF Contents
  <2> QED BY <2>1, <2>2
<1>5. Contents(e) = Contents(q) \ {q[i]}
  BY <1>3, <1>4 DEF Contents
<1> QED BY <1>2, <1>5 DEF e

\* An empty list has no contents.
LEMMA EmptyContents == Contents(<< >>) = {}
BY DEF Contents

\* What push_back adds, and where.
LEMMA AppendContents ==
  ASSUME NEW S, NEW q \in Seq(S), NEW o \in S
  PROVE  /\ Append(q, o) \in Seq(S)
         /\ Len(Append(q, o)) = Len(q) + 1 /\ Len(q) \in Nat
         /\ \A i \in 1 .. Len(q) : Append(q, o)[i] = q[i]
         /\ Append(q, o)[Len(q) + 1] = o
         /\ Contents(Append(q, o)) = Contents(q) \cup {o}
<1>1. /\ Append(q, o) \in Seq(S)
      /\ Len(Append(q, o)) = Len(q) + 1 /\ Len(q) \in Nat
      /\ \A i \in 1 .. Len(q) : Append(q, o)[i] = q[i]
      /\ Append(q, o)[Len(q) + 1] = o
  OBVIOUS
<1> DEFINE a == Append(q, o)
<1> HIDE DEF a
<1>2. \A i \in 1 .. Len(q) : i \in 1 .. Len(a) /\ a[i] = q[i]
  BY <1>1 DEF a
<1>3. \A i \in 1 .. Len(a) : i \in 1 .. Len(q) \/ i = Len(q) + 1
  BY <1>1 DEF a
<1>4. Len(q) + 1 \in 1 .. Len(a) /\ a[Len(q) + 1] = o
  BY <1>1 DEF a
<1>5. Contents(a) = Contents(q) \cup {o}
  BY <1>2, <1>3, <1>4 DEF Contents
<1> QED BY <1>1, <1>5 DEF a

\* What pop_front leaves of a list without repetitions.
LEMMA HeadContents ==
  ASSUME NEW S, NEW q \in Seq(S), q # << >>,
         \A j, k \in 1 .. Len(q) : q[j] = q[k] => j = k
  PROVE  /\ Head(q) \in S /\ Head(q) \in Contents(q)
         /\ Tail(q) \in Seq(S)
         /\ Contents(Tail(q)) = Contents(q) \ {Head(q)}
         /\ \A j, k \in 1 .. Len(Tail(q)) : Tail(q)[j] = Tail(q)[k] => j = k
         /\ \A j \in 1 .. Len(Tail(q)) : \E k \in 1 .. Len(q) : Tail(q)[j] = q[k]
<1>1. /\ Len(q) \in Nat /\ 1 \in 1 .. Len(q) /\ Head(q) = q[1] /\ Head(q) \in S
      /\ Tail(q) \in Seq(S) /\ Len(Tail(q)) = Len(q) - 1
      /\ \A j \in 1 .. Len(q) - 1 : Tail(q)[j] = q[j + 1]
  OBVIOUS
<1> DEFINE t == Tail(q)
<1> HIDE DEF t
<1>2. /\ Len(t) = Len(q) - 1
      /\ \A j \in 1 .. Len(t) : t[j] = q[j + 1] /\ j + 1 \in 1 .. Len(q) /\ j + 1 # 1
  BY <1>1 DEF t
<1>3. \A k \in 1 .. Len(q) : k = 1 \/ (k - 1 \in 1 .. Len(t) /\ (k - 1) + 1 = k)
  BY <1>1, <1>2
<1>4. \A j, k \in 1 .. Len(t) : t[j] = t[k] => j = k
  BY <1>1, <1>2
<1>5. \A j \in 1 .. Len(t) : t[j] \in Contents(q) \ {q[1]}
  BY <1>1, <1>2 DEF Contents
<1>6. \A k \in 1 .. Len(q) : q[k] # q[1] => q[k] \in Contents(t)
  <2> SUFFICES ASSUME NEW k \in 1 .. Len(q), q[k] # q[1]
               PROVE  q[k] \in Contents(t)
    OBVIOUS
  <2>1. k - 1 \in 1 .. Len(t) /\ t[k - 1] = q[k]
    BY <1>2, <1>3
  <2> QED BY <2>1 DEF Contents
<1>7. Contents(t) = Contents(q) \ {q[1]}
  BY <1>5, <1>6 DEF Contents
<1>8. q[1] \in Contents(q)
  BY <1>1 DEF Contents
<1> QED BY <1>1, <1>2, <1>4, <1>7, <1>8 DEF t
=============================================================================
