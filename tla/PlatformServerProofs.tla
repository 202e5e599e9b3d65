------------------------ MODULE PlatformServerProofs ------------------------
(* Proofs about Users and PlatformServer, for any sessions, user ids and    *)
(* entries: first the registry by itself and the directory it implements,   *)
(* then the connections that use it.                                        *)
EXTENDS PlatformServer, ListProofs, FiniteSetTheorems, TLAPS

USE UidAssumption, SessionAssumption

\* What strengthens SessionsSurvive: a cached entry refers to no session.
CachedEntriesEmpty == \A i \in 1 .. Len(cache) : session[cache[i]] = NoSession

UInv == UsersTypeOK /\ OneEntryPerUser /\ EntriesPartitioned
          /\ CachedEntriesEmpty /\ SessionsSurvive

-----------------------------------------------------------------------------
(* One lemma per operation.                                                 *)

\* add of a user who is active already.
LEMMA UpdateStep ==
  ASSUME UInv, NEW u \in Uids, NEW s \in Sessions \cup {NoSession}, Update(u, s)
  PROVE  UInv'
<1> USE DEF UInv
<1>1. PICK i \in 1 .. Len(live) : uid[live[i]] = u /\ Fill(live[i], u, s)
  BY DEF Update, FirstAt
<1>2. /\ live' = live /\ cache' = cache /\ allocated' = allocated /\ deleted' = deleted
      /\ uid' = [uid EXCEPT ![live[i]] = u]
      /\ session' = [session EXCEPT ![live[i]] = s]
  BY <1>1 DEF Update, Fill
<1>3. live[i] \in Objects /\ live[i] \in Contents(live)
  BY <1>1 DEF UsersTypeOK, Contents
<1>4. uid' = uid
  BY <1>1, <1>2, <1>3 DEF UsersTypeOK
<1>5. UsersTypeOK'
  BY <1>2, <1>3, <1>4 DEF UsersTypeOK
<1>6. OneEntryPerUser' /\ EntriesPartitioned' /\ SessionsSurvive'
  <2>1. OneEntryPerUser'
    BY <1>2, <1>4 DEF OneEntryPerUser
  <2>2. Contents(live)' = Contents(live) /\ Contents(cache)' = Contents(cache)
    BY <1>2 DEF Contents
  <2>3. EntriesPartitioned'
    BY <1>2, <2>2 DEF EntriesPartitioned
  <2> QED BY <1>2, <2>1, <2>3 DEF SessionsSurvive
<1>7. CachedEntriesEmpty'
  <2> SUFFICES ASSUME NEW j \in 1 .. Len(cache) PROVE session'[cache[j]] = NoSession
    BY <1>2 DEF CachedEntriesEmpty
  <2>1. cache[j] \in Contents(cache) /\ cache[j] \in Objects
    BY DEF Contents, UsersTypeOK
  <2>2. cache[j] # live[i]
    BY <1>3, <2>1 DEF EntriesPartitioned
  <2> QED BY <1>2, <2>1, <2>2 DEF CachedEntriesEmpty, UsersTypeOK
<1> QED BY <1>5, <1>6, <1>7

\* Putting an entry that is not active at the end of live, filled for a user
\* who is not active.
LEMMA ActivateLive ==
  ASSUME UInv, NEW u \in Uids, NEW s \in Sessions \cup {NoSession}, Absent(u),
         NEW o \in Objects, o \notin Contents(live),
         live' = Append(live, o), Fill(o, u, s)
  PROVE  /\ live' \in Seq(Objects) /\ Contents(live') = Contents(live) \cup {o}
         /\ uid' \in [Objects -> Uids]
         /\ session' \in [Objects -> Sessions \cup {NoSession}]
         /\ OneEntryPerUser'
         /\ \A i, j \in 1 .. Len(live') : live'[i] = live'[j] => i = j
<1> USE DEF UInv
<1>1. /\ live' \in Seq(Objects) /\ Len(live') = Len(live) + 1 /\ Len(live) \in Nat
      /\ \A i \in 1 .. Len(live) : live'[i] = live[i]
      /\ live'[Len(live) + 1] = o
      /\ Contents(live') = Contents(live) \cup {o}
  BY AppendContents DEF UsersTypeOK
<1>2. /\ uid' = [uid EXCEPT ![o] = u] /\ session' = [session EXCEPT ![o] = s]
  BY DEF Fill
<1>3. /\ uid' \in [Objects -> Uids]
      /\ session' \in [Objects -> Sessions \cup {NoSession}]
  BY <1>2 DEF UsersTypeOK
<1>4. \A i \in 1 .. Len(live) : live[i] # o /\ live[i] \in Objects
  BY DEF Contents, UsersTypeOK
<1>5. \A i \in 1 .. Len(live') : i \in 1 .. Len(live) \/ i = Len(live) + 1
  BY <1>1
<1>6. /\ \A i \in 1 .. Len(live) : uid'[live'[i]] = uid[live[i]] /\ uid[live[i]] # u
      /\ uid'[live'[Len(live) + 1]] = u
  BY <1>1, <1>2, <1>4 DEF UsersTypeOK, Absent
<1>7. OneEntryPerUser'
  BY <1>5, <1>6 DEF OneEntryPerUser
<1>8. \A i, j \in 1 .. Len(live') : live'[i] = live'[j] => i = j
  BY <1>1, <1>4, <1>5 DEF EntriesPartitioned
<1> QED BY <1>1, <1>3, <1>7, <1>8

\* add of a new user in an entry of the cache.
LEMMA AddCachedStep ==
  ASSUME UInv, NEW u \in Uids, NEW s \in Sessions \cup {NoSession}, AddCached(u, s)
  PROVE  UInv'
<1> USE DEF UInv
<1> DEFINE o == Head(cache)
<1>1. /\ Absent(u) /\ cache # << >> /\ live' = Append(live, o) /\ cache' = Tail(cache)
      /\ Fill(o, u, s) /\ allocated' = allocated /\ deleted' = deleted
  BY DEF AddCached
<1>2. /\ o \in Objects /\ o \in Contents(cache) /\ cache' \in Seq(Objects)
      /\ Contents(cache') = Contents(cache) \ {o}
      /\ \A j, k \in 1 .. Len(cache') : cache'[j] = cache'[k] => j = k
      /\ \A j \in 1 .. Len(cache') : \E k \in 1 .. Len(cache) : cache'[j] = cache[k]
  BY <1>1, HeadContents DEF UsersTypeOK, EntriesPartitioned
<1>3. o \notin Contents(live)
  BY <1>2 DEF EntriesPartitioned
<1> HIDE DEF o
<1>4. /\ live' \in Seq(Objects) /\ Contents(live') = Contents(live) \cup {o}
      /\ uid' \in [Objects -> Uids]
      /\ session' \in [Objects -> Sessions \cup {NoSession}]
      /\ OneEntryPerUser'
      /\ \A i, j \in 1 .. Len(live') : live'[i] = live'[j] => i = j
  BY <1>1, <1>2, <1>3, ActivateLive
<1>5. UsersTypeOK'
  BY <1>1, <1>2, <1>4 DEF UsersTypeOK
<1>6. EntriesPartitioned'
  <2>1. Contents(live)' = Contents(live) \cup {o} /\ Contents(cache)' = Contents(cache) \ {o}
    BY <1>2, <1>4 DEF Contents
  <2> QED BY <1>1, <1>2, <1>4, <2>1 DEF EntriesPartitioned
<1>7. CachedEntriesEmpty'
  <2> SUFFICES ASSUME NEW j \in 1 .. Len(cache') PROVE session'[cache'[j]] = NoSession
    BY DEF CachedEntriesEmpty
  <2>1. PICK k \in 1 .. Len(cache) : cache'[j] = cache[k]
    BY <1>2
  <2>2. cache'[j] # o
    BY <1>2 DEF Contents
  <2>3. session'[cache'[j]] = session[cache[k]]
    BY <1>1, <1>2, <2>1, <2>2 DEF Fill, UsersTypeOK
  <2> QED BY <2>3 DEF CachedEntriesEmpty
<1> QED BY <1>1, <1>4, <1>5, <1>6, <1>7 DEF SessionsSurvive

\* add of a new user in a new entry.
LEMMA AddNewStep ==
  ASSUME UInv, NEW u \in Uids, NEW s \in Sessions \cup {NoSession}, AddNew(u, s)
  PROVE  UInv'
<1> USE DEF UInv
<1>1. PICK o \in Objects \ allocated :
        /\ live' = Append(live, o) /\ allocated' = allocated \cup {o} /\ Fill(o, u, s)
  BY DEF AddNew
<1>2. Absent(u) /\ cache = << >> /\ cache' = cache /\ deleted' = deleted
  BY DEF AddNew
<1>3. o \notin Contents(live)
  BY <1>1 DEF EntriesPartitioned
<1>4. /\ live' \in Seq(Objects) /\ Contents(live') = Contents(live) \cup {o}
      /\ uid' \in [Objects -> Uids]
      /\ session' \in [Objects -> Sessions \cup {NoSession}]
      /\ OneEntryPerUser'
      /\ \A i, j \in 1 .. Len(live') : live'[i] = live'[j] => i = j
  BY <1>1, <1>2, <1>3, ActivateLive
<1>5. UsersTypeOK'
  BY <1>1, <1>2, <1>4 DEF UsersTypeOK
<1>6. Contents(cache) = {} /\ Contents(cache)' = {} /\ Contents(live)' = Contents(live) \cup {o}
  <2>1. Contents(cache) = {} /\ Contents(cache)' = Contents(cache)
    BY <1>2, EmptyContents DEF Contents
  <2>2. Contents(live)' = Contents(live')
    BY DEF Contents
  <2> QED BY <1>4, <2>1, <2>2
<1>7. EntriesPartitioned'
  BY <1>1, <1>2, <1>4, <1>6 DEF EntriesPartitioned
<1>8. CachedEntriesEmpty'
  BY <1>2 DEF CachedEntriesEmpty
<1> QED BY <1>2, <1>4, <1>5, <1>7, <1>8 DEF SessionsSurvive

\* remove and removeUserTest, which take an entry out of use.
LEMMA RetireStep ==
  ASSUME UInv, NEW i \in 1 .. Len(live), Retire(i)
  PROVE  UInv'
<1> USE DEF UInv
<1> DEFINE o == live[i]
<1>1. /\ live' = erase(live, i) /\ cache' = Append(cache, o)
      /\ uid' = [uid EXCEPT ![o] = 0] /\ session' = [session EXCEPT ![o] = NoSession]
      /\ allocated' = allocated /\ deleted' = deleted
  BY DEF Retire, Fill
<1>2. o \in Objects /\ o \in Contents(live) /\ live \in Seq(Objects) /\ Len(live) \in Nat
  BY DEF UsersTypeOK, Contents
<1>3. o \notin Contents(cache)
  BY <1>2 DEF EntriesPartitioned
<1>4. /\ live' \in Seq(Objects) /\ Len(live') = Len(live) - 1
      /\ \A j \in 1 .. Len(live) - 1 : live'[j] = IF j < i THEN live[j] ELSE live[j + 1]
  BY <1>1, <1>2, EraseProperties
<1>5. /\ Contents(live') = Contents(live) \ {o}
      /\ \A j, k \in 1 .. Len(live') : live'[j] = live'[k] => j = k
  BY <1>1, <1>2, EraseContents DEF EntriesPartitioned
<1> HIDE DEF o
<1>6. /\ cache' \in Seq(Objects) /\ Len(cache') = Len(cache) + 1 /\ Len(cache) \in Nat
      /\ \A j \in 1 .. Len(cache) : cache'[j] = cache[j]
      /\ cache'[Len(cache) + 1] = o
      /\ Contents(cache') = Contents(cache) \cup {o}
  BY <1>1, <1>2, AppendContents DEF UsersTypeOK
<1>7. UsersTypeOK'
  BY <1>1, <1>2, <1>4, <1>6 DEF UsersTypeOK
<1>8. \A j \in 1 .. Len(cache) : cache[j] # o /\ cache[j] \in Objects
  BY <1>3 DEF Contents, UsersTypeOK
<1>9. \A j \in 1 .. Len(cache') : j \in 1 .. Len(cache) \/ j = Len(cache) + 1
  BY <1>6
<1>10. EntriesPartitioned'
  <2>1. \A j, k \in 1 .. Len(cache') : cache'[j] = cache'[k] => j = k
    BY <1>6, <1>8, <1>9 DEF EntriesPartitioned
  <2>2. Contents(live)' = Contents(live) \ {o} /\ Contents(cache)' = Contents(cache) \cup {o}
    BY <1>5, <1>6 DEF Contents
  <2> QED BY <1>1, <1>2, <1>5, <2>1, <2>2 DEF EntriesPartitioned
<1>11. CachedEntriesEmpty'
  <2>1. session'[o] = NoSession
    BY <1>1, <1>2 DEF UsersTypeOK
  <2>2. \A j \in 1 .. Len(cache) : session'[cache[j]] = NoSession
    BY <1>1, <1>8 DEF UsersTypeOK, CachedEntriesEmpty
  <2> QED BY <1>6, <1>9, <2>1, <2>2 DEF CachedEntriesEmpty
<1>12. OneEntryPerUser'
  <2> SUFFICES ASSUME NEW j \in 1 .. Len(live'), NEW k \in 1 .. Len(live'),
                      uid'[live'[j]] = uid'[live'[k]]
               PROVE  j = k
    BY DEF OneEntryPerUser
  <2>1. live'[j] \in Contents(live) /\ live'[k] \in Contents(live)
            /\ live'[j] # o /\ live'[k] # o
    BY <1>5 DEF Contents
  <2>2. PICK a \in 1 .. Len(live) : live'[j] = live[a]
    BY <2>1 DEF Contents
  <2>3. PICK b \in 1 .. Len(live) : live'[k] = live[b]
    BY <2>1 DEF Contents
  <2>4. uid[live[a]] = uid[live[b]]
    BY <1>1, <1>2, <2>1, <2>2, <2>3 DEF UsersTypeOK
  <2>5. a = b
    BY <2>4 DEF OneEntryPerUser
  <2> QED BY <1>5, <2>2, <2>3, <2>5
<1> QED BY <1>1, <1>7, <1>10, <1>11, <1>12 DEF SessionsSurvive

\* restoreCache, which deletes the cached entries.
LEMMA RestoreStep ==
  ASSUME UInv, restoreCache
  PROVE  UInv'
<1> USE DEF UInv
<1>1. /\ cache' = << >> /\ allocated' = allocated \ Contents(cache)
      /\ deleted' = deleted \cup ({session[o] : o \in Contents(cache)} \ {NoSession})
      /\ UNCHANGED <<live, uid, session>>
  BY DEF restoreCache
<1>2. {session[o] : o \in Contents(cache)} \subseteq {NoSession}
  BY DEF Contents, CachedEntriesEmpty
<1>3. SessionsSurvive'
  BY <1>1, <1>2 DEF SessionsSurvive
<1>4. UsersTypeOK'
  <2>1. cache' \in Seq(Objects)
    BY <1>1
  <2>2. deleted' \subseteq Sessions
    BY <1>3 DEF SessionsSurvive
  <2>3. allocated' \subseteq Objects
    BY <1>1 DEF UsersTypeOK
  <2> QED BY <1>1, <2>1, <2>2, <2>3 DEF UsersTypeOK
<1>5. Contents(cache)' = {} /\ Contents(live)' = Contents(live)
  BY <1>1 DEF Contents
<1>6. EntriesPartitioned' /\ CachedEntriesEmpty'
  BY <1>1, <1>5 DEF EntriesPartitioned, CachedEntriesEmpty
<1>7. OneEntryPerUser'
  BY <1>1 DEF OneEntryPerUser
<1> QED BY <1>3, <1>4, <1>6, <1>7

\* Every operation keeps the invariant.
LEMMA UInvStep == UInv /\ [UsersNext]_userVars => UInv'
<1> SUFFICES ASSUME UInv, [UsersNext]_userVars PROVE UInv'
  OBVIOUS
<1>1. ASSUME NEW u \in Uids, NEW s \in Sessions \cup {NoSession}, add(u, s)
      PROVE  UInv'
  BY <1>1, UpdateStep, AddCachedStep, AddNewStep DEF add
<1>2. CASE UNCHANGED userVars
  <2>1. /\ live' = live /\ cache' = cache /\ uid' = uid /\ session' = session
        /\ allocated' = allocated /\ deleted' = deleted
    BY <1>2 DEF userVars
  <2>2. Contents(live)' = Contents(live) /\ Contents(cache)' = Contents(cache)
    BY <2>1 DEF Contents
  <2>3. UsersTypeOK'
    BY <2>1 DEF UInv, UsersTypeOK
  <2>4. OneEntryPerUser'
    BY <2>1 DEF UInv, OneEntryPerUser
  <2>5. EntriesPartitioned'
    BY <2>1, <2>2 DEF UInv, EntriesPartitioned
  <2>6. CachedEntriesEmpty' /\ SessionsSurvive'
    BY <2>1 DEF UInv, CachedEntriesEmpty, SessionsSurvive
  <2> QED BY <2>3, <2>4, <2>5, <2>6 DEF UInv
<1>3. ASSUME NEW s \in Sessions, removeSession(s) PROVE UInv'
  BY <1>2, <1>3, RetireStep DEF removeSession
<1>4. ASSUME NEW u \in Uids, removeUid(u) PROVE UInv'
  BY <1>2, <1>4, RetireStep DEF removeUid
<1>5. CASE removeUserTest
  <2>1. 1 \in 1 .. Len(live) /\ Retire(1)
    BY <1>5 DEF removeUserTest, UInv, UsersTypeOK
  <2> QED BY <2>1, RetireStep
<1>6. CASE restoreCache
  BY <1>6, RestoreStep
<1> QED BY <1>1, <1>2, <1>3, <1>4, <1>5, <1>6 DEF UsersNext

\* The empty registry satisfies it.
LEMMA UInvInit == UsersInit => UInv
BY DEF UsersInit, UInv, UsersTypeOK, OneEntryPerUser, EntriesPartitioned,
       CachedEntriesEmpty, SessionsSurvive, Contents

\* The types of the registry's state.
THEOREM UsersTyped == UsersSpec => []UsersTypeOK
<1>1. UInv => UsersTypeOK
  BY DEF UInv
<1> QED BY <1>1, UInvInit, UInvStep, PTL DEF UsersSpec

\* In any sequence of registry calls no user ever has two active entries.
THEOREM UsersUnique == UsersSpec => []OneEntryPerUser
<1>1. UInv => OneEntryPerUser
  BY DEF UInv
<1> QED BY <1>1, UInvInit, UInvStep, PTL DEF UsersSpec

\* In any sequence of registry calls each entry is in exactly one place of one
\* list while it exists, and in none once it was deleted.
THEOREM UsersPartition == UsersSpec => []EntriesPartitioned
<1>1. UInv => EntriesPartitioned
  BY DEF UInv
<1> QED BY <1>1, UInvInit, UInvStep, PTL DEF UsersSpec

\* restoreCache never deletes a session.
THEOREM UsersKeepSessions == UsersSpec => []SessionsSurvive
<1>1. UInv => SessionsSurvive
  BY DEF UInv
<1> QED BY <1>1, UInvInit, UInvStep, PTL DEF UsersSpec
-----------------------------------------------------------------------------
(* What the operations do to the active entries.                            *)

\* add of a new user leaves the active entries as they are and puts one for
\* the user behind them, whether the entry is new or from the cache.
LEMMA AddedEntry ==
  ASSUME UInv, NEW u \in Uids, NEW s \in Sessions \cup {NoSession},
         AddCached(u, s) \/ AddNew(u, s)
  PROVE  /\ Len(live) \in Nat /\ Len(live') = Len(live) + 1
         /\ \A k \in 1 .. Len(live) : /\ uid'[live'[k]] = uid[live[k]]
                                      /\ session'[live'[k]] = session[live[k]]
         /\ uid'[live'[Len(live) + 1]] = u
         /\ session'[live'[Len(live) + 1]] = s
<1> USE DEF UInv
<1>1. PICK o \in Objects : o \notin Contents(live) /\ live' = Append(live, o) /\ Fill(o, u, s)
  <2>1. CASE AddCached(u, s)
    <3>1. Head(cache) \in Objects /\ Head(cache) \in Contents(cache)
      BY <2>1, HeadContents DEF AddCached, UsersTypeOK, EntriesPartitioned
    <3>2. Head(cache) \notin Contents(live)
      BY <3>1 DEF EntriesPartitioned
    <3> QED BY <2>1, <3>1, <3>2 DEF AddCached
  <2>2. CASE AddNew(u, s)
    <3>1. \A o \in Objects \ allocated : o \notin Contents(live)
      BY DEF EntriesPartitioned
    <3> QED BY <2>2, <3>1 DEF AddNew
  <2> QED BY <2>1, <2>2
<1>2. /\ Len(live') = Len(live) + 1 /\ Len(live) \in Nat
      /\ \A k \in 1 .. Len(live) : live'[k] = live[k]
      /\ live'[Len(live) + 1] = o
  BY <1>1, AppendContents DEF UsersTypeOK
<1>3. \A k \in 1 .. Len(live) : live[k] # o /\ live[k] \in Objects
  BY <1>1 DEF Contents, UsersTypeOK
<1>4. uid' = [uid EXCEPT ![o] = u] /\ session' = [session EXCEPT ![o] = s]
  BY <1>1 DEF Fill
<1> QED BY <1>2, <1>3, <1>4 DEF UsersTypeOK

\* add of an active user changes the session of the user's entry alone.
LEMMA UpdatedEntry ==
  ASSUME UInv, NEW u \in Uids, NEW s \in Sessions \cup {NoSession}, Update(u, s)
  PROVE  /\ live' = live /\ uid' = uid
         /\ \E i \in 1 .. Len(live) :
              /\ uid[live[i]] = u
              /\ \A k \in 1 .. Len(live) :
                   session'[live[k]] = IF k = i THEN s ELSE session[live[k]]
<1> USE DEF UInv
<1>1. PICK i \in 1 .. Len(live) : uid[live[i]] = u /\ Fill(live[i], u, s)
  BY DEF Update, FirstAt
<1>2. /\ live' = live /\ uid' = [uid EXCEPT ![live[i]] = u]
      /\ session' = [session EXCEPT ![live[i]] = s]
  BY <1>1 DEF Update, Fill
<1>3. \A k \in 1 .. Len(live) : live[k] \in Objects /\ (live[k] = live[i] => k = i)
  BY DEF UsersTypeOK, EntriesPartitioned
<1>4. uid' = uid
  BY <1>1, <1>2, <1>3 DEF UsersTypeOK
<1>5. \A k \in 1 .. Len(live) : session'[live[k]] = IF k = i THEN s ELSE session[live[k]]
  BY <1>2, <1>3 DEF UsersTypeOK
<1> QED BY <1>1, <1>2, <1>4, <1>5

\* Retiring an entry leaves the others active, with their contents.
LEMMA RetiredEntry ==
  ASSUME UInv, NEW i \in 1 .. Len(live), Retire(i)
  PROVE  /\ \A j \in 1 .. Len(live') :
              \E k \in 1 .. Len(live) : k # i /\ live'[j] = live[k]
         /\ \A k \in 1 .. Len(live) :
              k # i => \E j \in 1 .. Len(live') : live'[j] = live[k]
         /\ \A k \in 1 .. Len(live) :
              k # i => uid'[live[k]] = uid[live[k]] /\ session'[live[k]] = session[live[k]]
<1> USE DEF UInv
<1>1. /\ live' = erase(live, i)
      /\ uid' = [uid EXCEPT ![live[i]] = 0] /\ session' = [session EXCEPT ![live[i]] = NoSession]
  BY DEF Retire, Fill
<1>2. Contents(live') = Contents(live) \ {live[i]}
  BY <1>1, EraseContents DEF EntriesPartitioned, UsersTypeOK
<1>3. \A k \in 1 .. Len(live) : k # i => live[k] # live[i]
  BY DEF EntriesPartitioned
<1>4. \A j \in 1 .. Len(live') : \E k \in 1 .. Len(live) : k # i /\ live'[j] = live[k]
  BY <1>2 DEF Contents
<1>5. \A k \in 1 .. Len(live) : k # i => \E j \in 1 .. Len(live') : live'[j] = live[k]
  <2> SUFFICES ASSUME NEW k \in 1 .. Len(live), k # i
               PROVE  \E j \in 1 .. Len(live') : live'[j] = live[k]
    OBVIOUS
  <2>1. live[k] \in Contents(live')
    BY <1>2, <1>3 DEF Contents
  <2> QED BY <2>1 DEF Contents
<1>6. \A k \in 1 .. Len(live) :
        k # i => uid'[live[k]] = uid[live[k]] /\ session'[live[k]] = session[live[k]]
  BY <1>1, <1>3 DEF UsersTypeOK
<1> QED BY <1>4, <1>5, <1>6

-----------------------------------------------------------------------------
(* The registry implements the directory.                                   *)

\* The directory maps the user of every active entry to the entry's session.
EntriesMapped ==
  /\ DOMAIN DirectoryOf = ActiveUids
  /\ \A k \in 1 .. Len(live) : /\ uid[live[k]] \in ActiveUids
                               /\ DirectoryOf[uid[live[k]]] = session[live[k]]

\* This rests on a user having one entry: the directory's value is that of any.
LEMMA DirectoryEntries == UInv => EntriesMapped
<1> SUFFICES ASSUME UInv, NEW k \in 1 .. Len(live)
             PROVE  /\ uid[live[k]] \in ActiveUids
                    /\ DirectoryOf[uid[live[k]]] = session[live[k]]
  BY DEF EntriesMapped, DirectoryOf
<1> DEFINE c == CHOOSE i \in 1 .. Len(live) : uid[live[i]] = uid[live[k]]
<1>1. uid[live[k]] \in ActiveUids
  BY DEF ActiveUids
<1>2. c \in 1 .. Len(live) /\ uid[live[c]] = uid[live[k]]
  OBVIOUS
<1>3. DirectoryOf[uid[live[k]]] = session[live[c]]
  BY <1>1 DEF DirectoryOf
<1> HIDE DEF c
<1>4. c = k
  BY <1>2 DEF UInv, OneEntryPerUser
<1> QED BY <1>1, <1>3, <1>4

\* The same after a step.
LEMMA DirectoryEntriesNext == UInv' => EntriesMapped'
BY DirectoryEntries, PTL

\* add enters a user in the directory.
LEMMA AddMapped ==
  ASSUME UInv, UInv', NEW u \in Uids, NEW s \in Sessions \cup {NoSession}, add(u, s)
  PROVE  Directory!Add(u, s)
<1> DEFINE Old(x) == \E k \in 1 .. Len(live) :
                       uid[live[k]] = x /\ DirectoryOf[x] = session[live[k]]
<1>1. /\ DOMAIN DirectoryOf = ActiveUids
      /\ \A x \in ActiveUids : Old(x)
  BY DirectoryEntries DEF EntriesMapped, ActiveUids
<1>2. /\ DOMAIN (DirectoryOf') = ActiveUids'
      /\ \A k \in 1 .. Len(live') : /\ uid'[live'[k]] \in ActiveUids'
                                    /\ DirectoryOf'[uid'[live'[k]]] = session'[live'[k]]
  BY DirectoryEntriesNext DEF EntriesMapped
<1>3. ActiveUids' = ActiveUids \cup {u} /\ DirectoryOf'[u] = s
        /\ \A x \in ActiveUids \ {u} : DirectoryOf'[x] = DirectoryOf[x]
  <2>1. CASE Update(u, s)
    <3>1. PICK i \in 1 .. Len(live) :
            /\ uid[live[i]] = u /\ live' = live /\ uid' = uid
            /\ \A k \in 1 .. Len(live) :
                 session'[live[k]] = IF k = i THEN s ELSE session[live[k]]
      BY <2>1, UpdatedEntry
    <3>2. ActiveUids' = ActiveUids /\ u \in ActiveUids
      BY <3>1 DEF ActiveUids
    <3>3. DirectoryOf'[u] = s
      BY <1>2, <3>1
    <3>4. ASSUME NEW x \in ActiveUids \ {u} PROVE DirectoryOf'[x] = DirectoryOf[x]
      <4>1. PICK k \in 1 .. Len(live) : uid[live[k]] = x /\ DirectoryOf[x] = session[live[k]]
        BY <1>1
      <4> QED BY <1>2, <3>1, <4>1
    <3> QED BY <3>2, <3>3, <3>4
  <2>2. CASE AddCached(u, s) \/ AddNew(u, s)
    <3>1. /\ Len(live) \in Nat /\ Len(live') = Len(live) + 1
          /\ \A k \in 1 .. Len(live) : /\ uid'[live'[k]] = uid[live[k]]
                                       /\ session'[live'[k]] = session[live[k]]
          /\ uid'[live'[Len(live) + 1]] = u
          /\ session'[live'[Len(live) + 1]] = s
      BY <2>2, AddedEntry
    <3>2. /\ \A k \in 1 .. Len(live') : k \in 1 .. Len(live) \/ k = Len(live) + 1
          /\ \A k \in 1 .. Len(live) : k \in 1 .. Len(live')
          /\ Len(live) + 1 \in 1 .. Len(live')
      BY <3>1
    <3>3. ActiveUids' = ActiveUids \cup {u}
      BY <3>1, <3>2 DEF ActiveUids
    <3>4. DirectoryOf'[u] = s
      BY <1>2, <3>1, <3>2
    <3>5. ASSUME NEW x \in ActiveUids \ {u} PROVE DirectoryOf'[x] = DirectoryOf[x]
      <4>1. PICK k \in 1 .. Len(live) : uid[live[k]] = x /\ DirectoryOf[x] = session[live[k]]
        BY <1>1
      <4> QED BY <1>2, <3>1, <3>2, <4>1
    <3> QED BY <3>3, <3>4, <3>5
  <2> QED BY <2>1, <2>2 DEF add
<1>4. DirectoryOf' = [x \in ActiveUids' |-> DirectoryOf'[x]]
  BY DEF DirectoryOf
<1> QED BY <1>1, <1>3, <1>4 DEF Directory!Add

\* Retiring an entry removes its user from the directory.
LEMMA RetireMapped ==
  ASSUME UInv, UInv', NEW i \in 1 .. Len(live), Retire(i)
  PROVE  Directory!Remove(uid[live[i]])
<1> DEFINE u == uid[live[i]]
<1>1. DOMAIN DirectoryOf = ActiveUids /\ u \in ActiveUids
  BY DirectoryEntries DEF EntriesMapped
<1>2. /\ DOMAIN (DirectoryOf') = ActiveUids'
      /\ \A k \in 1 .. Len(live') : /\ uid'[live'[k]] \in ActiveUids'
                                    /\ DirectoryOf'[uid'[live'[k]]] = session'[live'[k]]
  BY DirectoryEntriesNext DEF EntriesMapped
<1>3. \A j \in 1 .. Len(live') : \E k \in 1 .. Len(live) : k # i /\ live'[j] = live[k]
  BY RetiredEntry
<1>4. \A k \in 1 .. Len(live) : k # i => \E j \in 1 .. Len(live') : live'[j] = live[k]
  BY RetiredEntry
<1>5. \A k \in 1 .. Len(live) :
        k # i => uid'[live[k]] = uid[live[k]] /\ session'[live[k]] = session[live[k]]
  BY RetiredEntry
<1>6. \A k \in 1 .. Len(live) : k # i => uid[live[k]] # u
  BY DEF UInv, OneEntryPerUser
<1>7. ASSUME NEW x \in ActiveUids, x # u
      PROVE  x \in ActiveUids' /\ DirectoryOf'[x] = DirectoryOf[x]
  <2>1. PICK k \in 1 .. Len(live) : uid[live[k]] = x
    BY DEF ActiveUids
  <2>2. DirectoryOf[x] = session[live[k]] /\ k # i
    BY <1>7, <2>1, DirectoryEntries DEF EntriesMapped
  <2>3. PICK j \in 1 .. Len(live') : live'[j] = live[k]
    BY <1>4, <2>2
  <2>4. uid'[live'[j]] = x /\ session'[live'[j]] = session[live[k]]
    BY <1>5, <2>1, <2>2, <2>3
  <2> QED BY <1>2, <2>2, <2>4
<1>8. ASSUME NEW x \in ActiveUids' PROVE x \in ActiveUids /\ x # u
  <2>1. PICK j \in 1 .. Len(live') : uid'[live'[j]] = x
    BY DEF ActiveUids
  <2>2. PICK k \in 1 .. Len(live) : k # i /\ live'[j] = live[k]
    BY <1>3
  <2>3. x = uid[live[k]]
    BY <1>5, <2>1, <2>2
  <2> QED BY <1>6, <2>2, <2>3 DEF ActiveUids
<1>9. DirectoryOf' = [x \in ActiveUids' |-> DirectoryOf'[x]]
  BY DEF DirectoryOf
<1>10. ActiveUids' = ActiveUids \ {u}
  BY <1>7, <1>8
<1> HIDE DEF u
<1>11. DirectoryOf' = [x \in DOMAIN DirectoryOf \ {u} |-> DirectoryOf[x]]
  BY <1>1, <1>7, <1>9, <1>10
<1> QED BY <1>1, <1>11 DEF Directory!Remove, u

\* Every call of the registry is a step of the directory, or leaves it as it is.
LEMMA UsersStepMapped ==
  UInv /\ UInv' /\ [UsersNext]_userVars => [Directory!Next]_DirectoryOf
<1> SUFFICES ASSUME UInv, UInv', [UsersNext]_userVars
             PROVE  Directory!Next \/ UNCHANGED DirectoryOf
  OBVIOUS
<1>1. ASSUME NEW u \in Uids, NEW s \in Sessions \cup {NoSession}, add(u, s)
      PROVE  Directory!Next
  BY <1>1, AddMapped DEF Directory!Next
<1>2. ASSUME NEW i \in 1 .. Len(live), Retire(i) PROVE Directory!Next
  <2>1. uid[live[i]] \in Uids
    BY DEF UInv, UsersTypeOK
  <2> QED BY <1>2, <2>1, RetireMapped DEF Directory!Next
<1>3. ASSUME UNCHANGED <<live, uid, session>> PROVE UNCHANGED DirectoryOf
  BY <1>3 DEF DirectoryOf, ActiveUids
<1>4. ASSUME NEW s \in Sessions, removeSession(s) PROVE Directory!Next \/ UNCHANGED DirectoryOf
  BY <1>2, <1>3, <1>4 DEF removeSession, userVars
<1>5. ASSUME NEW u \in Uids, removeUid(u) PROVE Directory!Next \/ UNCHANGED DirectoryOf
  BY <1>2, <1>3, <1>5 DEF removeUid, userVars
<1>6. CASE removeUserTest
  <2>1. 1 \in 1 .. Len(live) /\ Retire(1)
    BY <1>6 DEF removeUserTest, UInv, UsersTypeOK
  <2> QED BY <1>2, <2>1
<1>7. CASE restoreCache
  BY <1>3, <1>7 DEF restoreCache
<1>8. CASE UNCHANGED userVars
  BY <1>3, <1>8 DEF userVars
<1> QED BY <1>1, <1>4, <1>5, <1>6, <1>7, <1>8 DEF UsersNext

\* The registry, with its two lists and its recycled entries, implements the
\* directory from user ids to sessions.
THEOREM UsersImplementDirectory == UsersSpec => ImplementsDirectory
<1>1. UsersInit => Directory!Init
  <2> SUFFICES ASSUME UsersInit PROVE DirectoryOf = [u \in {} |-> {}]
    BY DEF Directory!Init
  <2>1. ActiveUids = {}
    BY DEF UsersInit, ActiveUids
  <2> QED BY <2>1 DEF DirectoryOf
<1>2. UInv /\ UInv' /\ [UsersNext]_userVars => [Directory!Next]_DirectoryOf
  BY UsersStepMapped
<1> QED BY <1>1, <1>2, UInvInit, UInvStep, PTL DEF UsersSpec, ImplementsDirectory, Directory!Spec
-----------------------------------------------------------------------------
(* The life of a connection.                                                *)

USE DEF Goto

\* users.add was called for the session.
Past    == {"registered", "write", "print", "done"}
Counted == {s \in Sessions : pc[s] \in Past}

\* The counter is the number of users it was used for, and the active uids
\* were drawn from it: the next one is not among them.
CounterInv ==
  /\ nextUid = Cardinality(Counted)
  /\ \A k \in 1 .. Len(live) : uid[live[k]] \in 0 .. nextUid - 1

\* The active entries are those of sessions that were registered, one for each,
\* and none is missing whose session's end was not reported.
EntryInv ==
  /\ \A k \in 1 .. Len(live) : session[live[k]] \in Counted
  /\ \A k, l \in 1 .. Len(live) : session[live[k]] = session[live[l]] => k = l
  /\ \A s \in Counted : reports[s] = 0 => s \in Registered

\* A report behind users.add has removed the user; on one thread there is no
\* report before the listener callback is through.
ReportInv ==
  \A s \in Sessions :
    /\ late[s] => s \in Counted /\ s \notin Registered
    /\ ~ iocp /\ reports[s] > 0 => pc[s] = "done" /\ s \notin Registered

\* The dispatch thread is in the listener callback that is in progress, and on
\* one thread an event callback in progress excludes it.
ThreadInv ==
  \A s \in Sessions :
    /\ pc[s] \notin {"none", "done"} => dispatch = s
    /\ ~ iocp /\ cb[s] # "idle" => dispatch = s /\ pc[s] = "done"

\* An event callback in progress was counted.
CallInv == \A s \in Sessions : cb[s] # "idle" => reports[s] > 0

\* _bev is there until the end is reported; on one thread _connected is set
\* from the end of create until then.
BevInv ==
  \A s \in Sessions :
    /\ pc[s] # "none" /\ reports[s] = 0 => bev[s]
    /\ connected[s] => pc[s] \notin {"none", "enabled"}
    /\ ~ iocp /\ reports[s] > 0 /\ cb[s] # "removed" => ~ connected[s]
    /\ ~ iocp /\ pc[s] \notin {"none", "enabled"} /\ reports[s] = 0 => connected[s]

\* No more replies than requests, and on one thread no fewer.
AnswerInv ==
  \A s \in Sessions : /\ answered[s] <= asked[s]
                      /\ ~ iocp => answered[s] = asked[s]

ConnInv == CounterInv /\ EntryInv /\ ReportInv /\ ThreadInv /\ CallInv /\ BevInv
             /\ AnswerInv
SInv    == UInv /\ ServerTypeOK /\ ConnInv

\* What a step that leaves the registry alone keeps of it.
LEMMA RegistryKept ==
  ASSUME UInv, UNCHANGED userVars
  PROVE  UInv' /\ Registered' = Registered
<1>1. UInv'
  BY UInvStep
<1> QED BY <1>1 DEF userVars, Registered

\* A step that leaves the registry and the counter alone, and moves no session
\* past users.add or back, keeps the counter right and the entries in place.
LEMMA EntriesKept ==
  ASSUME UInv, CounterInv, EntryInv, UNCHANGED <<userVars, nextUid>>, Counted' = Counted,
         \A s \in Counted : reports'[s] = 0 => reports[s] = 0
  PROVE  CounterInv' /\ EntryInv'
<1>1. Registered' = Registered /\ UNCHANGED <<live, uid, session>>
  BY RegistryKept DEF userVars
<1>2. CounterInv'
  BY <1>1 DEF CounterInv
<1> QED BY <1>1, <1>2 DEF EntryInv

\* The listener callback, up to users.add.
LEMMA AcceptStep ==
  ASSUME SInv, NEW s \in Sessions, Accept(s)
  PROVE  SInv'
<1> USE DEF SInv, ConnInv
<1>1. UInv' /\ Registered' = Registered
  BY RegistryKept DEF Accept
<1>2. ServerTypeOK'
  BY <1>1 DEF ServerTypeOK, Accept, UInv
<1>3. Counted' = Counted
  BY DEF Accept, Counted, Past, ServerTypeOK
<1>4. CounterInv' /\ EntryInv'
  BY <1>3, EntriesKept DEF Accept
<1>5. ReportInv'
  BY <1>1, <1>3 DEF Accept, ReportInv, ServerTypeOK
<1>6. ThreadInv'
  BY DispatchAssumption DEF Accept, ThreadInv, ServerTypeOK
<1>7. CallInv' /\ BevInv' /\ AnswerInv'
  BY DEF Accept, CallInv, BevInv, AnswerInv, ServerTypeOK
<1> QED BY <1>1, <1>2, <1>4, <1>5, <1>6, <1>7

\* create sets _connected; on one thread nothing has come in between.
LEMMA SetConnectedStep ==
  ASSUME SInv, NEW s \in Sessions, SetConnected(s)
  PROVE  SInv'
<1> USE DEF SInv, ConnInv
<1>1. UInv' /\ Registered' = Registered
  BY RegistryKept DEF SetConnected
<1>2. ServerTypeOK'
  BY <1>1 DEF ServerTypeOK, SetConnected, UInv
<1>3. Counted' = Counted
  BY DEF SetConnected, Counted, Past, ServerTypeOK
<1>4. CounterInv' /\ EntryInv'
  BY <1>3, EntriesKept DEF SetConnected
<1>5. ReportInv'
  BY <1>1, <1>3 DEF SetConnected, ReportInv, ServerTypeOK
<1>6. ThreadInv'
  BY DispatchAssumption DEF SetConnected, ThreadInv, ServerTypeOK
<1>7. CallInv' /\ BevInv' /\ AnswerInv'
  BY DEF SetConnected, CallInv, BevInv, AnswerInv, ServerTypeOK, ReportInv
<1> QED BY <1>1, <1>2, <1>4, <1>5, <1>6, <1>7

\* The counter is below the number of sessions when one more is registered: the
\* uid is one of Uids.
LEMMA CounterWithin ==
  ASSUME SInv, NEW s \in Sessions, Register(s)
  PROVE  /\ s \notin Counted /\ Counted' = Counted \cup {s}
         /\ Cardinality(Counted') = Cardinality(Counted) + 1
         /\ nextUid \in Nat /\ nextUid \in Uids
<1> USE DEF SInv, ConnInv
<1>1. s \notin Counted /\ Counted' = Counted \cup {s}
  BY DEF Register, Counted, Past, ServerTypeOK
<1>2. IsFiniteSet(Counted) /\ Cardinality(Counted') = Cardinality(Counted) + 1
  <2>1. Counted \in SUBSET Sessions
    BY DEF Counted
  <2>2. IsFiniteSet(Counted)
    BY <2>1, FS_Subset, CounterAssumption
  <2> QED BY <1>1, <2>2, FS_AddElement
<1>3. nextUid \in Nat /\ nextUid < Cardinality(Sessions)
  <2>1. Counted' \in SUBSET Sessions
    BY DEF Counted
  <2>2. Cardinality(Counted') <= Cardinality(Sessions) /\ Cardinality(Sessions) \in Nat
    BY <2>1, FS_Subset, FS_CardinalityType, CounterAssumption
  <2> QED BY <1>2, <2>2 DEF CounterInv, ServerTypeOK
<1>4. nextUid \in Uids
  BY <1>3, FS_CardinalityType, CounterAssumption
<1> QED BY <1>1, <1>2, <1>3, <1>4

\* users.add: the uid is new, so that an entry is added for the session, which
\* had none.
LEMMA RegisterStep ==
  ASSUME SInv, NEW s \in Sessions, Register(s)
  PROVE  SInv'
<1> USE DEF SInv, ConnInv
<1>1. /\ s \notin Counted /\ Counted' = Counted \cup {s}
      /\ Cardinality(Counted') = Cardinality(Counted) + 1
      /\ nextUid \in Nat /\ nextUid \in Uids
  BY CounterWithin
<1>2. Absent(nextUid)
  BY <1>1 DEF CounterInv, Absent
<1>3. AddCached(nextUid, s) \/ AddNew(nextUid, s)
  BY <1>2 DEF Register, add, Update, FirstAt, Absent
<1>4. UInv'
  BY <1>1, <1>3, AddCachedStep, AddNewStep
<1>5. /\ Len(live) \in Nat /\ Len(live') = Len(live) + 1
      /\ \A k \in 1 .. Len(live) : /\ uid'[live'[k]] = uid[live[k]]
                                   /\ session'[live'[k]] = session[live[k]]
      /\ uid'[live'[Len(live) + 1]] = nextUid
      /\ session'[live'[Len(live) + 1]] = s
  BY <1>1, <1>3, AddedEntry
<1>6. /\ \A k \in 1 .. Len(live') : k \in 1 .. Len(live) \/ k = Len(live) + 1
      /\ \A k \in 1 .. Len(live) : k \in 1 .. Len(live')
      /\ Len(live) + 1 \in 1 .. Len(live')
  BY <1>5
<1>7. ServerTypeOK'
  BY <1>4 DEF ServerTypeOK, Register, UInv
<1>8. CounterInv'
  <2>1. nextUid' = nextUid + 1
    BY DEF Register
  <2>2. nextUid' = Cardinality(Counted')
    BY <1>1, <2>1 DEF CounterInv
  <2>3. \A k \in 1 .. Len(live') : uid'[live'[k]] \in 0 .. nextUid' - 1
    <3>1. nextUid \in Nat
      BY <1>1
    <3>2. \A k \in 1 .. Len(live) : uid'[live'[k]] \in 0 .. nextUid - 1
      BY <1>5 DEF CounterInv
    <3> QED BY <1>5, <1>6, <2>1, <3>1, <3>2
  <2> QED BY <2>2, <2>3 DEF CounterInv
<1>9. Registered' = Registered \cup {s}
  BY <1>5, <1>6 DEF Registered
<1>10. EntryInv'
  <2>1. \A k \in 1 .. Len(live) : session[live[k]] # s
    BY <1>1 DEF EntryInv
  <2>2. \A k \in 1 .. Len(live') : session'[live'[k]] \in Counted'
    BY <1>1, <1>5, <1>6 DEF EntryInv
  <2>3. \A k, l \in 1 .. Len(live') : session'[live'[k]] = session'[live'[l]] => k = l
    BY <1>5, <1>6, <2>1 DEF EntryInv
  <2>4. \A t \in Counted' : reports'[t] = 0 => t \in Registered'
    BY <1>1, <1>9 DEF EntryInv, Register
  <2> QED BY <2>2, <2>3, <2>4 DEF EntryInv
<1>11. ReportInv'
  BY <1>1, <1>9 DEF Register, ReportInv, ServerTypeOK, Counted
<1>12. ThreadInv'
  BY DEF Register, ThreadInv, ServerTypeOK
<1>13. CallInv' /\ BevInv' /\ AnswerInv'
  BY DEF Register, CallInv, BevInv, AnswerInv, ServerTypeOK
<1> QED BY <1>4, <1>7, <1>8, <1>10, <1>11, <1>12, <1>13

\* The greeting and the rest of the listener callback.
LEMMA GreetingStep ==
  ASSUME SInv, NEW s \in Sessions, CheckConnected(s) \/ Greet(s) \/ PrintSession(s)
  PROVE  SInv'
<1> USE DEF SInv, ConnInv
<1>1. UInv' /\ Registered' = Registered
  BY RegistryKept DEF CheckConnected, Greet, PrintSession
<1>2. /\ pc[s] \in {"registered", "write", "print"}
      /\ \E l \in {"write", "print", "done"} : pc' = [pc EXCEPT ![s] = l]
      /\ pc'[s] # "done" => dispatch' = dispatch
      /\ dispatch' \in {dispatch, NoOne}
      /\ UNCHANGED <<userVars, iocp, cb, connected, bev, gone, reports, late, nextUid, asked, answered>>
  BY DEF CheckConnected, Greet, PrintSession, ServerTypeOK
<1>3. ServerTypeOK'
  BY <1>1, <1>2 DEF ServerTypeOK, UInv
<1>4. Counted' = Counted
  BY <1>2 DEF Counted, Past, ServerTypeOK
<1>5. CounterInv' /\ EntryInv'
  BY <1>2, <1>4, EntriesKept
<1>6. ReportInv'
  BY <1>1, <1>2, <1>4 DEF ReportInv, ServerTypeOK
<1>7. ThreadInv'
  BY <1>2, DispatchAssumption DEF ThreadInv, ServerTypeOK
<1>8. CallInv' /\ BevInv' /\ AnswerInv'
  BY <1>2 DEF CallInv, BevInv, AnswerInv, ServerTypeOK
<1> QED BY <1>1, <1>3, <1>5, <1>6, <1>7, <1>8

\* A request, answered if the session is connected: on one thread the listener
\* callback is through when it is read, so that the session is.
LEMMA RequestStep ==
  ASSUME SInv, NEW s \in Sessions, Request(s)
  PROVE  SInv'
<1> USE DEF SInv, ConnInv
<1>1. UInv' /\ Registered' = Registered
  BY RegistryKept DEF Request
<1>2. Counted' = Counted
  BY DEF Request, Counted
<1>3. CounterInv' /\ EntryInv'
  BY <1>2, EntriesKept DEF Request
<1>4. ReportInv' /\ ThreadInv' /\ CallInv' /\ BevInv'
  BY <1>1, <1>2 DEF Request, ReportInv, ThreadInv, CallInv, BevInv
<1>5. ~ iocp => connected[s]
  BY DispatchAssumption DEF Request, MayCall, ThreadInv, BevInv, ServerTypeOK
<1>6. AnswerInv'
  BY <1>5 DEF Request, AnswerInv, ServerTypeOK
<1>7. ServerTypeOK'
  <2>1. asked[s] \in 0 .. MaxRequests /\ answered[s] \in 0 .. MaxRequests
          /\ asked[s] < MaxRequests /\ answered[s] <= asked[s] /\ MaxRequests \in Nat
    BY RequestAssumption DEF Request, AnswerInv, ServerTypeOK
  <2>2. asked[s] + 1 \in 0 .. MaxRequests /\ answered[s] + 1 \in 0 .. MaxRequests
    BY <2>1
  <2>3. asked' \in [Sessions -> 0 .. MaxRequests]
    BY <2>2 DEF Request, ServerTypeOK
  <2>4. answered' \in [Sessions -> 0 .. MaxRequests]
    BY <2>1, <2>2 DEF Request, ServerTypeOK
  <2> QED BY <1>1, <2>3, <2>4 DEF Request, ServerTypeOK, UInv
<1> QED BY <1>1, <1>3, <1>4, <1>6, <1>7

\* The connection breaks.
LEMMA BreakStep ==
  ASSUME SInv, NEW s \in Sessions, Break(s)
  PROVE  SInv'
<1> USE DEF SInv, ConnInv
<1>1. UInv' /\ Registered' = Registered
  BY RegistryKept DEF Break
<1>2. ServerTypeOK'
  BY <1>1 DEF Break, ServerTypeOK, UInv
<1>3. Counted' = Counted
  BY DEF Break, Counted
<1>4. CounterInv' /\ EntryInv'
  BY <1>3, EntriesKept DEF Break
<1>5. ReportInv' /\ ThreadInv' /\ CallInv' /\ BevInv' /\ AnswerInv'
  BY <1>1, <1>3 DEF Break, ReportInv, ThreadInv, CallInv, BevInv, AnswerInv
<1> QED BY <1>1, <1>2, <1>4, <1>5

\* users.remove of a session's entry: it has at most one, which goes, and no
\* other entry does.
LEMMA RemoveSessionEntries ==
  ASSUME UInv, EntryInv, CounterInv, NEW s \in Sessions, removeSession(s)
  PROVE  /\ UInv'
         /\ Registered' = Registered \ {s}
         /\ \A j \in 1 .. Len(live') : \E k \in 1 .. Len(live) :
              /\ live'[j] = live[k]
              /\ uid'[live'[j]] = uid[live[k]] /\ session'[live'[j]] = session[live[k]]
<1>1. CASE \E i \in 1 .. Len(live) : FirstAt(i, session, s) /\ Retire(i)
  <2>1. PICK i \in 1 .. Len(live) : session[live[i]] = s /\ Retire(i)
    BY <1>1 DEF FirstAt
  <2>2. UInv'
    BY <2>1, RetireStep
  <2>3. \A j \in 1 .. Len(live') : \E k \in 1 .. Len(live) : k # i /\ live'[j] = live[k]
    BY <2>1, RetiredEntry
  <2>4. \A k \in 1 .. Len(live) : k # i => \E j \in 1 .. Len(live') : live'[j] = live[k]
    BY <2>1, RetiredEntry
  <2>5. \A k \in 1 .. Len(live) :
          k # i => uid'[live[k]] = uid[live[k]] /\ session'[live[k]] = session[live[k]]
    BY <2>1, RetiredEntry
  <2>6. \A k \in 1 .. Len(live) : k # i => session[live[k]] # s
    BY <2>1 DEF EntryInv
  <2>7. ASSUME NEW j \in 1 .. Len(live')
        PROVE  \E k \in 1 .. Len(live) :
                 /\ k # i /\ live'[j] = live[k]
                 /\ uid'[live'[j]] = uid[live[k]] /\ session'[live'[j]] = session[live[k]]
    <3>1. PICK k \in 1 .. Len(live) : k # i /\ live'[j] = live[k]
      BY <2>3
    <3> QED BY <2>5, <3>1
  <2>8. ASSUME NEW t \in Registered' PROVE t \in Registered \ {s}
    <3>1. PICK j \in 1 .. Len(live') : t = session'[live'[j]]
      BY DEF Registered
    <3>2. PICK k \in 1 .. Len(live) : k # i /\ session'[live'[j]] = session[live[k]]
      BY <2>7
    <3> QED BY <2>6, <3>1, <3>2 DEF Registered
  <2>9. ASSUME NEW t \in Registered, t # s PROVE t \in Registered'
    <3>1. PICK k \in 1 .. Len(live) : t = session[live[k]]
      BY DEF Registered
    <3>2. k # i
      BY <2>1, <2>9, <3>1
    <3>3. PICK j \in 1 .. Len(live') : live'[j] = live[k]
      BY <2>4, <3>2
    <3> QED BY <2>5, <3>1, <3>2, <3>3 DEF Registered
  <2> QED BY <2>2, <2>7, <2>8, <2>9
<1>2. CASE (\A i \in 1 .. Len(live) : session[live[i]] # s) /\ UNCHANGED userVars
  <2>1. UInv' /\ Registered' = Registered /\ UNCHANGED <<live, uid, session>>
    BY <1>2, RegistryKept DEF userVars
  <2>2. s \notin Registered
    BY <1>2 DEF Registered
  <2> QED BY <2>1, <2>2
<1> QED BY <1>1, <1>2 DEF removeSession

\* The event callback: the user is removed; on one thread the listener callback
\* is through by then.
LEMMA EventRemoveStep ==
  ASSUME SInv, NEW s \in Sessions, EventRemove(s)
  PROVE  SInv'
<1> USE DEF SInv, ConnInv
<1>1. /\ UInv' /\ Registered' = Registered \ {s}
      /\ \A j \in 1 .. Len(live') : \E k \in 1 .. Len(live) :
           /\ live'[j] = live[k]
           /\ uid'[live'[j]] = uid[live[k]] /\ session'[live'[j]] = session[live[k]]
  BY RemoveSessionEntries DEF EventRemove
<1>2. reports[s] \in {0, 1} /\ reports' = [reports EXCEPT ![s] = reports[s] + 1]
  BY DEF EventRemove, ServerTypeOK
<1>3. ServerTypeOK'
  BY <1>1, <1>2 DEF EventRemove, ServerTypeOK, UInv
<1>4. Counted' = Counted /\ nextUid' = nextUid
  BY DEF EventRemove, Counted
<1>5. CounterInv'
  BY <1>1, <1>4 DEF CounterInv
<1>6. EntryInv'
  <2>1. \A j \in 1 .. Len(live') : session'[live'[j]] \in Counted'
    BY <1>1, <1>4 DEF EntryInv
  <2>2. ASSUME NEW j \in 1 .. Len(live'), NEW l \in 1 .. Len(live'),
               session'[live'[j]] = session'[live'[l]]
        PROVE  j = l
    <3>1. PICK a \in 1 .. Len(live) : live'[j] = live[a] /\ session'[live'[j]] = session[live[a]]
      BY <1>1
    <3>2. PICK b \in 1 .. Len(live) : live'[l] = live[b] /\ session'[live'[l]] = session[live[b]]
      BY <1>1
    <3>3. live'[j] = live'[l]
      BY <2>2, <3>1, <3>2 DEF EntryInv
    <3> QED BY <1>1, <3>3 DEF UInv, EntriesPartitioned
  <2>3. \A t \in Counted' : reports'[t] = 0 => t \in Registered'
    <3> SUFFICES ASSUME NEW t \in Counted, reports'[t] = 0 PROVE t \in Registered'
      BY <1>4
    <3>1. t \in Sessions /\ t # s
      BY <1>2 DEF Counted, ServerTypeOK
    <3>2. reports[t] = 0
      BY <1>2, <3>1 DEF ServerTypeOK
    <3> QED BY <1>1, <3>1, <3>2 DEF EntryInv
  <2> QED BY <2>1, <2>2, <2>3 DEF EntryInv
<1>7. /\ cb' = [cb EXCEPT ![s] = "removed"] /\ iocp' = iocp /\ pc' = pc
      /\ late' = [late EXCEPT ![s] = late[s] \/ pc[s] \notin {"enabled", "create"}]
      /\ dispatch' = IF iocp THEN dispatch ELSE s
      /\ UNCHANGED <<connected, bev, asked, answered>>
  BY DEF EventRemove
<1>8. ~ iocp => dispatch = NoOne /\ pc[s] = "done"
  BY DispatchAssumption DEF EventRemove, MayCall, ThreadInv
<1>9. ReportInv'
  <2> SUFFICES ASSUME NEW t \in Sessions
               PROVE  /\ late'[t] => t \in Counted' /\ t \notin Registered'
                      /\ ~ iocp' /\ reports'[t] > 0 => pc'[t] = "done" /\ t \notin Registered'
    BY DEF ReportInv
  <2>1. CASE t # s
    BY <1>1, <1>2, <1>4, <1>7, <2>1 DEF ReportInv, ServerTypeOK
  <2>2. CASE t = s
    <3>1. pc[s] \notin {"none", "enabled", "create"} => s \in Counted
      BY DEF Counted, Past, ServerTypeOK
    <3>2. pc[s] # "none"
      BY DEF EventRemove, MayCall
    <3>3. late'[s] => s \in Counted
      BY <1>7, <3>1, <3>2 DEF ReportInv, ServerTypeOK
    <3> QED BY <1>1, <1>4, <1>7, <1>8, <2>2, <3>3
  <2> QED BY <2>1, <2>2
<1>10. ThreadInv'
  BY <1>7, <1>8, DispatchAssumption DEF ThreadInv, ServerTypeOK
<1>11. CallInv' /\ BevInv' /\ AnswerInv'
  <2>0. CallInv'
    BY <1>2, <1>7 DEF CallInv, ServerTypeOK
  <2>1. ASSUME NEW t \in Sessions
        PROVE  /\ pc[t] # "none" /\ reports'[t] = 0 => bev[t]
               /\ connected[t] => pc[t] \notin {"none", "enabled"}
               /\ ~ iocp /\ reports'[t] > 0 /\ cb'[t] # "removed" => ~ connected[t]
               /\ ~ iocp /\ pc[t] \notin {"none", "enabled"} /\ reports'[t] = 0 => connected[t]
    BY <1>2, <1>7 DEF BevInv, ServerTypeOK
  <2> QED BY <1>7, <2>0, <2>1 DEF BevInv, AnswerInv
<1> QED BY <1>1, <1>3, <1>5, <1>6, <1>9, <1>10, <1>11

\* _connected is cleared.
LEMMA EventDisconnectStep ==
  ASSUME SInv, NEW s \in Sessions, EventDisconnect(s)
  PROVE  SInv'
<1> USE DEF SInv, ConnInv
<1>1. UInv' /\ Registered' = Registered
  BY RegistryKept DEF EventDisconnect
<1>2. ServerTypeOK'
  BY <1>1 DEF EventDisconnect, ServerTypeOK, UInv
<1>3. Counted' = Counted
  BY DEF EventDisconnect, Counted
<1>4. CounterInv' /\ EntryInv'
  BY <1>3, EntriesKept DEF EventDisconnect
<1>5. ReportInv' /\ ThreadInv'
  BY <1>1, <1>3 DEF EventDisconnect, ReportInv, ThreadInv, ServerTypeOK
<1>6. CallInv' /\ BevInv' /\ AnswerInv'
  BY DEF EventDisconnect, CallInv, BevInv, AnswerInv, ServerTypeOK
<1> QED BY <1>1, <1>2, <1>4, <1>5, <1>6

\* _bev is forgotten.
LEMMA EventForgetStep ==
  ASSUME SInv, NEW s \in Sessions, EventForget(s)
  PROVE  SInv'
<1> USE DEF SInv, ConnInv
<1>1. UInv' /\ Registered' = Registered
  BY RegistryKept DEF EventForget
<1>2. ServerTypeOK'
  BY <1>1 DEF EventForget, ServerTypeOK, UInv
<1>3. Counted' = Counted
  BY DEF EventForget, Counted
<1>4. CounterInv' /\ EntryInv'
  BY <1>3, EntriesKept DEF EventForget
<1>5. ReportInv'
  BY <1>1, <1>3 DEF EventForget, ReportInv
<1>6. ThreadInv'
  BY DispatchAssumption DEF EventForget, ThreadInv, ServerTypeOK
<1>7. CallInv' /\ BevInv' /\ AnswerInv'
  BY DEF EventForget, CallInv, BevInv, AnswerInv, ServerTypeOK
<1> QED BY <1>1, <1>2, <1>4, <1>5, <1>6, <1>7

\* The server starts in the invariant, and every step keeps it.
LEMMA SInvInit == ServerInit => SInv
<1> SUFFICES ASSUME ServerInit PROVE SInv
  OBVIOUS
<1>1. UInv /\ live = << >>
  BY UInvInit DEF ServerInit, UsersInit
<1>2. MaxRequests \in Nat
  BY RequestAssumption
<1>3. ServerTypeOK
  BY <1>1, <1>2 DEF ServerInit, ServerTypeOK, UInv
<1>4. Counted = {} /\ Cardinality({}) = 0
  BY FS_EmptySet DEF ServerInit, Counted, Past
<1>5. CounterInv /\ EntryInv
  BY <1>1, <1>4 DEF ServerInit, CounterInv, EntryInv
<1>6. ReportInv /\ ThreadInv /\ CallInv /\ BevInv /\ AnswerInv
  BY DEF ServerInit, ReportInv, ThreadInv, CallInv, BevInv, AnswerInv
<1> QED BY <1>1, <1>3, <1>5, <1>6 DEF SInv, ConnInv

\* Every step of the server keeps the invariant.
LEMMA SInvStep == SInv /\ [ServerNext]_serverVars => SInv'
<1> SUFFICES ASSUME SInv, [ServerNext]_serverVars PROVE SInv'
  OBVIOUS
<1>1. ASSUME NEW s \in Sessions, Listener(s) PROVE SInv'
  BY <1>1, AcceptStep, SetConnectedStep, RegisterStep, GreetingStep DEF Listener
<1>2. ASSUME NEW s \in Sessions, Request(s) \/ Break(s) PROVE SInv'
  BY <1>2, RequestStep, BreakStep
<1>3. ASSUME NEW s \in Sessions, Event(s) PROVE SInv'
  BY <1>3, EventRemoveStep, EventDisconnectStep, EventForgetStep DEF Event
<1>4. CASE UNCHANGED serverVars
  <2> USE DEF SInv, ConnInv
  <2>1. UNCHANGED userVars /\ UNCHANGED connVars
    BY <1>4 DEF serverVars
  <2>2. UInv' /\ Registered' = Registered
    BY <2>1, RegistryKept
  <2>3. Counted' = Counted
    BY <2>1 DEF connVars, Counted
  <2>4. CounterInv' /\ EntryInv'
    BY <2>1, <2>3, EntriesKept DEF connVars
  <2>5. ReportInv' /\ ThreadInv' /\ CallInv' /\ BevInv' /\ AnswerInv'
    BY <2>1, <2>2, <2>3 DEF connVars, ReportInv, ThreadInv, CallInv, BevInv, AnswerInv
  <2>6. ServerTypeOK'
    BY <2>1, <2>2 DEF connVars, ServerTypeOK, UInv
  <2> QED BY <2>2, <2>4, <2>5, <2>6
<1> QED BY <1>1, <1>2, <1>3, <1>4 DEF ServerNext

\* In both threading builds and for any number of connections no session ever
\* has two entries in the registry, and one whose listener callback is through
\* and whose end was not reported has one.
THEOREM ServerEntries == ServerSpec => []EntryPerSession
<1>1. SInv => EntryPerSession
  BY DEF SInv, ConnInv, EntryInv, EntryPerSession, Counted, Past
<1> QED BY <1>1, SInvInit, SInvStep, PTL DEF ServerSpec

\* On one thread no callback of any session meets a null _bev.
THEOREM ServerBev == ServerSpec => []BevAtUse
<1>1. SInv => BevAtUse
  <2> SUFFICES ASSUME SInv, ~ iocp, NEW s \in Sessions
               PROVE  /\ pc[s] \in {"write", "print"} => bev[s]
                      /\ connected[s] /\ cb[s] = "idle" => bev[s]
    BY DEF BevAtUse
  <2>1. reports[s] \in 0 .. 2
    BY DEF SInv, ServerTypeOK
  <2> QED BY <2>1 DEF SInv, ConnInv, ReportInv, BevInv
<1> QED BY <1>1, SInvInit, SInvStep, PTL DEF ServerSpec

\* On one thread every request of every session is answered.
THEOREM ServerAnswers == ServerSpec => []RequestsAnswered
<1>1. SInv => RequestsAnswered
  BY DEF SInv, ConnInv, AnswerInv, RequestsAnswered
<1> QED BY <1>1, SInvInit, SInvStep, PTL DEF ServerSpec

\* A report that comes after users.add takes the user out for good in both
\* threading builds, and every report does on one thread.
THEOREM ServerDepartures == ServerSpec => []LateReportRemoves
<1>1. SInv => LateReportRemoves
  BY DEF SInv, ConnInv, ReportInv, LateReportRemoves
<1> QED BY <1>1, SInvInit, SInvStep, PTL DEF ServerSpec

\* What fails with completion ports holds on one thread: the entries of _live
\* are those of active users.
THEOREM ServerOneThread == ServerSpec => [](~ iocp => LiveUsersActive)
<1>1. SInv => (~ iocp => LiveUsersActive)
  <2> SUFFICES ASSUME SInv, ~ iocp, NEW s \in Registered
               PROVE  s # NoSession /\ reports[s] = 0
    BY DEF LiveUsersActive
  <2>1. s \in Sessions
    BY DEF SInv, ConnInv, EntryInv, Registered, Counted
  <2>2. reports[s] \in 0 .. 2
    BY <2>1 DEF SInv, ServerTypeOK
  <2> QED BY <2>1, <2>2 DEF SInv, ConnInv, ReportInv
<1> QED BY <1>1, SInvInit, SInvStep, PTL DEF ServerSpec

\* The registry inside the server is used as its own specification allows: every
\* step of the server is a call of the registry or leaves it alone, so that
\* all that holds of the registry holds of it here.
THEOREM ServerUsesRegistry == ServerSpec => UsersSpec
<1>1. ServerInit => UsersInit
  BY DEF ServerInit
<1>2. ASSUME SInv, [ServerNext]_serverVars
      PROVE  [UsersNext]_userVars
  <2>1. ASSUME NEW s \in Sessions, Register(s) PROVE UsersNext
    <3>1. nextUid \in Uids
      BY <1>2, <2>1, CounterWithin
    <3>2. add(nextUid, s)
      BY <2>1 DEF Register
    <3> QED BY <3>1, <3>2 DEF UsersNext
  <2>2. ASSUME NEW s \in Sessions, EventRemove(s) PROVE UsersNext
    BY <2>2 DEF EventRemove, UsersNext
  <2>3. ASSUME NEW s \in Sessions, Listener(s), ~ Register(s) PROVE UNCHANGED userVars
    BY <2>3 DEF Listener, Accept, SetConnected, CheckConnected, Greet, PrintSession
  <2>4. ASSUME NEW s \in Sessions, Request(s) \/ Break(s) \/ EventDisconnect(s) \/ EventForget(s)
        PROVE  UNCHANGED userVars
    BY <2>4 DEF Request, Break, EventDisconnect, EventForget
  <2>5. CASE UNCHANGED serverVars
    BY <2>5 DEF serverVars
  <2> QED BY <1>2, <2>1, <2>2, <2>3, <2>4, <2>5 DEF ServerNext, Event
<1> QED BY <1>1, <1>2, SInvInit, SInvStep, PTL DEF ServerSpec, UsersSpec
=============================================================================
