------------------------------- MODULE Users -------------------------------
(***************************************************************************)
(* The user registry of PlatformServer (Users.h, Users.cpp): a list of     *)
(* active entries and a list of entries kept for reuse.  Every operation   *)
(* holds the registry's mutex from beginning to end, so each is one        *)
(* action, whichever threads call it.                                      *)
(***************************************************************************)
EXTENDS Naturals, Sequences, Lists

CONSTANTS Uids,         \* user ids; 0 is the id of an entry that was reset
          Sessions,     \* SocketSession objects
          NoSession,    \* nullptr
          Objects       \* addresses a UserSession may be allocated at

ASSUME UidAssumption     == 0 \in Uids
ASSUME SessionAssumption == NoSession \notin Sessions

VARIABLES live,         \* _live, active users
          cache,        \* _cache, entries for reuse
          uid, session, \* the fields of each UserSession
          allocated,    \* the UserSessions that exist
          deleted       \* the SocketSessions the registry has deleted

userVars == <<live, cache, uid, session, allocated, deleted>>

\* The scans of find, add and remove: the first entry with x in the field.
FirstAt(i, field, x) == /\ field[live[i]] = x
                        /\ \A j \in 1 .. i - 1 : field[live[j]] # x

UsersInit ==
  /\ live = << >> /\ cache = << >>
  /\ uid     = [o \in Objects |-> 0]
  /\ session = [o \in Objects |-> NoSession]
  /\ allocated = {} /\ deleted = {}

\* pUsession->session = session; pUsession->user = user
Fill(o, u, s) == /\ uid' = [uid EXCEPT ![o] = u]
                 /\ session' = [session EXCEPT ![o] = s]

\* add of a user who is active already: the entry is overwritten.
Update(u, s) ==
  /\ \E i \in 1 .. Len(live) :
       FirstAt(i, uid, u) /\ Fill(live[i], u, s)
  /\ UNCHANGED <<live, cache, allocated, deleted>>

\* Slip: the cache is searched instead of the active entries.
AbsentFromCache(u) == \A i \in 1 .. Len(cache) : uid[cache[i]] # u

Absent(u) == \A i \in 1 .. Len(live) : uid[live[i]] # u

\* add of a new user, in the oldest entry of the cache ...
AddCached(u, s) ==
  /\ Absent(u) /\ cache # << >>
  /\ live' = Append(live, Head(cache))
  /\ cache' = Tail(cache)
  /\ Fill(Head(cache), u, s)
  /\ UNCHANGED <<allocated, deleted>>

\* ... or, if the cache is empty, in a new one.
AddNew(u, s) ==
  /\ Absent(u) /\ cache = << >>
  /\ \E o \in Objects \ allocated :
       /\ live' = Append(live, o)
       /\ allocated' = allocated \cup {o}
       /\ Fill(o, u, s)
  /\ UNCHANGED <<cache, deleted>>

add(u, s) == Update(u, s) \/ AddCached(u, s) \/ AddNew(u, s)

\* Slips: the entry is not erased; or it is not reset.
RetireInPlace(i) ==
  /\ cache' = Append(cache, live[i])
  /\ Fill(live[i], 0, NoSession)
  /\ UNCHANGED <<live, allocated, deleted>>

RetireUnreset(i) ==
  /\ live' = erase(live, i)
  /\ cache' = Append(cache, live[i])
  /\ UNCHANGED <<uid, session, allocated, deleted>>

\* Take the entry at place i out of use: reset it and keep it for reuse.
Retire(i) ==
  /\ live' = erase(live, i)
  /\ cache' = Append(cache, live[i])
  /\ Fill(live[i], 0, NoSession)
  /\ UNCHANGED <<allocated, deleted>>

\* remove(session) and remove(uid) retire the first entry that matches, or do
\* nothing if there is none.
removeSession(s) ==
  \/ \E i \in 1 .. Len(live) : FirstAt(i, session, s) /\ Retire(i)
  \/ /\ \A i \in 1 .. Len(live) : session[live[i]] # s
     /\ UNCHANGED userVars

removeUid(u) ==
  \/ \E i \in 1 .. Len(live) : FirstAt(i, uid, u) /\ Retire(i)
  \/ Absent(u) /\ UNCHANGED userVars

\* removeUserTest retires the entry in front.
removeUserTest == live # << >> /\ Retire(1)

\* restoreCache deletes every cached entry and the session it refers to.
restoreCache ==
  /\ cache' = << >>
  /\ allocated' = allocated \ Contents(cache)
  /\ deleted' = deleted \cup ({session[o] : o \in Contents(cache)} \ {NoSession})
  /\ UNCHANGED <<live, uid, session>>

UsersNext ==
  \/ \E u \in Uids, s \in Sessions \cup {NoSession} : add(u, s)
  \/ \E s \in Sessions : removeSession(s)
  \/ \E u \in Uids : removeUid(u)
  \/ removeUserTest
  \/ restoreCache

UsersSpec == UsersInit /\ [][UsersNext]_userVars

-----------------------------------------------------------------------------
UsersTypeOK ==
  /\ live  \in Seq(Objects)
  /\ cache \in Seq(Objects)
  /\ uid     \in [Objects -> Uids]
  /\ session \in [Objects -> Sessions \cup {NoSession}]
  /\ allocated \subseteq Objects
  /\ deleted \subseteq Sessions

\* However entries are recycled between the lists, no user has two active
\* entries, so that find and remove, which stop at the first, see the only one.
OneEntryPerUser ==
  \A i, j \in 1 .. Len(live) : uid[live[i]] = uid[live[j]] => i = j

\* An entry is in one place of one list; entries that exist are in a list and
\* entries in a list exist: none is used twice, lost or used after its delete.
EntriesPartitioned ==
  /\ \A i, j \in 1 .. Len(live)  : live[i]  = live[j]  => i = j
  /\ \A i, j \in 1 .. Len(cache) : cache[i] = cache[j] => i = j
  /\ Contents(live) \cap Contents(cache) = {}
  /\ allocated = Contents(live) \cup Contents(cache)

\* restoreCache deletes the session of every cached entry.  Sessions are still
\* in use by libevent when their user leaves, so none may be deleted: an entry
\* never keeps its session into the cache.
SessionsSurvive == deleted = {}

\* The directory that the list of active entries stands for.
ActiveUids  == {uid[live[i]] : i \in 1 .. Len(live)}
DirectoryOf == [u \in ActiveUids |->
                  session[live[CHOOSE i \in 1 .. Len(live) : uid[live[i]] = u]]]

Directory == INSTANCE UserDirectory
               WITH Values <- Sessions \cup {NoSession}, dir <- DirectoryOf

\* The lists implement the directory.
ImplementsDirectory == Directory!Spec
=============================================================================
