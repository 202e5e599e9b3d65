------------------------- MODULE HttpServerProofs -------------------------
(* Proofs about QueryString and HttpServer, for texts of any length and any *)
(* number of clients.                                                       *)
EXTENDS HttpServer, FiniteSetTheorems, WellFoundedInduction, TLAPS

USE LetterAssumption, LengthAssumption

-----------------------------------------------------------------------------
(* The tokenizer.                                                           *)

Chars   == Letters \cup {"&", "="}
Strings == Seq(Chars \cup {Nul})

\* A set of naturals that is not empty has a least element.
LEMMA LeastNatural ==
  ASSUME NEW T \in SUBSET Nat, T # {}
  PROVE  \E x \in T : \A y \in T : x <= y
<1>1. IsWellFoundedOn(OpToRel(<, Nat), Nat)
  BY NatLessThanWellFounded
<1>2. PICK x \in T : \A y \in T : ~ (<<y, x>> \in OpToRel(<, Nat))
  BY <1>1, WFMin
<1>3. ASSUME NEW y \in T PROVE x <= y
  <2>1. <<y, x>> \in Nat \X Nat
    OBVIOUS
  <2>2. ~ (y < x)
    BY <1>2, <2>1 DEF OpToRel
  <2> QED BY <2>2
<1> QED BY <1>3

\* In a terminated buffer there is a place where a token ends.
LEMMA StopFound ==
  ASSUME NEW S, NEW b \in Seq(S), NEW i \in 1 .. Len(b), NEW d, b[Len(b)] = Nul
  PROVE  /\ Stop(b, i, d) \in i .. Len(b) /\ b[Stop(b, i, d)] \in {d, Nul}
         /\ \A h \in i .. Stop(b, i, d) - 1 : b[h] \notin {d, Nul}
<1> DEFINE T == {j \in i .. Len(b) : b[j] \in {d, Nul}}
<1>1. Len(b) \in T /\ T \in SUBSET Nat
  OBVIOUS
<1>2. PICK j \in T : \A h \in T : j <= h
  <2> HIDE DEF T
  <2> QED BY <1>1, LeastNatural
<1>3. j \in i .. Len(b) /\ b[j] \in {d, Nul} /\ j \in Nat
  BY <1>2
<1>4. \A h \in i .. j - 1 : b[h] \notin {d, Nul}
  <2> SUFFICES ASSUME NEW h \in i .. j - 1, b[h] \in {d, Nul} PROVE FALSE
    OBVIOUS
  <2>1. h \in T
    BY <1>3
  <2> QED BY <1>2, <1>3, <2>1
<1>5. \E x \in i .. Len(b) : b[x] \in {d, Nul} /\ \A h \in i .. x - 1 : b[h] \notin {d, Nul}
  BY <1>3, <1>4
<1> QED BY <1>5 DEF Stop

\* And only one that nothing before it ends.
LEMMA StopIs ==
  ASSUME NEW S, NEW b \in Seq(S), NEW i \in 1 .. Len(b), NEW d, NEW j \in i .. Len(b),
         b[j] \in {d, Nul}, \A h \in i .. j - 1 : b[h] \notin {d, Nul}
  PROVE  Stop(b, i, d) = j
<1> DEFINE Q(x) == b[x] \in {d, Nul} /\ \A h \in i .. x - 1 : b[h] \notin {d, Nul}
<1>1. \A x \in i .. Len(b) : Q(x) => x = j
  <2> SUFFICES ASSUME NEW x \in i .. Len(b), Q(x), x # j PROVE FALSE
    OBVIOUS
  <2>1. x \in i .. j - 1 \/ j \in i .. x - 1
    OBVIOUS
  <2> QED BY <2>1
<1>2. Q(j)
  OBVIOUS
<1> HIDE DEF Q
<1>3. (CHOOSE x \in i .. Len(b) : Q(x)) = j
  BY <1>1, <1>2
<1> QED BY <1>3 DEF Stop, Q

\* What lw_strtok_r does where the string is not at its end: the token ends at
\* the first delimiter or at the end; a delimiter is overwritten, and nothing
\* else.
LEMMA Token ==
  ASSUME NEW b \in Strings, NEW s \in 1 .. Len(b), NEW d, d # Nul,
         b[Len(b)] = Nul, b[s] # Nul, NEW r, r = lw_strtok_r(b, s, d),
         NEW j, j = Stop(b, s, d)
  PROVE  /\ j \in s .. Len(b) /\ b[j] \in {d, Nul} /\ \A h \in s .. j - 1 : b[h] \notin {d, Nul}
         /\ r.tok = s /\ r.rest = IF b[j] = Nul THEN NULL ELSE j + 1
         /\ r.buf \in Strings /\ Len(r.buf) = Len(b)
         /\ r.buf[j] = Nul /\ \A h \in 1 .. Len(b) : h # j => r.buf[h] = b[h]
<1> DEFINE S == Chars \cup {Nul}
<1>1. b \in Seq(S) /\ Nul \in S
  BY DEF Strings
<1> HIDE DEF S
<1>2. j \in s .. Len(b) /\ b[j] \in {d, Nul} /\ \A h \in s .. j - 1 : b[h] \notin {d, Nul}
  BY <1>1, StopFound
<1>3. s # NULL
  BY DEF NULL
<1>4. \/ b[j] = Nul /\ r = [tok |-> s, rest |-> NULL, buf |-> b]
      \/ b[j] = d /\ r = [tok |-> s, rest |-> j + 1, buf |-> [b EXCEPT ![j] = Nul]]
  BY <1>2, <1>3 DEF lw_strtok_r
<1>5. r.tok = s /\ r.rest = IF b[j] = Nul THEN NULL ELSE j + 1
  BY <1>4
<1>6. /\ r.buf \in Seq(S) /\ Len(r.buf) = Len(b) /\ r.buf[j] = Nul
      /\ \A h \in 1 .. Len(b) : h # j => r.buf[h] = b[h]
  BY <1>1, <1>2, <1>4
<1> QED BY <1>2, <1>5, <1>6 DEF Strings, S

\* The token as a string.
LEMMA TokenString ==
  ASSUME NEW b \in Strings, NEW s \in 1 .. Len(b), NEW c \in Strings, Len(c) = Len(b),
         NEW j \in s .. Len(b), \A h \in s .. j - 1 : c[h] = b[h] /\ b[h] # Nul, c[j] = Nul
  PROVE  CString(c, s) = SubSeq(b, s, j - 1)
<1> DEFINE S == Chars \cup {Nul}
<1>1. b \in Seq(S) /\ c \in Seq(S)
  BY DEF Strings
<1> HIDE DEF S
<1>2. Stop(c, s, Nul) = j
  <2>1. s \in 1 .. Len(c) /\ j \in s .. Len(c) /\ c[j] \in {Nul, Nul}
          /\ \A h \in s .. j - 1 : c[h] \notin {Nul, Nul}
    OBVIOUS
  <2> QED BY <1>1, <2>1, StopIs
<1>3. CString(c, s) = SubSeq(c, s, j - 1)
  BY <1>2 DEF CString
<1>4. SubSeq(c, s, j - 1) = SubSeq(b, s, j - 1)
  BY <1>1
<1> QED BY <1>3, <1>4

-----------------------------------------------------------------------------
(* The server.                                                              *)

\* How far the registrations are: a path has its method once its turn came.
RouteInv ==
  /\ method["/other"] = Nothing
  /\ method["/login"] = IF setup >= 2 THEN "POST" ELSE Nothing
  /\ method["/add"] = IF setup >= 3 THEN "GET" ELSE Nothing
  /\ method["/sub"] = IF setup >= 4 THEN "GET" ELSE Nothing
  /\ method["/mul"] = IF setup >= 5 THEN "GET" ELSE Nothing
  /\ running => setup = 5

\* What has been answered was answered as the registrations say.
FitInv == \A c \in Clients : reply[c] # Nothing => reply[c] = Fitting(request[c])

\* What is held is a login without a body, and has not been answered.
HeldInv ==
  \A c \in Clients :
    held[c] => /\ reply[c] = Nothing /\ request[c] \in Requests
               /\ request[c].path = "/login" /\ request[c].cmd = "POST" /\ ~ request[c].full

\* The thread is in parse for the login it is working on, which waits, and for
\* no other.
LoginInv ==
  /\ busy = Nothing <=> pc = "idle"
  /\ busy # Nothing => /\ request[busy] \in Requests
                       /\ request[busy].path = "/login" /\ request[busy].cmd = "POST"
                       /\ request[busy].full
                       /\ reply[busy] = Nothing /\ ~ held[busy]

\* The inductive invariant of the server.
HInv == HttpTypeOK /\ RouteInv /\ FitInv /\ HeldInv /\ LoginInv

\* The registrations, one by one.
LEMMA RoutesAre ==
  /\ Len(Routes) = 4
  /\ Routes[1] = <<"/login", "POST">> /\ Routes[2] = <<"/add", "GET">>
  /\ Routes[3] = <<"/sub", "GET">> /\ Routes[4] = <<"/mul", "GET">>
BY DEF Routes

\* The answer, path by path.
LEMMA FittingIs ==
  ASSUME NEW r \in Requests
  PROVE  Fitting(r) = IF r.path = "/other" THEN "badrequest"
                      ELSE IF r.cmd # (IF r.path = "/login" THEN "POST" ELSE "GET") THEN "method"
                      ELSE IF r.full THEN "handled" ELSE "lacking"
<1>1. r.path \in Paths /\ r.cmd \in Methods
  BY DEF Requests
<1>2. (\A i \in 1 .. Len(Routes) : Routes[i][1] # r.path) <=> r.path = "/other"
  BY <1>1, RoutesAre DEF Paths
<1>3. (\A i \in 1 .. Len(Routes) : Routes[i] # <<r.path, r.cmd>>)
        <=> \/ r.path = "/other"
            \/ r.cmd # (IF r.path = "/login" THEN "POST" ELSE "GET")
  BY <1>1, RoutesAre DEF Paths
<1> QED BY <1>2, <1>3 DEF Fitting

\* The server starts with nothing registered and nothing asked.
LEMMA HttpStart == HttpInit => HInv
<1> SUFFICES ASSUME HttpInit PROVE HInv
  OBVIOUS
<1> USE DEF HttpInit
<1>1. HttpTypeOK
  <2>1. 0 \in {Failed} \cup 0 .. Len(Routes) + 1
    BY RoutesAre
  <2> QED BY <2>1, Zenon DEF HttpTypeOK
<1>2. RouteInv
  BY DEF RouteInv, Paths
<1>3. FitInv /\ HeldInv /\ LoginInv
  BY DEF FitInv, HeldInv, LoginInv, ParseInit
<1> QED BY <1>1, <1>2, <1>3 DEF HInv

\* While the loop runs, the table has the methods of the registrations.
LEMMA Registered ==
  ASSUME HInv, running, NEW p \in Paths
  PROVE  method[p] = IF p = "/other" THEN Nothing ELSE IF p = "/login" THEN "POST" ELSE "GET"
BY DEF HInv, RouteInv, Paths

\* Setting up fills the table in order.
LEMMA SetupStep ==
  ASSUME HInv, create \/ register \/ run
  PROVE  HInv'
<1> USE DEF HInv
<1>1. CASE create
  <2>1. /\ setup = 0 /\ setup' \in {1, -1}
        /\ UNCHANGED <<method, running, request, reply, held, busy>>
    BY <1>1 DEF create, loginVars, Failed
  <2>3. HttpTypeOK'
    BY <2>1, RoutesAre DEF HttpTypeOK, Failed
  <2>4. RouteInv'
    BY <2>1 DEF RouteInv
  <2>2. FitInv' /\ HeldInv' /\ LoginInv'
    BY <1>1 DEF create, FitInv, HeldInv, LoginInv, loginVars, parseVars
  <2> QED BY <2>2, <2>3, <2>4
<1>2. CASE register
  <2>1. setup \in 1 .. 4 /\ setup' = setup + 1
    BY <1>2, RoutesAre DEF register
  <2>2. method' = [method EXCEPT ![Routes[setup][1]] = IF @ = Nothing THEN Routes[setup][2] ELSE @]
    BY <1>2 DEF register, __doStore
  <2>3. UNCHANGED <<running, request, reply, held, busy, pc>>
    BY <1>2 DEF register, loginVars, parseVars
  <2>4. HttpTypeOK'
    <3>1. method' \in [Paths -> Methods \cup {Nothing}]
      <4>1. Routes[setup][2] \in Methods
        BY <2>1, RoutesAre DEF Methods
      <4> QED BY <2>2, <4>1 DEF HttpTypeOK
    <3>2. setup' \in {Failed} \cup 0 .. Len(Routes) + 1
      BY <2>1, RoutesAre
    <3> QED BY <2>3, <3>1, <3>2 DEF HttpTypeOK
  <2>5. RouteInv'
    <3>1. ~ running
      BY <2>1 DEF RouteInv
    <3>2. method \in [Paths -> Methods \cup {Nothing}]
      BY DEF HttpTypeOK
    <3>3. CASE setup = 1
      BY <2>1, <2>2, <2>3, <3>1, <3>2, <3>3, RoutesAre DEF RouteInv, Paths
    <3>4. CASE setup = 2
      BY <2>1, <2>2, <2>3, <3>1, <3>2, <3>4, RoutesAre DEF RouteInv, Paths
    <3>5. CASE setup = 3
      BY <2>1, <2>2, <2>3, <3>1, <3>2, <3>5, RoutesAre DEF RouteInv, Paths
    <3>6. CASE setup = 4
      BY <2>1, <2>2, <2>3, <3>1, <3>2, <3>6, RoutesAre DEF RouteInv, Paths
    <3> QED BY <2>1, <3>3, <3>4, <3>5, <3>6
  <2>6. FitInv' /\ HeldInv' /\ LoginInv'
    BY <2>3 DEF FitInv, HeldInv, LoginInv
  <2> QED BY <2>4, <2>5, <2>6
<1>3. CASE run
  <2>1. /\ setup = 5 /\ running'
        /\ UNCHANGED <<setup, method, request, reply, held, busy>>
    BY <1>3, RoutesAre DEF run, loginVars
  <2>3. HttpTypeOK'
    BY <1>3, <2>1 DEF HttpTypeOK, run
  <2>4. RouteInv'
    BY <2>1 DEF RouteInv
  <2>2. FitInv' /\ HeldInv' /\ LoginInv'
    BY <1>3 DEF run, FitInv, HeldInv, LoginInv, loginVars, parseVars
  <2> QED BY <2>2, <2>3, <2>4
<1> QED BY <1>1, <1>2, <1>3

\* A step of parse leaves the server as it is, and does not end the call.
LEMMA ParseStep ==
  ASSUME HInv, Parse
  PROVE  HInv'
<1> USE DEF HInv
<1>1. UNCHANGED <<setup, method, running, request, reply, held, busy>>
  BY DEF Parse
<1>2. pc # "idle" /\ pc' # "idle"
  BY DEF Parse, ParseNext, FirstPair, Key, Value, NextPair, Return
<1>3. HttpTypeOK' /\ RouteInv'
  BY <1>1 DEF HttpTypeOK, RouteInv
<1>4. FitInv' /\ HeldInv' /\ LoginInv'
  BY <1>1, <1>2 DEF FitInv, HeldInv, LoginInv
<1> QED BY <1>3, <1>4

\* The answer to a login.
LEMMA LoginReplyStep ==
  ASSUME HInv, login_reply
  PROVE  HInv'
<1> USE DEF HInv
<1>1. /\ busy \in Clients /\ busy # Nothing
      /\ reply' = [reply EXCEPT ![busy] = "handled"]
      /\ busy' = Nothing /\ pc' = "idle"
      /\ UNCHANGED <<setup, method, running, request, held>>
  BY DEF login_reply, HttpTypeOK, Dispose
<1>2. HttpTypeOK' /\ RouteInv'
  BY <1>1 DEF HttpTypeOK, RouteInv, Replies
<1>3. Fitting(request[busy]) = "handled"
  BY <1>1, FittingIs DEF LoginInv
<1>4. FitInv' /\ HeldInv' /\ LoginInv'
  BY <1>1, <1>3 DEF FitInv, HeldInv, LoginInv, HttpTypeOK
<1> QED BY <1>2, <1>4

\* The handler of a request answers it, holds it, or calls parse.
LEMMA HandleStep ==
  ASSUME HInv, NEW c \in Clients, handle(c)
  PROVE  HInv'
<1> USE DEF HInv
<1> DEFINE r == request[c]
<1>1. /\ running /\ busy = Nothing /\ reply[c] = Nothing /\ ~ held[c]
      /\ UNCHANGED <<setup, method, running, request>>
  BY DEF handle
<1>2. r \in Requests /\ r.path \in Paths /\ r.cmd \in Methods
  BY DEF handle, HttpTypeOK, Requests
<1> HIDE DEF r
<1>3. method[r.path] = IF r.path = "/other" THEN Nothing ELSE IF r.path = "/login" THEN "POST" ELSE "GET"
  BY <1>1, <1>2, Registered
<1>4. \/ Answer(c, Fitting(r))
      \/ r.path = "/login" /\ r.cmd = "POST" /\ ~ r.full /\ Hold(c)
      \/ /\ r.path = "/login" /\ r.cmd = "POST" /\ r.full
         /\ busy' = c /\ pc' = "first" /\ UNCHANGED <<reply, held>>
  <2>1. CASE r.path = "/other"
    BY <1>2, <1>3, <2>1, FittingIs DEF handle, r, __genHandler
  <2>2. CASE r.path # "/other"
    <3>1. __requestHandler(c) /\ method[r.path] # Nothing
      BY <1>2, <1>3, <2>2, NothingAssumption DEF handle, r, Methods
    <3>2. CASE r.cmd # method[r.path]
      BY <1>2, <1>3, <2>2, <3>1, <3>2, FittingIs DEF r, __requestHandler
    <3>3. CASE r.cmd = method[r.path]
      BY <1>2, <1>3, <2>2, <3>1, <3>3, FittingIs DEF r, __requestHandler, login_post_cb, get_cb, Call
    <3> QED BY <3>2, <3>3
  <2> QED BY <2>1, <2>2
<1>5. CASE Answer(c, Fitting(r))
  <2>1. /\ reply' = [reply EXCEPT ![c] = Fitting(r)]
        /\ UNCHANGED <<held, busy, pc>>
    BY <1>5 DEF Answer, loginVars, parseVars
  <2>2. Fitting(r) \in Replies
    BY <1>2, FittingIs DEF Replies
  <2>3. HttpTypeOK' /\ RouteInv'
    BY <1>1, <2>1, <2>2 DEF HttpTypeOK, RouteInv
  <2>4. FitInv' /\ HeldInv' /\ LoginInv'
    BY <1>1, <2>1 DEF FitInv, HeldInv, LoginInv, HttpTypeOK, r
  <2> QED BY <2>3, <2>4
<1>6. CASE r.path = "/login" /\ r.cmd = "POST" /\ ~ r.full /\ Hold(c)
  <2>1. held' = [held EXCEPT ![c] = TRUE] /\ UNCHANGED <<reply, busy, pc>>
    BY <1>6 DEF Hold, loginVars, parseVars
  <2>2. HttpTypeOK' /\ RouteInv'
    BY <1>1, <2>1 DEF HttpTypeOK, RouteInv
  <2>3. FitInv' /\ LoginInv'
    BY <1>1, <2>1 DEF FitInv, LoginInv
  <2>4. HeldInv'
    BY <1>1, <1>2, <1>6, <2>1 DEF HeldInv, HttpTypeOK, r
  <2> QED BY <2>2, <2>3, <2>4
<1>7. CASE /\ r.path = "/login" /\ r.cmd = "POST" /\ r.full
           /\ busy' = c /\ pc' = "first" /\ UNCHANGED <<reply, held>>
  <2>1. HttpTypeOK' /\ RouteInv'
    BY <1>1, <1>7 DEF HttpTypeOK, RouteInv
  <2>2. FitInv' /\ HeldInv' /\ LoginInv'
    BY <1>1, <1>2, <1>7, NothingAssumption DEF FitInv, HeldInv, LoginInv, r
  <2> QED BY <2>1, <2>2
<1> QED BY <1>4, <1>5, <1>6, <1>7

\* What the clients do: they ask once they were answered, and one whose
\* request is held may give up.
LEMMA ClientStep ==
  ASSUME HInv, NEW c \in Clients, Reconnect(c) \/ \E r \in Asked : Ask(c, r)
  PROVE  HInv'
<1> USE DEF HInv
<1>1. CASE Reconnect(c)
  <2>1. /\ held[c] /\ request' = [request EXCEPT ![c] = Nothing]
        /\ held' = [held EXCEPT ![c] = FALSE]
        /\ UNCHANGED <<setup, method, running, reply, busy, pc>>
    BY <1>1 DEF Reconnect, loginVars, parseVars
  <2>2. HttpTypeOK' /\ RouteInv'
    BY <2>1 DEF HttpTypeOK, RouteInv
  <2>3. LoginInv'
    BY <2>1 DEF LoginInv, HttpTypeOK
  <2>4. HeldInv'
    BY <2>1 DEF HeldInv, HttpTypeOK
  <2>5. FitInv'
    BY <2>1 DEF FitInv, HeldInv, HttpTypeOK
  <2> QED BY <2>2, <2>3, <2>4, <2>5
<1>2. ASSUME NEW r \in Asked, Ask(c, r) PROVE HInv'
  <2>1. /\ request[c] = Nothing \/ reply[c] # Nothing
        /\ request' = [request EXCEPT ![c] = r] /\ reply' = [reply EXCEPT ![c] = Nothing]
        /\ UNCHANGED <<setup, method, running, held, busy, pc>>
    BY <1>2 DEF Ask, loginVars, parseVars
  <2>2. r \in Requests
    BY AskedAssumption
  <2>3. HttpTypeOK' /\ RouteInv'
    BY <2>1, <2>2 DEF HttpTypeOK, RouteInv
  <2>4. FitInv' /\ LoginInv'
    BY <2>1, NothingAssumption DEF FitInv, LoginInv, HttpTypeOK
  <2>5. HeldInv'
    BY <2>1, NothingAssumption DEF HeldInv, HttpTypeOK
  <2> QED BY <2>3, <2>4, <2>5
<1> QED BY <1>1, <1>2

\* So every step keeps the invariant.
LEMMA HttpStep == HInv /\ [HttpNext]_httpVars => HInv'
<1> SUFFICES ASSUME HInv, [HttpNext]_httpVars PROVE HInv'
  OBVIOUS
<1>1. CASE UNCHANGED httpVars
  BY <1>1 DEF HInv, httpVars, loginVars, parseVars, HttpTypeOK, RouteInv, FitInv, HeldInv, LoginInv
<1>2. CASE HttpNext
  BY <1>2, SetupStep, ParseStep, LoginReplyStep, HandleStep, ClientStep DEF HttpNext
<1> QED BY <1>1, <1>2

\* For any clients and any requests: every answer is the one that the
\* registrations of __create_http_service_business as written give (http_server.cpp,
\* __requestHandler and __genHandler).
THEOREM HttpReplies == HttpSpec => []ReplyFits
<1>1. HInv => ReplyFits
  BY DEF HInv, FitInv, ReplyFits
<1> QED BY <1>1, HttpStart, HttpStep, PTL DEF HttpSpec

\* A connection that is left waiting has asked for a login without a body and for
\* nothing else.
OnlyEmptyLoginsHeld ==
  \A c \in Clients :
    held[c] => /\ request[c] # Nothing /\ reply[c] = Nothing
               /\ request[c].path = "/login" /\ request[c].cmd = "POST" /\ ~ request[c].full

\* The safety half of EveryoneAnswered: login_post_cb alone returns without an
\* answer, and only from an empty body; no handler leaves another request
\* waiting, and what waits cannot be mistaken for what was answered.
THEOREM HttpHeld == HttpSpec => []OnlyEmptyLoginsHeld
<1>1. HInv => OnlyEmptyLoginsHeld
  BY NothingAssumption DEF HInv, HeldInv, OnlyEmptyLoginsHeld
<1> QED BY <1>1, HttpStart, HttpStep, PTL DEF HttpSpec

-----------------------------------------------------------------------------
(* parse.  Its argument by the cuts of the text: the pair at hand lies      *)
(* between two of them, and as many pairs are stored as there are cuts up   *)
(* to it.                                                                   *)

\* How many cuts there are before i.
Rank(t, i) == Cardinality({j \in Cuts(t) : j < i})

\* Where the pair at hand ends.
End == IF p1 = NULL THEN Len(text) + 1 ELSE p1 - 1

\* The types, and the terminator after the text.
BufInv ==
  /\ text \in Seq(Chars)
  /\ buf \in Strings /\ Len(buf) = Len(text) + 1 /\ buf[Len(buf)] = Nul
  /\ p0 \in 0 .. Len(buf) /\ p1 \in 0 .. Len(buf) /\ q1 \in 0 .. Len(buf)
  /\ k \in Strings /\ kv \in Seq(Strings \X Strings) /\ ret \in {0, -1}
  /\ pc \in {"idle", "first", "key", "value", "next", "done"}

\* Nothing but delimiters was overwritten, none beyond the pair at hand.
CutInv ==
  \A i \in 1 .. Len(text) :
    buf[i] # text[i] => buf[i] = Nul /\ text[i] \in {"&", "="} /\ (p1 # NULL => i < p1)

\* Before the first pair nothing was cut.
StartInv ==
  /\ pc \in {"idle", "first"} => p0 = NULL /\ p1 = NULL /\ q1 = NULL /\ kv = <<>>
  /\ pc = "idle" => text = <<>>
  /\ pc = "first" => buf = Append(text, Nul)

\* The pair at hand lies between two cuts; beyond it the text is as it was.
PairInv ==
  pc \in {"key", "value", "next"} =>
    /\ p0 \in 1 .. Len(text) /\ p1 # 1 /\ p0 <= End
    /\ p0 - 1 \in Cuts(text) /\ End \in Cuts(text)
    /\ \A h \in p0 .. End - 1 : text[h] # "&"
    /\ buf[End] = Nul

\* The key is still to be cut out: nothing of the pair was overwritten.
KeyInv ==
  pc = "key" =>
    /\ Rank(text, p0 - 1) = Len(kv)
    /\ \A h \in p0 .. End - 1 : buf[h] = text[h]

\* The key lies before the first =, and what follows it is as it was; or there
\* is none.
ValueInv ==
  pc = "value" =>
    /\ Rank(text, p0 - 1) = Len(kv)
    /\ q1 = NULL => \A h \in p0 .. End - 1 : text[h] # "="
    /\ q1 # NULL => /\ q1 - 1 \in p0 .. End - 1 /\ text[q1 - 1] = "="
                    /\ \A h \in p0 .. q1 - 2 : text[h] # "="
                    /\ k = SubSeq(text, p0, q1 - 2)
                    /\ \A h \in q1 .. End - 1 : buf[h] = text[h]

\* What is stored: the pairs of the fields so far, all sound.
StoredInv ==
  /\ pc = "next" => Rank(text, End) = Len(kv)
  /\ Len(kv) < Cardinality(Cuts(text))
  /\ \A i \in 1 .. Len(kv) : Sound(Between(text)[i]) /\ kv[i] = Pair(Between(text)[i])

\* What parse has returned.
ResultInv ==
  pc = "done" => /\ kv = Pairs(text)
                 /\ ret = 0 <=> text # <<>> /\ Len(kv) = Len(Fields(text))

\* The inductive invariant of parse.
ParseInv == BufInv /\ CutInv /\ StartInv /\ PairInv /\ KeyInv /\ ValueInv /\ StoredInv /\ ResultInv

\* The cuts of a text are finitely many.
LEMMA CutsFinite ==
  ASSUME NEW S, NEW t \in Seq(S)
  PROVE  /\ Cuts(t) \in SUBSET (0 .. Len(t) + 1) /\ IsFiniteSet(Cuts(t))
         /\ 0 \in Cuts(t) /\ Len(t) + 1 \in Cuts(t)
         /\ Cardinality(Cuts(t)) \in Nat
<1>1. Cuts(t) \in SUBSET (0 .. Len(t) + 1) /\ 0 \in Cuts(t) /\ Len(t) + 1 \in Cuts(t)
  BY DEF Cuts
<1>2. IsFiniteSet(0 .. Len(t) + 1)
  BY FS_Interval
<1> QED BY <1>1, <1>2, FS_Subset, FS_CardinalityType

\* The ranks of the cuts are their places in order.
LEMMA RankType ==
  ASSUME NEW S, NEW t \in Seq(S), NEW i \in Int
  PROVE  IsFiniteSet({j \in Cuts(t) : j < i}) /\ Rank(t, i) \in Nat
BY CutsFinite, FS_Subset, FS_CardinalityType DEF Rank

\* A cut that comes later has a higher rank.
LEMMA RankOrder ==
  ASSUME NEW S, NEW t \in Seq(S), NEW i \in Cuts(t), NEW j \in Cuts(t), i < j
  PROVE  Rank(t, i) < Rank(t, j)
<1> DEFINE A == {h \in Cuts(t) : h < i}
           B == {h \in Cuts(t) : h < j}
<1>1. i \in Int /\ j \in Int /\ \A h \in Cuts(t) : h \in Int
  BY CutsFinite
<1>2. A \in SUBSET B /\ i \in B /\ i \notin A
  <2>1. \A h \in Cuts(t) : h < i => h < j
    BY <1>1
  <2>2. i < j /\ ~ (i < i)
    BY <1>1
  <2> QED BY <2>1, <2>2, Zenon
<1>3. IsFiniteSet(A) /\ IsFiniteSet(B) /\ Cardinality(A) \in Nat /\ Cardinality(B) \in Nat
  BY <1>1, RankType DEF Rank
<1>4. Rank(t, i) = Cardinality(A) /\ Rank(t, j) = Cardinality(B)
  BY DEF Rank
<1> HIDE DEF A, B
<1>5. Cardinality(A) <= Cardinality(B) /\ Cardinality(A) # Cardinality(B)
  BY <1>2, <1>3, FS_Subset
<1> QED BY <1>3, <1>4, <1>5

\* A cut is found by its rank.
LEMMA CutIs ==
  ASSUME NEW S, NEW t \in Seq(S), NEW i \in Cuts(t)
  PROVE  Cut(t, Rank(t, i)) = i
<1>1. \A j \in Cuts(t) : Rank(t, j) = Rank(t, i) => j = i
  <2> SUFFICES ASSUME NEW j \in Cuts(t), Rank(t, j) = Rank(t, i), j # i PROVE FALSE
    OBVIOUS
  <2>1. i \in Int /\ j \in Int
    BY CutsFinite
  <2>2. Rank(t, i) \in Nat /\ Rank(t, j) \in Nat
    BY <2>1, RankType
  <2>3. CASE i < j
    BY <2>2, <2>3, RankOrder
  <2>4. CASE j < i
    BY <2>2, <2>4, RankOrder
  <2> QED BY <2>1, <2>3, <2>4
<1>2. Cut(t, Rank(t, i)) = CHOOSE j \in Cuts(t) : Rank(t, j) = Rank(t, i)
  BY DEF Cut, Rank
<1> QED BY <1>1, <1>2

\* The rank of the first cut and of the last.
LEMMA RankEnds ==
  ASSUME NEW S, NEW t \in Seq(S)
  PROVE  Rank(t, 0) = 0 /\ Cardinality(Cuts(t)) = Rank(t, Len(t) + 1) + 1
<1>1. {j \in Cuts(t) : j < 0} = {}
  BY CutsFinite
<1>2. Rank(t, 0) = 0
  BY <1>1, FS_EmptySet DEF Rank
<1> DEFINE B == {j \in Cuts(t) : j < Len(t) + 1}
<1>3. Cuts(t) = B \cup {Len(t) + 1} /\ Len(t) + 1 \notin B
  BY CutsFinite
<1>4. IsFiniteSet(B) /\ Rank(t, Len(t) + 1) = Cardinality(B)
  BY RankType DEF Rank
<1> HIDE DEF B
<1>5. Cardinality(B \cup {Len(t) + 1}) = Cardinality(B) + 1
  BY <1>3, <1>4, FS_AddElement
<1> QED BY <1>2, <1>3, <1>4, <1>5

\* The cut that comes next has the next rank.
LEMMA RankNext ==
  ASSUME NEW S, NEW t \in Seq(S), NEW i \in Cuts(t), NEW j \in Cuts(t), i < j,
         \A h \in i + 1 .. j - 1 : t[h] # "&"
  PROVE  Rank(t, j) = Rank(t, i) + 1
<1> DEFINE A == {h \in Cuts(t) : h < i}
           B == {h \in Cuts(t) : h < j}
<1>1. i \in 0 .. Len(t) + 1 /\ j \in 0 .. Len(t) + 1 /\ \A h \in Cuts(t) : h \in 0 .. Len(t) + 1
  BY CutsFinite
<1>2. \A h \in Cuts(t) : h < j => h <= i
  <2> SUFFICES ASSUME NEW h \in Cuts(t), h < j, i < h PROVE FALSE
    BY <1>1
  <2>1. h \in i + 1 .. j - 1 /\ h # 0 /\ h # Len(t) + 1
    BY <1>1
  <2>2. t[h] = "&"
    BY <2>1 DEF Cuts
  <2> QED BY <2>1, <2>2
<1>3. B = A \cup {i} /\ i \notin A
  <2>1. \A h \in Cuts(t) : h < j <=> h < i \/ h = i
    BY <1>1, <1>2
  <2>2. ~ (i < i)
    BY <1>1
  <2> QED BY <2>1, <2>2, Zenon
<1>4. IsFiniteSet(A) /\ Rank(t, i) = Cardinality(A) /\ Rank(t, j) = Cardinality(B)
  BY <1>1, RankType DEF Rank
<1> HIDE DEF A, B
<1> QED BY <1>3, <1>4, FS_AddElement

\* The field between two cuts.
LEMMA BetweenIs ==
  ASSUME NEW S, NEW t \in Seq(S), NEW i \in Cuts(t), NEW j \in Cuts(t), i < j,
         \A h \in i + 1 .. j - 1 : t[h] # "&"
  PROVE  /\ Rank(t, j) \in 1 .. Cardinality(Cuts(t)) - 1
         /\ Between(t)[Rank(t, j)] = SubSeq(t, i + 1, j - 1)
<1>1. i \in 0 .. Len(t) + 1 /\ j \in 0 .. Len(t) + 1
  BY CutsFinite
<1>2. Rank(t, i) \in Nat /\ Rank(t, j) = Rank(t, i) + 1
  <2>1. Rank(t, i) \in Nat
    <3>1. i \in Int
      BY <1>1
    <3> QED BY <3>1, RankType
  <2>2. Rank(t, j) = Rank(t, i) + 1
    BY RankNext
  <2> QED BY <2>1, <2>2
<1>3. Rank(t, j) <= Rank(t, Len(t) + 1) /\ Rank(t, Len(t) + 1) \in Nat
  <2>1. Rank(t, Len(t) + 1) \in Nat /\ Len(t) + 1 \in Cuts(t)
    <3>1. Len(t) + 1 \in Int
      OBVIOUS
    <3> QED BY <3>1, RankType, CutsFinite
  <2>2. CASE j = Len(t) + 1
    BY <2>1, <2>2
  <2>3. CASE j < Len(t) + 1
    BY <1>2, <2>1, <2>3, RankOrder
  <2> QED BY <1>1, <2>2, <2>3
<1>4. Rank(t, j) \in 1 .. Cardinality(Cuts(t)) - 1
  BY <1>2, <1>3, RankEnds
<1>5. Cut(t, Rank(t, j)) = j /\ Cut(t, Rank(t, j) - 1) = i
  BY <1>2, CutIs
<1> QED BY <1>4, <1>5 DEF Between

\* All the fields there are, an empty one at the end left out.
LEMMA FieldsIs ==
  ASSUME NEW S, NEW t \in Seq(S)
  PROVE  LET n == Cardinality(Cuts(t)) - 1 IN
         /\ n \in Nat \ {0} /\ Len(Between(t)) = n
         /\ Len(Fields(t)) = IF Between(t)[n] = <<>> THEN n - 1 ELSE n
         /\ Len(Fields(t)) \in Nat
         /\ \A i \in 1 .. Len(Fields(t)) : Fields(t)[i] = Between(t)[i]
<1> DEFINE n == Cardinality(Cuts(t)) - 1
           b == Between(t)
<1>1. n \in Nat \ {0}
  <2>1. Len(t) + 1 \in Int /\ 0 < Len(t) + 1
    OBVIOUS
  <2>2. 0 \in Cuts(t) /\ Len(t) + 1 \in Cuts(t)
    BY CutsFinite
  <2>3. Rank(t, 0) < Rank(t, Len(t) + 1)
    BY <2>1, <2>2, RankOrder
  <2>4. Rank(t, Len(t) + 1) \in Nat
    BY <2>1, RankType
  <2> QED BY <2>3, <2>4, RankEnds
<1>2. b = [i \in 1 .. n |-> b[i]]
  BY DEF Between
<1> HIDE DEF n, b
<1>3. b \in Seq({b[i] : i \in 1 .. n}) /\ Len(b) = n
  <2> DEFINE E == {b[i] : i \in 1 .. n}
  <2>1. b \in [1 .. n -> E]
    BY <1>2
  <2> HIDE DEF E
  <2>2. b \in Seq(E) /\ Len(b) = n
    BY <1>1, <2>1
  <2> QED BY <2>2 DEF E
<1>4. CASE b[n] = <<>>
  <2>1. Fields(t) = SubSeq(b, 1, n - 1)
    BY <1>3, <1>4 DEF Fields, Last, Front, b
  <2>2. Len(SubSeq(b, 1, n - 1)) = n - 1 /\ \A i \in 1 .. n - 1 : SubSeq(b, 1, n - 1)[i] = b[i]
    BY <1>1, <1>3
  <2> QED BY <1>1, <1>3, <1>4, <2>1, <2>2 DEF b, n
<1>5. CASE b[n] # <<>>
  <2>1. Fields(t) = b
    BY <1>3, <1>5 DEF Fields, Last, b
  <2> QED BY <1>1, <1>3, <1>5, <2>1 DEF b, n
<1> QED BY <1>4, <1>5

\* What parse has to return, from how many fields at the front are sound.
LEMMA PairsIs ==
  ASSUME NEW S, NEW t \in Seq(S), NEW P, NEW s \in Seq(P), Len(s) <= Len(Fields(t)),
         \A i \in 1 .. Len(s) : Sound(Between(t)[i]) /\ s[i] = Pair(Between(t)[i]),
         Len(s) = Len(Fields(t)) \/ ~ Sound(Between(t)[Len(s) + 1])
  PROVE  s = Pairs(t)
<1> DEFINE f == Fields(t)
           Q(n) == /\ \A i \in 1 .. n : Sound(f[i])
                   /\ n = Len(f) \/ ~ Sound(f[n + 1])
<1>1. Len(f) \in Nat /\ \A i \in 1 .. Len(f) : f[i] = Between(t)[i]
  BY FieldsIs
<1>2. Q(Len(s)) /\ Len(s) \in 0 .. Len(f)
  BY <1>1
<1>3. \A n \in 0 .. Len(f) : Q(n) => n = Len(s)
  <2> SUFFICES ASSUME NEW n \in 0 .. Len(f), Q(n), n # Len(s) PROVE FALSE
    OBVIOUS
  <2>1. CASE n < Len(s)
    <3>1. n + 1 \in 1 .. Len(s) /\ n # Len(f)
      BY <1>2, <2>1
    <3> QED BY <1>2, <3>1
  <2>2. CASE n > Len(s)
    <3>1. Len(s) + 1 \in 1 .. n /\ Len(s) # Len(f)
      BY <1>2, <2>2
    <3> QED BY <1>2, <3>1
  <2> QED BY <1>2, <2>1, <2>2
<1>4. SoundFields(t) = CHOOSE n \in 0 .. Len(f) : Q(n)
  BY DEF SoundFields
<1>5. SoundFields(t) = Len(s)
  <2> HIDE DEF Q
  <2> QED BY <1>2, <1>3, <1>4
<1>6. Pairs(t) = [i \in 1 .. Len(s) |-> s[i]]
  <2>1. \A i \in 1 .. Len(s) : Pair(f[i]) = s[i]
    BY <1>1
  <2> QED BY <1>5, <2>1 DEF Pairs
<1> QED BY <1>6

\* No character of a text is the terminator.
LEMMA CharsAre ==
  /\ Nul \notin Chars /\ "&" \in Chars /\ "=" \in Chars /\ "&" # "="
  /\ Chars \cup {Nul} = Letters \cup {"&", "=", Nul}
BY DEF Chars

\* A least element is the minimum.
LEMMA MinIs ==
  ASSUME NEW T \in SUBSET Int, NEW x \in T, \A y \in T : x <= y
  PROVE  Min(T) = x
<1>1. \A z \in T : (\A y \in T : z <= y) => z = x
  <2> SUFFICES ASSUME NEW z \in T, \A y \in T : z <= y PROVE z = x
    OBVIOUS
  <2>1. z <= x /\ x <= z /\ x \in Int /\ z \in Int
    OBVIOUS
  <2> QED BY <2>1
<1> DEFINE Q(z) == \A y \in T : z <= y
<1>2. Q(x) /\ \A z \in T : Q(z) => z = x
  BY <1>1
<1> HIDE DEF Q
<1>3. (CHOOSE z \in T : Q(z)) = x
  BY <1>2
<1> QED BY <1>3 DEF Min, Q

\* The = in a field, by their places in the text.
LEMMA EqualsIn ==
  ASSUME NEW S, NEW t \in Seq(S), NEW a \in 1 .. Len(t) + 1, NEW e \in a .. Len(t) + 1
  PROVE  LET f == SubSeq(t, a, e - 1) IN
         /\ f \in Seq(S) /\ Len(f) = e - a /\ Equals(f) \in SUBSET Int
         /\ \A i \in Int : i \in Equals(f) <=> a + i - 1 \in a .. e - 1 /\ t[a + i - 1] = "="
<1> DEFINE f == SubSeq(t, a, e - 1)
<1>1. f \in Seq(S) /\ Len(f) = e - a /\ \A i \in 1 .. e - a : f[i] = t[a + i - 1]
  OBVIOUS
<1> HIDE DEF f
<1>2. Equals(f) \in SUBSET Int
  BY DEF Equals
<1>3. ASSUME NEW i \in Int
      PROVE  i \in Equals(f) <=> a + i - 1 \in a .. e - 1 /\ t[a + i - 1] = "="
  <2>1. i \in 1 .. e - a <=> a + i - 1 \in a .. e - 1
    OBVIOUS
  <2> QED BY <1>1, <2>1 DEF Equals
<1> QED BY <1>1, <1>2, <1>3 DEF f

\* A field without = is not sound.
LEMMA UnsoundIs ==
  ASSUME NEW S, NEW t \in Seq(S), NEW a \in 1 .. Len(t) + 1, NEW e \in a .. Len(t) + 1,
         \A h \in a .. e - 1 : t[h] # "="
  PROVE  ~ Sound(SubSeq(t, a, e - 1))
<1> DEFINE f == SubSeq(t, a, e - 1)
<1>1. /\ Equals(f) \in SUBSET Int
      /\ \A i \in Int : i \in Equals(f) <=> a + i - 1 \in a .. e - 1 /\ t[a + i - 1] = "="
  BY EqualsIn
<1> HIDE DEF f
<1>2. Equals(f) = {}
  BY <1>1
<1> QED BY <1>2 DEF Sound, f

\* One whose first = is at m is sound if something follows it.
LEMMA SoundIs ==
  ASSUME NEW S, NEW t \in Seq(S), NEW a \in 1 .. Len(t) + 1, NEW e \in a .. Len(t) + 1,
         NEW m \in a .. e - 1, t[m] = "=", \A h \in a .. m - 1 : t[h] # "="
  PROVE  /\ Equals(SubSeq(t, a, e - 1)) # {} /\ Min(Equals(SubSeq(t, a, e - 1))) = m - a + 1
         /\ Sound(SubSeq(t, a, e - 1)) <=> m + 1 < e
<1> DEFINE f == SubSeq(t, a, e - 1)
<1>1. /\ Len(f) = e - a /\ Equals(f) \in SUBSET Int
      /\ \A i \in Int : i \in Equals(f) <=> a + i - 1 \in a .. e - 1 /\ t[a + i - 1] = "="
  BY EqualsIn
<1> HIDE DEF f
<1>2. m - a + 1 \in Equals(f) /\ m - a + 1 \in Int
  <2>1. m - a + 1 \in Int /\ a + (m - a + 1) - 1 = m
    OBVIOUS
  <2> QED BY <1>1, <2>1
<1>3. \A i \in Equals(f) : m - a + 1 <= i
  <2> SUFFICES ASSUME NEW i \in Equals(f), i < m - a + 1 PROVE FALSE
    BY <1>1, <1>2
  <2>1. i \in Int /\ a + i - 1 \in a .. m - 1 /\ t[a + i - 1] = "="
    BY <1>1
  <2> QED BY <2>1
<1>4. Min(Equals(f)) = m - a + 1
  BY <1>1, <1>2, <1>3, MinIs
<1>5. Sound(f) <=> m + 1 < e
  BY <1>1, <1>2, <1>4 DEF Sound
<1> QED BY <1>2, <1>4, <1>5 DEF f

\* And its pair is what lies before m, and from m to the next = or to the end.
LEMMA PairIs ==
  ASSUME NEW S, NEW t \in Seq(S), NEW a \in 1 .. Len(t) + 1, NEW e \in a .. Len(t) + 1,
         NEW m \in a .. e - 1, t[m] = "=", \A h \in a .. m - 1 : t[h] # "=",
         NEW j \in m + 1 .. e, j = e \/ t[j] = "=", \A h \in m + 1 .. j - 1 : t[h] # "="
  PROVE  Pair(SubSeq(t, a, e - 1)) = <<SubSeq(t, a, m - 1), SubSeq(t, m + 1, j - 1)>>
<1> DEFINE f == SubSeq(t, a, e - 1)
           T == (Equals(f) \ {m - a + 1}) \cup {e - a + 1}
<1>1. /\ f \in Seq(S) /\ Len(f) = e - a /\ Equals(f) \in SUBSET Int
      /\ \A i \in Int : i \in Equals(f) <=> a + i - 1 \in a .. e - 1 /\ t[a + i - 1] = "="
  BY EqualsIn
<1>2. Min(Equals(f)) = m - a + 1
  BY SoundIs
<1>3. SubSeq(f, 1, m - a) = SubSeq(t, a, m - 1)
  OBVIOUS
<1>4. SubSeq(f, m - a + 2, j - a) = SubSeq(t, m + 1, j - 1)
  OBVIOUS
<1> HIDE DEF f
<1>5. Min(T) = j - a + 1
  <2>1. T \in SUBSET Int
    BY <1>1
  <2>2. j - a + 1 \in T
    <3>1. CASE j = e
      BY <3>1
    <3>2. CASE j # e
      <4>1. j - a + 1 \in Int /\ a + (j - a + 1) - 1 = j /\ j \in a .. e - 1 /\ j - a + 1 # m - a + 1
        BY <3>2
      <4>2. j - a + 1 \in Equals(f)
        BY <1>1, <3>2, <4>1
      <4> QED BY <4>1, <4>2
    <3> QED BY <3>1, <3>2
  <2>3. \A i \in T : j - a + 1 <= i
    <3> SUFFICES ASSUME NEW i \in T, i < j - a + 1 PROVE FALSE
      BY <2>1
    <3>1. i \in Equals(f) /\ i # m - a + 1 /\ i \in Int
      BY <2>1
    <3>2. a + i - 1 \in a .. e - 1 /\ t[a + i - 1] = "="
      BY <1>1, <3>1
    <3>3. a + i - 1 \in a .. m - 1 \/ a + i - 1 \in m + 1 .. j - 1
      BY <3>1, <3>2
    <3> QED BY <3>2, <3>3
  <2> HIDE DEF T
  <2> QED BY <2>1, <2>2, <2>3, MinIs
<1>6. Pair(f) = <<SubSeq(f, 1, m - a), SubSeq(f, m - a + 2, j - a)>>
  <2>1. Min((Equals(f) \ {m - a + 1}) \cup {Len(f) + 1}) = j - a + 1
    BY <1>1, <1>5
  <2>2. m - a + 1 - 1 = m - a /\ m - a + 1 + 1 = m - a + 2 /\ j - a + 1 - 1 = j - a
    OBVIOUS
  <2> DEFINE x == Min(Equals(f))
             n == Min((Equals(f) \ {x}) \cup {Len(f) + 1})
  <2>3. Pair(f) = <<SubSeq(f, 1, x - 1), SubSeq(f, x + 1, n - 1)>>
    BY DEF Pair
  <2>4. x = m - a + 1 /\ n = j - a + 1
    BY <1>2, <2>1
  <2> HIDE DEF x, n
  <2> QED BY <2>2, <2>3, <2>4
<1> QED BY <1>3, <1>4, <1>6 DEF f

\* A buffer b for the text t in which nothing was overwritten from s to e, where
\* the string ends.
Untouched(t, b, s, e) ==
  /\ t \in Seq(Chars) /\ b \in Strings /\ Len(b) = Len(t) + 1 /\ b[Len(b)] = Nul
  /\ s \in 1 .. Len(t) /\ e \in s + 1 .. Len(t) + 1 /\ b[e] = Nul
  /\ \A i \in s .. e - 1 : b[i] = t[i]

\* The token r of that string, by d, ends at j.
Taken(t, b, s, e, d, r, j) ==
  /\ j \in s .. e /\ \A h \in s .. j - 1 : t[h] # d
  /\ j # e => t[j] = d
  /\ r.tok = s /\ r.rest = IF j = e THEN NULL ELSE j + 1
  /\ r.buf \in Strings /\ Len(r.buf) = Len(b)
  /\ r.buf[j] = Nul /\ \A h \in 1 .. Len(b) : h # j => r.buf[h] = b[h]
  /\ CString(r.buf, s) = SubSeq(t, s, j - 1)

\* lw_strtok_r takes it: a pair by &, and a key or a value by =.
LEMMA TokenTaken ==
  ASSUME NEW t, NEW b, NEW s, NEW e, NEW d \in {"&", "="}, Untouched(t, b, s, e)
  PROVE  Taken(t, b, s, e, d, lw_strtok_r(b, s, d), Stop(b, s, d))
<1> DEFINE r == lw_strtok_r(b, s, d)
           j == Stop(b, s, d)
<1>1. /\ t \in Seq(Chars) /\ b \in Strings /\ Len(b) = Len(t) + 1 /\ b[Len(b)] = Nul
      /\ s \in 1 .. Len(t) /\ e \in s + 1 .. Len(t) + 1 /\ b[e] = Nul
  BY DEF Untouched
<1>2. \A i \in s .. e - 1 : b[i] = t[i] /\ b[i] # Nul
  BY <1>1, CharsAre DEF Untouched
<1>3. /\ j \in s .. Len(b) /\ b[j] \in {d, Nul} /\ \A h \in s .. j - 1 : b[h] \notin {d, Nul}
      /\ r.tok = s /\ r.rest = IF b[j] = Nul THEN NULL ELSE j + 1
      /\ r.buf \in Strings /\ Len(r.buf) = Len(b)
      /\ r.buf[j] = Nul /\ \A h \in 1 .. Len(b) : h # j => r.buf[h] = b[h]
  <2>1. d # Nul
    OBVIOUS
  <2>2. s \in 1 .. Len(b) /\ b[s] # Nul /\ b \in Strings /\ b[Len(b)] = Nul
    BY <1>1, <1>2
  <2>3. r = lw_strtok_r(b, s, d) /\ j = Stop(b, s, d)
    OBVIOUS
  <2> HIDE DEF r, j
  <2> QED BY <2>1, <2>2, <2>3, Token
<1> HIDE DEF r, j
<1>4. j \in s .. e
  <2> SUFFICES ASSUME e < j PROVE FALSE
    BY <1>1, <1>3
  <2>1. e \in s .. j - 1
    BY <1>1, <1>3
  <2> QED BY <1>1, <1>3, <2>1
<1>5. \A h \in s .. j - 1 : b[h] = t[h] /\ t[h] # d /\ b[h] # Nul
  <2> SUFFICES ASSUME NEW h \in s .. j - 1 PROVE b[h] = t[h] /\ t[h] # d /\ b[h] # Nul
    OBVIOUS
  <2>1. h \in s .. e - 1
    BY <1>1, <1>4
  <2> QED BY <1>2, <1>3, <2>1
<1>6. SubSeq(b, s, j - 1) = SubSeq(t, s, j - 1)
  <2>1. j - 1 <= Len(t) /\ j - 1 <= Len(b)
    BY <1>1, <1>4
  <2> QED BY <1>1, <1>4, <1>5, <2>1 DEF Strings
<1>7. (b[j] = Nul <=> j = e) /\ (j # e => t[j] = d)
  <2>1. j # e => j \in s .. e - 1
    BY <1>1, <1>4
  <2> QED BY <1>1, <1>2, <1>3, <2>1
<1>8. CString(r.buf, s) = SubSeq(b, s, j - 1)
  <2> DEFINE c == r.buf
  <2>1. /\ b \in Strings /\ c \in Strings /\ Len(c) = Len(b) /\ c[j] = Nul
        /\ s \in 1 .. Len(b) /\ j \in s .. Len(b)
    BY <1>1, <1>3
  <2>2. \A h \in s .. j - 1 : c[h] = b[h] /\ b[h] # Nul
    BY <1>1, <1>3, <1>5
  <2> HIDE DEF c
  <2>3. CString(c, s) = SubSeq(b, s, j - 1)
    BY <2>1, <2>2, TokenString
  <2> QED BY <2>3 DEF c
<1>9. Taken(t, b, s, e, d, r, j)
  BY <1>3, <1>4, <1>5, <1>6, <1>7, <1>8 DEF Taken
<1> QED BY <1>9 DEF r, j

\* A pair at hand that is not sound ends it: what is stored is what there is up
\* to it.
LEMMA GivesUp ==
  ASSUME NEW S, NEW t \in Seq(S), NEW P, NEW s \in Seq(P),
         \A i \in 1 .. Len(s) : Sound(Between(t)[i]) /\ s[i] = Pair(Between(t)[i]),
         NEW a \in 1 .. Len(t), NEW e \in a .. Len(t) + 1, a - 1 \in Cuts(t), e \in Cuts(t),
         \A h \in a .. e - 1 : t[h] # "&",
         Rank(t, a - 1) = Len(s), ~ Sound(SubSeq(t, a, e - 1))
  PROVE  s = Pairs(t) /\ Len(s) # Len(Fields(t))
<1> DEFINE i == a - 1
           n == Cardinality(Cuts(t)) - 1
           b == Between(t)
           F == Len(Fields(t))
<1>1. i \in Cuts(t) /\ i < e /\ i + 1 = a /\ Rank(t, i) = Len(s)
  OBVIOUS
<1>2. \A h \in i + 1 .. e - 1 : t[h] # "&"
  BY <1>1
<1> HIDE DEF i
<1>3. Rank(t, e) = Len(s) + 1
  BY <1>1, <1>2, RankNext
<1>4. Rank(t, e) \in 1 .. n /\ b[Rank(t, e)] = SubSeq(t, i + 1, e - 1)
  BY <1>1, <1>2, BetweenIs
<1>5. n \in Nat \ {0} /\ F = (IF b[n] = <<>> THEN n - 1 ELSE n)
  BY FieldsIs
<1>6. n = Rank(t, Len(t) + 1)
  <2>1. Len(t) + 1 \in Int
    OBVIOUS
  <2>2. Rank(t, Len(t) + 1) \in Nat
    BY <2>1, RankType
  <2>3. Cardinality(Cuts(t)) = Rank(t, Len(t) + 1) + 1
    BY RankEnds
  <2> QED BY <2>2, <2>3
<1> HIDE DEF n, b, F
<1>7. Len(s) + 1 <= F
  <2>1. CASE Len(s) + 1 < n
    BY <1>5, <2>1
  <2>2. CASE Len(s) + 1 = n
    <3>1. e = Len(t) + 1
      <4> SUFFICES ASSUME e < Len(t) + 1 PROVE FALSE
        OBVIOUS
      <4>1. Rank(t, e) < Rank(t, Len(t) + 1)
        BY CutsFinite, RankOrder
      <4> QED BY <1>3, <1>6, <2>2, <4>1
    <3>2. b[n] = SubSeq(t, a, Len(t))
      BY <1>1, <1>3, <1>4, <2>2, <3>1
    <3>3. Len(SubSeq(t, a, Len(t))) # 0
      OBVIOUS
    <3>4. b[n] # <<>>
      <4>1. Len(<<>>) = 0
        OBVIOUS
      <4> QED BY <3>2, <3>3, <4>1, Zenon
    <3> QED BY <1>5, <2>2, <3>4
  <2> QED BY <1>3, <1>4, <1>5, <2>1, <2>2
<1>8. ~ Sound(Between(t)[Len(s) + 1])
  BY <1>1, <1>3, <1>4 DEF b
<1>9. Len(s) <= Len(Fields(t)) /\ Len(s) # Len(Fields(t))
  BY <1>5, <1>7 DEF F
<1>10. s = Pairs(t)
  BY <1>8, <1>9, PairsIs
<1> QED BY <1>9, <1>10

\* The fields up to the last cut, or to an & with nothing after it, are all.
LEMMA Finishes ==
  ASSUME NEW S, NEW t \in Seq(S), NEW P, NEW s \in Seq(P),
         \A i \in 1 .. Len(s) : Sound(Between(t)[i]) /\ s[i] = Pair(Between(t)[i]),
         NEW e \in Cuts(t), Rank(t, e) = Len(s), t # <<>>,
         e = Len(t) + 1 \/ e = Len(t)
  PROVE  s = Pairs(t) /\ Len(s) = Len(Fields(t))
<1> DEFINE n == Cardinality(Cuts(t)) - 1
           b == Between(t)
           F == Len(Fields(t))
<1>1. n \in Nat \ {0} /\ F = IF b[n] = <<>> THEN n - 1 ELSE n
  BY FieldsIs
<1>2. n = Rank(t, Len(t) + 1)
  <2>1. Len(t) + 1 \in Int
    OBVIOUS
  <2>2. Rank(t, Len(t) + 1) \in Nat
    BY <2>1, RankType
  <2>3. Cardinality(Cuts(t)) = Rank(t, Len(t) + 1) + 1
    BY RankEnds
  <2> QED BY <2>2, <2>3
<1> HIDE DEF n
<1>3. CASE e = Len(t) + 1
  <2>1. Len(s) = n
    BY <1>2, <1>3
  <2>2. b[n] # <<>>
    <3>1. Sound(b[n])
      <4>1. n \in 1 .. Len(s)
        BY <1>1, <2>1
      <4> QED BY <4>1
    <3>2. Equals(<<>>) = {}
      BY DEF Equals
    <3> QED BY <3>1, <3>2 DEF Sound
  <2> QED BY <1>1, <2>1, <2>2, PairsIs
<1>4. CASE e = Len(t)
  <2>1. Len(t) + 1 \in Cuts(t) /\ e < Len(t) + 1 /\ e \in Nat
    BY <1>4, CutsFinite
  <2>2. \A h \in e + 1 .. Len(t) + 1 - 1 : t[h] # "&"
    BY <1>4, <2>1
  <2>3. Rank(t, Len(t) + 1) = Len(s) + 1
    BY <2>1, <2>2, RankNext
  <2>4. b[Rank(t, Len(t) + 1)] = SubSeq(t, e + 1, Len(t) + 1 - 1)
    BY <2>1, <2>2, BetweenIs
  <2>5. SubSeq(t, e + 1, Len(t) + 1 - 1) = <<>>
    BY <1>4, <2>1
  <2>6. Len(s) = F
    BY <1>1, <1>2, <2>3, <2>4, <2>5
  <2> QED BY <2>6, PairsIs
<1> QED BY <1>3, <1>4

\* A pair is taken up at s, from where on nothing was overwritten: FirstPair,
\* and NextPair where it finds one.
LEMMA TakesPair ==
  ASSUME BufInv, CutInv, StoredInv,
         NEW s \in 1 .. Len(text), \A i \in s .. Len(text) : buf[i] = text[i],
         s - 1 \in Cuts(text), Rank(text, s - 1) = Len(kv),
         NEW r, r = lw_strtok_r(buf, s, "&"),
         p0' = r.tok, p1' = r.rest, buf' = r.buf, pc' = "key",
         UNCHANGED <<text, q1, k, kv, ret>>
  PROVE  ParseInv'
<1> DEFINE e == Len(text) + 1
           j == Stop(buf, s, "&")
<1>1. text \in Seq(Chars) /\ buf \in Strings /\ Len(buf) = Len(text) + 1 /\ buf[Len(buf)] = Nul
  BY DEF BufInv
<1>2. Taken(text, buf, s, e, "&", r, j)
  <2>1. Untouched(text, buf, s, e)
    BY <1>1 DEF Untouched
  <2> HIDE DEF e, j
  <2>2. Taken(text, buf, s, e, "&", lw_strtok_r(buf, s, "&"), Stop(buf, s, "&"))
    BY <2>1, TokenTaken
  <2> QED BY <2>2 DEF j
<1> HIDE DEF j
<1>3. /\ j \in s .. Len(text) + 1 /\ j \in Cuts(text) /\ \A h \in s .. j - 1 : text[h] # "&"
      /\ j # Len(text) + 1 => text[j] = "&"
  <2>1. /\ j \in s .. Len(text) + 1 /\ \A h \in s .. j - 1 : text[h] # "&"
        /\ j # Len(text) + 1 => text[j] = "&"
    BY <1>2 DEF Taken
  <2>2. j \in Cuts(text)
    BY <1>1, <2>1 DEF Cuts
  <2> QED BY <2>1, <2>2
<1>4. p0' = s /\ p1' = IF j = Len(text) + 1 THEN NULL ELSE j + 1
  BY <1>2 DEF Taken
<1>5. buf' \in Strings /\ Len(buf') = Len(buf) /\ buf'[j] = Nul
  BY <1>2 DEF Taken
<1>6. \A h \in 1 .. Len(buf) : h # j => buf'[h] = buf[h]
  BY <1>2 DEF Taken
<1>7. End' = j
  BY <1>1, <1>3, <1>4 DEF End, NULL
<1>8. BufInv'
  <2>1. p0' \in 0 .. Len(buf') /\ p1' \in 0 .. Len(buf')
    BY <1>1, <1>3, <1>4, <1>5 DEF NULL
  <2>2. buf'[Len(buf')] = Nul
    BY <1>1, <1>5, <1>6
  <2> QED BY <1>5, <2>1, <2>2 DEF BufInv
<1>9. CutInv'
  <2> SUFFICES ASSUME NEW i \in 1 .. Len(text), buf'[i] # text[i]
               PROVE  buf'[i] = Nul /\ text[i] \in {"&", "="} /\ (p1' # NULL => i < p1')
    BY DEF CutInv
  <2>1. CASE i = j
    BY <1>1, <1>3, <1>4, <1>5, <2>1
  <2>2. CASE i # j
    <3>1. buf'[i] = buf[i]
      BY <1>1, <1>6, <2>2
    <3>2. i < s /\ buf[i] = Nul /\ text[i] \in {"&", "="}
      BY <3>1 DEF CutInv
    <3> QED BY <1>3, <1>4, <3>1, <3>2
  <2> QED BY <2>1, <2>2
<1>10. PairInv'
  BY <1>1, <1>3, <1>4, <1>5, <1>7 DEF PairInv, NULL
<1>11. KeyInv'
  <2>1. \A h \in s .. j - 1 : buf'[h] = text[h]
    BY <1>1, <1>3, <1>6
  <2> QED BY <1>4, <1>7, <2>1 DEF KeyInv
<1>12. StoredInv'
  BY DEF StoredInv
<1>13. StartInv' /\ ValueInv' /\ ResultInv'
  BY DEF StartInv, ValueInv, ResultInv
<1> QED BY <1>8, <1>9, <1>10, <1>11, <1>12, <1>13 DEF ParseInv

\* The first pair; there is none in an empty text only.
LEMMA FirstPairStep ==
  ASSUME ParseInv, FirstPair
  PROVE  ParseInv'
<1> DEFINE r == lw_strtok_r(buf, 1, "&")
<1>1. /\ text \in Seq(Chars) /\ buf = Append(text, Nul) /\ Len(buf) = Len(text) + 1
      /\ kv = <<>> /\ p1 = NULL /\ pc = "first"
  BY DEF ParseInv, BufInv, StartInv, FirstPair
<1>2. p0' = r.tok /\ p1' = r.rest /\ buf' = r.buf /\ UNCHANGED <<text, q1, k, kv>>
  BY DEF FirstPair
<1>3. \A i \in 1 .. Len(text) : buf[i] = text[i] /\ buf[i] # Nul
  BY <1>1, CharsAre
<1>4. CASE text = <<>>
  <2>1. buf[1] = Nul /\ Len(text) = 0
    BY <1>1, <1>4
  <2>2. r = [tok |-> NULL, rest |-> 1, buf |-> buf]
    BY <2>1 DEF lw_strtok_r
  <2>3. p0' = NULL /\ p1' = 1 /\ buf' = buf /\ pc' = "done" /\ ret' = -1
    BY <1>2, <2>2 DEF FirstPair, Return
  <2>4. kv = Pairs(text)
    <3>1. text \in Seq(Chars) /\ kv \in Seq(Strings \X Strings)
      BY DEF ParseInv, BufInv
    <3>2. Len(text) + 1 = 1 /\ Len(kv) = 0
      BY <1>1, <2>1
    <3>3. 0 \in Cuts(text) /\ 1 \in Cuts(text) /\ Rank(text, 0) = 0
      <4>1. 0 \in Cuts(text) /\ Len(text) + 1 \in Cuts(text)
        BY <3>1, CutsFinite
      <4>2. Rank(text, 0) = 0
        BY <3>1, RankEnds
      <4> QED BY <3>2, <4>1, <4>2
    <3>4. Rank(text, 1) = 1 /\ Between(text)[1] = SubSeq(text, 1, 0)
      <4>1. \A h \in 0 + 1 .. 1 - 1 : text[h] # "&"
        OBVIOUS
      <4>2. Rank(text, 1) = Rank(text, 0) + 1
        BY <3>1, <3>3, <4>1, RankNext
      <4>3. Between(text)[Rank(text, 1)] = SubSeq(text, 0 + 1, 1 - 1)
        BY <3>1, <3>3, <4>1, BetweenIs
      <4> QED BY <3>3, <4>2, <4>3
    <3>5. ~ Sound(SubSeq(text, 1, 0))
      <4>1. 1 \in 1 .. Len(text) + 1 /\ \A h \in 1 .. 1 - 1 : text[h] # "="
        BY <2>1
      <4>2. ~ Sound(SubSeq(text, 1, 1 - 1))
        BY <3>1, <4>1, UnsoundIs
      <4> QED BY <4>2
    <3>6. ~ Sound(Between(text)[Len(kv) + 1])
      <4>1. Len(kv) + 1 = 1
        BY <3>2
      <4> QED BY <3>4, <3>5, <4>1, Zenon
    <3>7. Len(kv) <= Len(Fields(text))
      <4>1. Len(Fields(text)) \in Nat
        BY <3>1, FieldsIs
      <4> QED BY <3>2, <4>1
    <3>8. \A i \in 1 .. Len(kv) : Sound(Between(text)[i]) /\ kv[i] = Pair(Between(text)[i])
      BY <3>2
    <3> QED BY <3>1, <3>6, <3>7, <3>8, PairsIs
  <2>5. BufInv'
    <3>1. p0' \in 0 .. Len(buf') /\ p1' \in 0 .. Len(buf') /\ ret' \in {0, -1}
      BY <1>1, <2>1, <2>3 DEF NULL
    <3> QED BY <1>2, <2>3, <3>1 DEF ParseInv, BufInv
  <2>6. CutInv'
    BY <1>2, <2>1, <2>3 DEF CutInv
  <2>7. StoredInv'
    BY <1>2, <2>3 DEF ParseInv, StoredInv
  <2>8. ResultInv'
    BY <1>2, <1>4, <2>3, <2>4 DEF ResultInv
  <2>9. StartInv' /\ PairInv' /\ KeyInv' /\ ValueInv'
    BY <2>3 DEF StartInv, PairInv, KeyInv, ValueInv
  <2> QED BY <2>5, <2>6, <2>7, <2>8, <2>9 DEF ParseInv
<1>5. CASE text # <<>>
  <2>1. 1 \in 1 .. Len(text)
    BY <1>1, <1>5
  <2>2. r.tok = 1
    BY <1>3, <2>1 DEF lw_strtok_r, NULL
  <2>3. pc' = "key" /\ UNCHANGED ret
    BY <2>2 DEF FirstPair, NULL
  <2>4. 1 - 1 \in Cuts(text) /\ Rank(text, 1 - 1) = Len(kv)
    BY <1>1, CutsFinite, RankEnds
  <2> HIDE DEF r
  <2>5. r = lw_strtok_r(buf, 1, "&")
    BY DEF r
  <2> QED BY <1>2, <1>3, <2>1, <2>3, <2>4, <2>5, TakesPair DEF ParseInv
<1> QED BY <1>4, <1>5

\* What parse knows while it is in a pair.
LEMMA InPair ==
  ASSUME ParseInv, pc \in {"key", "value", "next"}
  PROVE  /\ text \in Seq(Chars) /\ buf \in Strings /\ kv \in Seq(Strings \X Strings)
         /\ Len(buf) = Len(text) + 1 /\ buf[Len(buf)] = Nul /\ buf[End] = Nul
         /\ p0 \in 1 .. Len(text) /\ End \in p0 .. Len(text) + 1 /\ (p1 # NULL => End = p1 - 1)
         /\ p0 - 1 \in Cuts(text) /\ End \in Cuts(text)
         /\ \A h \in p0 .. End - 1 : text[h] # "&"
         /\ \A i \in 1 .. Len(kv) : Sound(Between(text)[i]) /\ kv[i] = Pair(Between(text)[i])
<1>1. /\ text \in Seq(Chars) /\ buf \in Strings /\ kv \in Seq(Strings \X Strings)
      /\ Len(buf) = Len(text) + 1 /\ buf[Len(buf)] = Nul /\ p1 \in 0 .. Len(buf)
  BY DEF ParseInv, BufInv
<1>2. /\ p0 \in 1 .. Len(text) /\ p0 <= End /\ p1 # 1 /\ buf[End] = Nul
      /\ p0 - 1 \in Cuts(text) /\ End \in Cuts(text)
      /\ \A h \in p0 .. End - 1 : text[h] # "&"
  BY DEF ParseInv, PairInv
<1>3. End \in p0 .. Len(text) + 1 /\ (p1 # NULL => End = p1 - 1)
  BY <1>1, <1>2 DEF End, NULL
<1>4. \A i \in 1 .. Len(kv) : Sound(Between(text)[i]) /\ kv[i] = Pair(Between(text)[i])
  BY DEF ParseInv, StoredInv
<1> QED BY <1>1, <1>2, <1>3, <1>4

\* parse ends, and has overwritten nothing more.
LEMMA EndsParse ==
  ASSUME ParseInv, pc' = "done", UNCHANGED <<text, buf, k, kv>>,
         p0' \in 0 .. Len(buf), q1' \in 0 .. Len(buf), UNCHANGED p1,
         ret' \in {0, -1}, kv = Pairs(text),
         ret' = 0 <=> text # <<>> /\ Len(kv) = Len(Fields(text))
  PROVE  ParseInv'
<1>1. BufInv'
  BY DEF ParseInv, BufInv
<1>2. CutInv'
  BY DEF ParseInv, CutInv
<1>3. StoredInv'
  BY DEF ParseInv, StoredInv
<1>4. ResultInv'
  BY DEF ResultInv
<1>5. StartInv' /\ PairInv' /\ KeyInv' /\ ValueInv'
  BY DEF StartInv, PairInv, KeyInv, ValueInv
<1> QED BY <1>1, <1>2, <1>3, <1>4, <1>5 DEF ParseInv

\* parse has overwritten the delimiter at j, within the pair at hand, or nothing.
LEMMA CutsOut ==
  ASSUME ParseInv, UNCHANGED <<text, p0, p1>>, buf' \in Strings, Len(buf') = Len(buf),
         NEW j \in 1 .. End, \A h \in 1 .. Len(buf) : h # j => buf'[h] = buf[h], buf'[j] = Nul,
         j # End => text[j] = "=",
         pc \in {"key", "value"}, pc' \in {"value", "next"}
  PROVE  CutInv' /\ PairInv' /\ buf'[Len(buf')] = Nul
<1>1. /\ text \in Seq(Chars) /\ Len(buf) = Len(text) + 1 /\ buf[Len(buf)] = Nul /\ buf[End] = Nul
      /\ p0 \in 1 .. Len(text) /\ End \in p0 .. Len(text) + 1 /\ (p1 # NULL => End = p1 - 1)
  BY InPair
<1>2. CutInv /\ PairInv /\ p1 \in 0 .. Len(buf) /\ End' = End
  BY DEF ParseInv, BufInv, End
<1>3. CutInv'
  <2> SUFFICES ASSUME NEW i \in 1 .. Len(text), buf'[i] # text[i]
               PROVE  buf'[i] = Nul /\ text[i] \in {"&", "="} /\ (p1 # NULL => i < p1)
    BY DEF CutInv
  <2>1. CASE i = j /\ j # End
    BY <1>1, <1>2, <2>1
  <2>2. CASE i # j \/ j = End
    <3>1. buf'[i] = buf[i]
      BY <1>1, <2>2
    <3> QED BY <1>2, <3>1 DEF CutInv
  <2> QED BY <2>1, <2>2
<1>4. buf'[End] = Nul /\ buf'[Len(buf')] = Nul
  BY <1>1
<1>5. PairInv'
  BY <1>2, <1>4 DEF PairInv
<1> QED BY <1>3, <1>4, <1>5

\* The key is cut out; a pair that is empty ends it.
LEMMA KeyStep ==
  ASSUME ParseInv, Key
  PROVE  ParseInv'
<1> DEFINE r == lw_strtok_r(buf, p0, "=")
           j == Stop(buf, p0, "=")
<1>1. pc = "key" /\ q1' = r.rest /\ buf' = r.buf /\ UNCHANGED <<text, p0, p1, kv>>
  BY DEF Key
<1>2. /\ text \in Seq(Chars) /\ buf \in Strings /\ kv \in Seq(Strings \X Strings)
      /\ Len(buf) = Len(text) + 1 /\ buf[Len(buf)] = Nul /\ buf[End] = Nul
      /\ p0 \in 1 .. Len(text) /\ End \in p0 .. Len(text) + 1
  BY <1>1, InPair
<1>3. /\ p0 - 1 \in Cuts(text) /\ End \in Cuts(text)
      /\ \A h \in p0 .. End - 1 : text[h] # "&"
      /\ \A i \in 1 .. Len(kv) : Sound(Between(text)[i]) /\ kv[i] = Pair(Between(text)[i])
  BY <1>1, InPair
<1>4. Rank(text, p0 - 1) = Len(kv) /\ \A h \in p0 .. End - 1 : buf[h] = text[h]
  BY <1>1 DEF ParseInv, KeyInv
<1>5. CASE p0 = End
  <2>1. r = [tok |-> NULL, rest |-> p0, buf |-> buf]
    BY <1>2, <1>5 DEF lw_strtok_r
  <2>2. q1' = p0 /\ buf' = buf /\ pc' = "done" /\ ret' = -1 /\ UNCHANGED k
    BY <1>1, <2>1 DEF Key, Return
  <2>3. ~ Sound(SubSeq(text, p0, End - 1))
    <3>1. p0 \in 1 .. Len(text) + 1 /\ \A h \in p0 .. End - 1 : text[h] # "="
      BY <1>2, <1>5
    <3> QED BY <1>2, <3>1, UnsoundIs
  <2>4. kv = Pairs(text) /\ Len(kv) # Len(Fields(text))
    BY <1>2, <1>3, <1>4, <2>3, GivesUp
  <2>5. p0' \in 0 .. Len(buf) /\ q1' \in 0 .. Len(buf)
    BY <1>1, <1>2, <2>2
  <2> HIDE DEF r
  <2> QED BY <1>1, <2>2, <2>4, <2>5, EndsParse
<1>6. CASE p0 # End
  <2>1. Taken(text, buf, p0, End, "=", r, j)
    <3>1. Untouched(text, buf, p0, End)
      BY <1>2, <1>4, <1>6 DEF Untouched
    <3> QED BY <3>1, TokenTaken
  <2> HIDE DEF r, j
  <2>2. /\ j \in p0 .. End /\ \A h \in p0 .. j - 1 : text[h] # "="
        /\ j # End => text[j] = "="
    BY <2>1 DEF Taken
  <2>3. r.tok = p0 /\ q1' = IF j = End THEN NULL ELSE j + 1
    BY <1>1, <2>1 DEF Taken
  <2>4. buf' \in Strings /\ Len(buf') = Len(buf) /\ buf'[j] = Nul
    BY <1>1, <2>1 DEF Taken
  <2>5. \A h \in 1 .. Len(buf) : h # j => buf'[h] = buf[h]
    BY <1>1, <2>1 DEF Taken
  <2>6. CString(buf', p0) = SubSeq(text, p0, j - 1)
    BY <1>1, <2>1 DEF Taken
  <2>7. pc' = "value" /\ k' = SubSeq(text, p0, j - 1) /\ UNCHANGED ret
    <3>1. r.tok # NULL
      BY <1>2, <2>3 DEF NULL
    <3>2. pc' = "value" /\ k' = CString(r.buf, r.tok) /\ UNCHANGED ret
      BY <3>1 DEF Key, r
    <3> QED BY <1>1, <2>3, <2>6, <3>2
  <2>8. CutInv' /\ PairInv' /\ buf'[Len(buf')] = Nul
    <3>1. j \in 1 .. End
      BY <1>2, <2>2
    <3> QED BY <1>1, <2>2, <2>4, <2>5, <2>7, <3>1, CutsOut
  <2>9. BufInv'
    <3>1. k' \in Strings
      BY <1>2, <2>2, <2>7 DEF Strings
    <3>2. q1' \in 0 .. Len(buf')
      BY <1>2, <2>2, <2>3, <2>4 DEF NULL
    <3> QED BY <1>1, <2>4, <2>7, <2>8, <3>1, <3>2 DEF ParseInv, BufInv
  <2>10. ValueInv'
    <3>1. End' = End
      BY <1>1 DEF End
    <3>2. CASE j = End
      BY <1>1, <1>4, <2>2, <2>3, <3>1, <3>2 DEF ValueInv
    <3>3. CASE j # End
      <4>1. q1' = j + 1 /\ q1' # NULL /\ q1' - 1 = j /\ q1' - 2 = j - 1 /\ j \in p0 .. End - 1
        BY <1>2, <2>2, <2>3, <3>3 DEF NULL
      <4>2. \A h \in q1' .. End - 1 : buf'[h] = text[h]
        BY <1>2, <1>4, <2>2, <2>5, <4>1
      <4> QED BY <1>1, <1>4, <2>2, <2>7, <3>1, <3>3, <4>1, <4>2 DEF ValueInv
    <3> QED BY <3>2, <3>3
  <2>11. StoredInv'
    BY <1>1, <2>7 DEF ParseInv, StoredInv
  <2>12. StartInv' /\ KeyInv' /\ ResultInv'
    BY <2>7 DEF StartInv, KeyInv, ResultInv
  <2> QED BY <2>8, <2>9, <2>10, <2>11, <2>12 DEF ParseInv
<1> QED BY <1>5, <1>6

\* The value is cut out and the pair stored; a pair without = or with nothing
\* after it ends it.
LEMMA ValueStep ==
  ASSUME ParseInv, Value
  PROVE  ParseInv'
<1> DEFINE r == lw_strtok_r(buf, q1, "=")
           j == Stop(buf, q1, "=")
<1>1. pc = "value" /\ q1' = r.rest /\ buf' = r.buf /\ UNCHANGED <<text, p0, p1, k>>
  BY DEF Value
<1>2. /\ text \in Seq(Chars) /\ buf \in Strings /\ kv \in Seq(Strings \X Strings)
      /\ Len(buf) = Len(text) + 1 /\ buf[Len(buf)] = Nul /\ buf[End] = Nul
      /\ p0 \in 1 .. Len(text) /\ End \in p0 .. Len(text) + 1
  BY <1>1, InPair
<1>3. /\ p0 - 1 \in Cuts(text) /\ End \in Cuts(text)
      /\ \A h \in p0 .. End - 1 : text[h] # "&"
      /\ \A i \in 1 .. Len(kv) : Sound(Between(text)[i]) /\ kv[i] = Pair(Between(text)[i])
  BY <1>1, InPair
<1>4. Rank(text, p0 - 1) = Len(kv) /\ q1 \in 0 .. Len(buf)
  BY <1>1 DEF ParseInv, ValueInv, BufInv
<1>5. CASE q1 = NULL \/ q1 = End
  <2>1. r = [tok |-> NULL, rest |-> q1, buf |-> buf]
    BY <1>2, <1>5 DEF lw_strtok_r
  <2>2. q1' = q1 /\ buf' = buf /\ pc' = "done" /\ ret' = -1 /\ UNCHANGED kv
    BY <1>1, <2>1 DEF Value, Return
  <2>3. ~ Sound(SubSeq(text, p0, End - 1))
    <3>1. p0 \in 1 .. Len(text) + 1
      BY <1>2
    <3>2. CASE q1 = NULL
      <4>1. \A h \in p0 .. End - 1 : text[h] # "="
        BY <1>1, <3>2 DEF ParseInv, ValueInv
      <4> QED BY <1>2, <3>1, <4>1, UnsoundIs
    <3>3. CASE q1 # NULL
      <4> DEFINE m == q1 - 1
      <4>1. m \in p0 .. End - 1 /\ text[m] = "=" /\ \A h \in p0 .. q1 - 2 : text[h] # "="
        BY <1>1, <3>3 DEF ParseInv, ValueInv
      <4>2. m + 1 = End /\ m - 1 = q1 - 2
        BY <1>2, <1>4, <1>5, <3>3
      <4> HIDE DEF m
      <4>3. \A h \in p0 .. m - 1 : text[h] # "="
        BY <4>1, <4>2
      <4>4. ~ (m + 1 < End)
        BY <1>2, <4>2
      <4> QED BY <1>2, <3>1, <4>1, <4>3, <4>4, SoundIs
    <3> QED BY <3>2, <3>3
  <2>4. kv = Pairs(text) /\ Len(kv) # Len(Fields(text))
    BY <1>2, <1>3, <1>4, <2>3, GivesUp
  <2>5. p0' \in 0 .. Len(buf) /\ q1' \in 0 .. Len(buf)
    BY <1>1, <1>2, <1>4, <2>2
  <2> HIDE DEF r
  <2> QED BY <1>1, <2>2, <2>4, <2>5, EndsParse
<1>6. CASE q1 # NULL /\ q1 # End
  <2> DEFINE m == q1 - 1
  <2>1. /\ m \in p0 .. End - 1 /\ text[m] = "=" /\ k = SubSeq(text, p0, m - 1)
        /\ q1 = m + 1 /\ q1 \in p0 .. End - 1
    <3>1. m \in p0 .. End - 1 /\ text[m] = "=" /\ k = SubSeq(text, p0, q1 - 2)
      BY <1>1, <1>6 DEF ParseInv, ValueInv
    <3>2. q1 - 2 = m - 1 /\ q1 = m + 1
      BY <1>4
    <3>3. q1 \in p0 .. End - 1
      BY <1>2, <1>4, <1>6, <3>1
    <3> QED BY <3>1, <3>2, <3>3
  <2>2. \A h \in p0 .. m - 1 : text[h] # "="
    <3>1. \A h \in p0 .. q1 - 2 : text[h] # "="
      BY <1>1, <1>6 DEF ParseInv, ValueInv
    <3>2. q1 - 2 = m - 1
      BY <1>4
    <3> QED BY <3>1, <3>2
  <2>3. \A i \in q1 .. End - 1 : buf[i] = text[i]
    BY <1>1, <1>6 DEF ParseInv, ValueInv
  <2> HIDE DEF m
  <2>4. Taken(text, buf, q1, End, "=", r, j) /\ q1 \in 1 .. Len(text) /\ text \in Seq(Chars)
    <3>1. Untouched(text, buf, q1, End) /\ q1 \in 1 .. Len(text)
      BY <1>2, <2>1, <2>3 DEF Untouched
    <3> QED BY <1>2, <3>1, TokenTaken
  <2> HIDE DEF r, j
  <2>5. /\ j \in q1 .. End /\ \A h \in q1 .. j - 1 : text[h] # "="
        /\ j # End => text[j] = "="
    BY <2>4 DEF Taken
  <2>6. r.tok = q1 /\ q1' = IF j = End THEN NULL ELSE j + 1
    BY <1>1, <2>4 DEF Taken
  <2>7. buf' \in Strings /\ Len(buf') = Len(buf) /\ buf'[j] = Nul
    BY <1>1, <2>4 DEF Taken
  <2>8. \A h \in 1 .. Len(buf) : h # j => buf'[h] = buf[h]
    BY <1>1, <2>4 DEF Taken
  <2>9. CString(buf', q1) = SubSeq(text, q1, j - 1)
    BY <1>1, <2>4 DEF Taken
  <2>10. /\ pc' = "next" /\ UNCHANGED ret
         /\ kv' = Append(kv, <<k, SubSeq(text, q1, j - 1)>>)
    <3>1. r.tok # NULL
      BY <1>6, <2>6
    <3>2. pc' = "next" /\ kv' = Append(kv, <<k, CString(r.buf, r.tok)>>) /\ UNCHANGED ret
      BY <3>1 DEF Value, r
    <3> QED BY <1>1, <2>6, <2>9, <3>2
  <2>11. CutInv' /\ PairInv' /\ buf'[Len(buf')] = Nul
    <3>1. j \in 1 .. End
      BY <2>4, <2>5
    <3> QED BY <1>1, <2>5, <2>7, <2>8, <2>10, <3>1, CutsOut
  <2>12. BufInv'
    <3>1. k \in Strings /\ SubSeq(text, q1, j - 1) \in Strings
      <4>1. k \in Strings
        BY DEF ParseInv, BufInv
      <4>2. SubSeq(text, q1, j - 1) \in Seq(Chars)
        BY <1>2, <2>4, <2>5
      <4>3. Seq(Chars) \subseteq Strings
        BY DEF Strings
      <4> QED BY <4>1, <4>2, <4>3
    <3>2. kv' \in Seq(Strings \X Strings)
      <4> DEFINE v == <<k, SubSeq(text, q1, j - 1)>>
      <4>1. v \in Strings \X Strings /\ kv' = Append(kv, v)
        BY <2>10, <3>1
      <4> HIDE DEF v
      <4> QED BY <1>2, <4>1
    <3>3. q1' \in 0 .. Len(buf')
      BY <1>2, <2>4, <2>5, <2>6, <2>7 DEF NULL
    <3> QED BY <1>1, <2>7, <2>10, <2>11, <3>2, <3>3 DEF ParseInv, BufInv
  <2>13. Rank(text, End) = Len(kv) + 1 /\ Rank(text, End) \in 1 .. Cardinality(Cuts(text)) - 1
         /\ Between(text)[Len(kv) + 1] = SubSeq(text, p0, End - 1)
    <3> DEFINE a == p0 - 1
    <3>1. a \in Cuts(text) /\ a < End /\ a + 1 = p0 /\ Rank(text, a) = Len(kv)
      BY <1>2, <1>3, <1>4
    <3> HIDE DEF a
    <3>2. \A h \in a + 1 .. End - 1 : text[h] # "&"
      BY <1>3, <3>1
    <3>3. Rank(text, End) = Rank(text, a) + 1
      BY <1>2, <1>3, <3>1, <3>2, RankNext
    <3>4. /\ Rank(text, End) \in 1 .. Cardinality(Cuts(text)) - 1
          /\ Between(text)[Rank(text, End)] = SubSeq(text, a + 1, End - 1)
      BY <1>2, <1>3, <3>1, <3>2, BetweenIs
    <3> QED BY <3>1, <3>3, <3>4
  <2>14. /\ Sound(SubSeq(text, p0, End - 1))
         /\ Pair(SubSeq(text, p0, End - 1)) = <<k, SubSeq(text, q1, j - 1)>>
    <3>1. p0 \in 1 .. Len(text) + 1 /\ m + 1 < End
      BY <1>2, <2>1
    <3>2. Sound(SubSeq(text, p0, End - 1))
      BY <1>2, <2>1, <2>2, <3>1, SoundIs
    <3>3. j \in m + 1 .. End /\ (j = End \/ text[j] = "=") /\ \A h \in m + 1 .. j - 1 : text[h] # "="
      BY <2>1, <2>5
    <3>4. Pair(SubSeq(text, p0, End - 1)) = <<SubSeq(text, p0, m - 1), SubSeq(text, m + 1, j - 1)>>
      <4>1. text \in Seq(Chars) /\ End \in p0 .. Len(text) + 1 /\ m \in p0 .. End - 1 /\ text[m] = "="
        BY <1>2, <2>1
      <4> QED BY <2>2, <3>1, <3>3, <4>1, PairIs
    <3> QED BY <2>1, <3>2, <3>4
  <2>15. StoredInv'
    <3> DEFINE v == <<k, SubSeq(text, q1, j - 1)>>
    <3>1. End' = End /\ text' = text /\ pc' = "next"
      BY <1>1, <2>10 DEF End
    <3>2. v \in Strings \X Strings
      <4>1. k \in Strings
        BY DEF ParseInv, BufInv
      <4>2. SubSeq(text, q1, j - 1) \in Seq(Chars)
        BY <1>2, <2>4, <2>5
      <4>3. Seq(Chars) \subseteq Strings
        BY DEF Strings
      <4> QED BY <4>1, <4>2, <4>3
    <3>3. kv' = Append(kv, v) /\ v = Pair(Between(text)[Len(kv) + 1]) /\ Sound(Between(text)[Len(kv) + 1])
      BY <2>10, <2>13, <2>14
    <3> HIDE DEF v
    <3>4. /\ Len(kv') = Len(kv) + 1 /\ kv'[Len(kv) + 1] = v
          /\ \A i \in 1 .. Len(kv) : kv'[i] = kv[i]
      BY <1>2, <3>2, <3>3
    <3>5. ASSUME NEW i \in 1 .. Len(kv')
          PROVE  Sound(Between(text)[i]) /\ kv'[i] = Pair(Between(text)[i])
      <4>1. CASE i = Len(kv) + 1
        BY <3>3, <3>4, <4>1
      <4>2. CASE i # Len(kv) + 1
        <5>1. i \in 1 .. Len(kv)
          BY <1>2, <3>4, <4>2
        <5> QED BY <1>3, <3>4, <5>1
      <4> QED BY <4>1, <4>2
    <3>6. Len(kv') < Cardinality(Cuts(text)) /\ Rank(text, End) = Len(kv')
      <4>1. Cardinality(Cuts(text)) \in Nat
        BY <1>2, CutsFinite
      <4> QED BY <2>13, <3>4, <4>1
    <3> QED BY <3>1, <3>5, <3>6 DEF StoredInv
  <2>16. StartInv' /\ KeyInv' /\ ValueInv' /\ ResultInv'
    BY <2>10 DEF StartInv, KeyInv, ValueInv, ResultInv
  <2> QED BY <2>11, <2>12, <2>15, <2>16 DEF ParseInv
<1> QED BY <1>5, <1>6

\* The next pair; there is none where the text is at its end.
LEMMA NextPairStep ==
  ASSUME ParseInv, NextPair
  PROVE  ParseInv'
<1> DEFINE r == lw_strtok_r(buf, p1, "&")
<1>1. pc = "next" /\ p0' = r.tok /\ p1' = r.rest /\ buf' = r.buf /\ UNCHANGED <<text, q1, k, kv>>
  BY DEF NextPair
<1>2. /\ text \in Seq(Chars) /\ buf \in Strings /\ kv \in Seq(Strings \X Strings)
      /\ Len(buf) = Len(text) + 1 /\ buf[Len(buf)] = Nul
      /\ p0 \in 1 .. Len(text) /\ End \in p0 .. Len(text) + 1 /\ End \in Cuts(text)
      /\ (p1 # NULL => End = p1 - 1)
  BY <1>1, InPair
<1>3. \A i \in 1 .. Len(kv) : Sound(Between(text)[i]) /\ kv[i] = Pair(Between(text)[i])
  BY <1>1, InPair
<1>4. /\ Rank(text, End) = Len(kv) /\ q1 \in 0 .. Len(buf) /\ p1 \in 0 .. Len(buf)
      /\ p1 = NULL => End = Len(text) + 1
  BY <1>1 DEF ParseInv, StoredInv, BufInv, End
<1>5. p1 # NULL => \A i \in p1 .. Len(text) : buf[i] = text[i] /\ buf[i] # Nul
  <2> SUFFICES ASSUME p1 # NULL, NEW i \in p1 .. Len(text) PROVE buf[i] = text[i] /\ buf[i] # Nul
    OBVIOUS
  <2>1. i \in 1 .. Len(text) /\ ~ (i < p1)
    BY <1>2, <1>4 DEF NULL
  <2>2. buf[i] = text[i]
    BY <2>1 DEF ParseInv, CutInv
  <2> QED BY <1>2, <2>1, <2>2, CharsAre
<1>6. CASE p1 = NULL \/ buf[p1] = Nul
  <2>1. r = [tok |-> NULL, rest |-> p1, buf |-> buf]
    BY <1>6 DEF lw_strtok_r
  <2>2. p0' = NULL /\ p1' = p1 /\ buf' = buf /\ pc' = "done" /\ ret' = 0
    BY <1>1, <2>1 DEF NextPair, Return
  <2>3. End = Len(text) + 1 \/ End = Len(text)
    <3>1. p1 # NULL => p1 = Len(text) + 1
      BY <1>2, <1>4, <1>5, <1>6 DEF NULL
    <3> QED BY <1>2, <1>4, <3>1
  <2>4. text # <<>>
    BY <1>2
  <2>5. kv = Pairs(text) /\ Len(kv) = Len(Fields(text))
    <3> HIDE DEF r
    <3> QED BY <1>2, <1>3, <1>4, <2>3, <2>4, Finishes
  <2>6. p0' \in 0 .. Len(buf) /\ q1' \in 0 .. Len(buf)
    BY <1>1, <1>2, <1>4, <2>2 DEF NULL
  <2> HIDE DEF r
  <2> QED BY <1>1, <2>2, <2>4, <2>5, <2>6, EndsParse
<1>7. CASE p1 # NULL /\ buf[p1] # Nul
  <2>1. p1 \in 1 .. Len(text) /\ p1 - 1 \in Cuts(text) /\ Rank(text, p1 - 1) = Len(kv)
    <3>1. End = p1 - 1
      BY <1>2, <1>7
    <3>2. p1 \in 1 .. Len(text)
      BY <1>2, <1>4, <1>7 DEF NULL
    <3> QED BY <1>2, <1>4, <3>1, <3>2
  <2>2. \A i \in p1 .. Len(text) : buf[i] = text[i]
    BY <1>5, <1>7
  <2>3. r.tok = p1
    BY <1>7 DEF lw_strtok_r
  <2>4. pc' = "key" /\ UNCHANGED ret
    BY <1>7, <2>3 DEF NextPair
  <2> HIDE DEF r
  <2>5. r = lw_strtok_r(buf, p1, "&")
    BY DEF r
  <2> QED BY <1>1, <2>1, <2>2, <2>4, <2>5, TakesPair DEF ParseInv
<1> QED BY <1>6, <1>7

\* The state in which parse has not been called.
LEMMA IdleIs ==
  ASSUME text = <<>>, buf = <<Nul>>, pc = "idle", p0 = NULL, p1 = NULL, q1 = NULL,
         k = <<>>, kv = <<>>, ret = 0
  PROVE  ParseInv
<1>1. BufInv
  <2>1. <<>> \in Seq(Chars) /\ <<>> \in Strings /\ <<>> \in Seq(Strings \X Strings)
    BY DEF Strings
  <2>2. <<Nul>> \in Strings /\ Len(<<Nul>>) = 1 /\ <<Nul>>[1] = Nul /\ Len(<<>>) = 0
    BY DEF Strings
  <2> QED BY <2>1, <2>2 DEF BufInv, NULL
<1>2. Len(text) = 0 /\ Len(kv) = 0 /\ text \in Seq(Chars)
  BY <1>1 DEF BufInv
<1>3. CutInv
  BY <1>2 DEF CutInv
<1>4. StoredInv
  <2>1. Cardinality(Cuts(text)) - 1 \in Nat \ {0}
    BY <1>2, FieldsIs
  <2>2. Cardinality(Cuts(text)) \in Nat
    BY <1>2, CutsFinite
  <2>3. Len(kv) < Cardinality(Cuts(text))
    BY <1>2, <2>1, <2>2
  <2> QED BY <1>2, <2>3 DEF StoredInv
<1>5. StartInv /\ PairInv /\ KeyInv /\ ValueInv /\ ResultInv
  BY DEF StartInv, PairInv, KeyInv, ValueInv, ResultInv
<1> QED BY <1>1, <1>3, <1>4, <1>5 DEF ParseInv

\* login_post_cb is done with what parse has left.
LEMMA DisposeStep == Dispose => ParseInv'
<1>1. ParseInit => ParseInv
  BY IdleIs DEF ParseInit
<1>2. Dispose => ParseInit'
  BY DEF Dispose, ParseInit
<1>3. ParseInit' => ParseInv'
  BY <1>1, PTL
<1> QED BY <1>2, <1>3

\* parse is called, with any text.
LEMMA CallStep ==
  ASSUME ParseInv, pc = "idle", NEW t \in Texts, Call(t)
  PROVE  ParseInv'
<1>1. /\ text' = t /\ buf' = Append(t, Nul) /\ pc' = "first"
      /\ UNCHANGED <<p0, p1, q1, k, kv, ret>>
  BY DEF Call
<1>2. t \in Seq(Chars)
  <2>1. PICK n \in 0 .. MaxLen : t \in [1 .. n -> Letters \cup {"&", "="}]
    BY DEF Texts
  <2>2. n \in Nat
    BY <2>1
  <2> QED BY <2>1, <2>2 DEF Chars
<1>3. p0 = NULL /\ p1 = NULL /\ q1 = NULL /\ kv = <<>>
  BY DEF ParseInv, StartInv
<1>4. Append(t, Nul) \in Strings
  <2>1. t \in Seq(Chars \cup {Nul})
    BY <1>2
  <2> QED BY <2>1 DEF Strings
<1>5. BufInv'
  <2>1. /\ Len(buf') = Len(text') + 1 /\ buf'[Len(buf')] = Nul
        /\ 0 \in 0 .. Len(buf')
    BY <1>1, <1>2
  <2> QED BY <1>1, <1>2, <1>3, <1>4, <2>1 DEF ParseInv, BufInv, NULL
<1>6. CutInv'
  <2>1. \A i \in 1 .. Len(t) : Append(t, Nul)[i] = t[i]
    BY <1>2
  <2> QED BY <1>1, <2>1 DEF CutInv
<1>7. StoredInv'
  <2>1. Cardinality(Cuts(t)) - 1 \in Nat \ {0} /\ Cardinality(Cuts(t)) \in Nat
    BY <1>2, FieldsIs, CutsFinite
  <2>2. Len(kv) = 0
    BY <1>3
  <2>3. Len(kv) < Cardinality(Cuts(t))
    BY <2>1, <2>2
  <2> QED BY <1>1, <2>2, <2>3 DEF StoredInv
<1>8. StartInv'
  BY <1>1, <1>3 DEF StartInv
<1>9. PairInv' /\ KeyInv' /\ ValueInv' /\ ResultInv'
  BY <1>1 DEF PairInv, KeyInv, ValueInv, ResultInv
<1> QED BY <1>5, <1>6, <1>7, <1>8, <1>9 DEF ParseInv

\* Every step of the server keeps parse's invariant.
LEMMA ParseInvStep == HInv /\ ParseInv /\ [HttpNext]_httpVars => ParseInv'
<1> SUFFICES ASSUME HInv, ParseInv, [HttpNext]_httpVars PROVE ParseInv'
  OBVIOUS
<1>1. ASSUME UNCHANGED parseVars PROVE ParseInv'
  BY <1>1 DEF parseVars, ParseInv, BufInv, CutInv, StartInv, PairInv, KeyInv, ValueInv, StoredInv,
              ResultInv, End
<1>2. CASE UNCHANGED httpVars
  BY <1>1, <1>2 DEF httpVars, loginVars
<1>3. CASE create \/ register \/ run
  BY <1>1, <1>3 DEF create, register, run, loginVars
<1>4. CASE Parse
  BY <1>4, FirstPairStep, KeyStep, ValueStep, NextPairStep DEF Parse, ParseNext
<1>5. CASE login_reply
  BY <1>5, DisposeStep DEF login_reply
<1>6. ASSUME NEW c \in Clients, handle(c) PROVE ParseInv'
  <2>1. busy = Nothing
    BY <1>6 DEF handle
  <2>2. pc = "idle"
    BY <2>1 DEF HInv, LoginInv
  <2>3. \/ UNCHANGED parseVars
        \/ \E t \in Texts : Call(t)
    BY <1>6 DEF handle, __requestHandler, __genHandler, login_post_cb, get_cb, Answer, Hold, loginVars
  <2> QED BY <1>1, <2>2, <2>3, CallStep
<1>7. ASSUME NEW c \in Clients, Reconnect(c) \/ \E r \in Asked : Ask(c, r) PROVE ParseInv'
  BY <1>1, <1>7 DEF Reconnect, Ask, loginVars
<1> QED BY <1>2, <1>3, <1>4, <1>5, <1>6, <1>7 DEF HttpNext

\* For texts of any length over any letters: parse (lw_util.cpp) stores exactly
\* the pairs of the fields up to the first that is not sound, says whether that
\* was all, and overwrites nothing but delimiters, none beyond the pair at hand.
THEOREM HttpParsed == HttpSpec => []ParsedExactly
<1>1. ParseInv => ParsedExactly
  <2> SUFFICES ASSUME ParseInv PROVE ParsedExactly
    OBVIOUS
  <2>1. ParseTypeOK
    <3>1. Strings = Seq(Letters \cup {"&", "=", Nul})
      BY CharsAre DEF Strings
    <3> QED BY <3>1 DEF ParseInv, BufInv, ParseTypeOK
  <2> QED BY <2>1 DEF ParseInv, ResultInv, CutInv, ParsedExactly
<1>2. HttpInit => ParseInv
  BY IdleIs DEF HttpInit, ParseInit
<1> QED BY <1>1, <1>2, HttpStart, HttpStep, ParseInvStep, PTL DEF HttpSpec
=============================================================================
