----------------------------- MODULE HttpServer -----------------------------
(***************************************************************************)
(* HttpServer (libnet/http_server.cpp) with the handlers that              *)
(* PlatformHttpServer/http_server_business.cpp registers: a table from     *)
(* paths to a method and a handler, one thread that serves the requests of *)
(* all connections, and on each connection one request at a time.          *)
(*                                                                         *)
(* Of a request what counts is its path, its method and whether what its   *)
(* handler wants of it (a body, the parameters a and b) is there; what the *)
(* body of a login says is settled when it is read, and taken apart by     *)
(* QueryString's parse.  Of a reply what counts is who made it.  libevent  *)
(* keeps a connection waiting until its request was answered.  The loop    *)
(* never ends: nothing breaks it.                                          *)
(***************************************************************************)
EXTENDS QueryString

CONSTANTS Clients,    \* connections
          Asked,      \* bound: the requests that are made
          Nothing     \* no request; no reply yet; no entry in the table; nobody

VARIABLES setup,      \* how far __create_http_service_business is
          method,     \* method[p]: the method of the signature registered for p
          running,    \* the thread of run dispatches
          request,    \* request[c]: the request c waits for an answer to
          reply,      \* reply[c]: the answer
          held,       \* held[c]: c's handler has returned without answering
          busy        \* the client whose login the thread is working on

loginVars == <<busy, parseVars>>
httpVars  == <<setup, method, running, request, reply, held, loginVars>>

Paths    == {"/login", "/add", "/sub", "/mul", "/other"}
Methods  == {"GET", "POST", "PUT"}
Requests == [path : Paths, cmd : Methods, full : BOOLEAN]
Replies  == {"handled", "lacking", "method", "badrequest"}

ASSUME AskedAssumption == Asked \subseteq Requests
ASSUME NothingAssumption == Nothing \notin Clients /\ Nothing \notin Methods /\ Nothing \notin Requests

\* The registrations, in the order they are made.
Routes == <<<<"/login", "POST">>, <<"/add", "GET">>, <<"/sub", "GET">>, <<"/mul", "GET">>>>

Failed == -1

HttpInit ==
  /\ setup = 0 /\ running = FALSE
  /\ method = [p \in Paths |-> Nothing]
  /\ request = [c \in Clients |-> Nothing]
  /\ reply = [c \in Clients |-> Nothing]
  /\ held = [c \in Clients |-> FALSE]
  /\ busy = Nothing /\ ParseInit

-----------------------------------------------------------------------------
(* Setting up.                                                             *)

\* create, and gen; if evhttp_new or binding fails the program goes on without
\* a server.
create ==
  /\ setup = 0 /\ setup' \in {1, Failed}
  /\ UNCHANGED <<method, running, request, reply, held, loginVars>>

\* __doStore: the signature is handed to evhttp_set_cb, which refuses a path
\* that is there already.
__doStore(p, cmd) == method' = [method EXCEPT ![p] = IF @ = Nothing THEN cmd ELSE @]

\* post and get, one after the other.
register ==
  /\ setup \in 1 .. Len(Routes) /\ setup' = setup + 1
  /\ __doStore(Routes[setup][1], Routes[setup][2])
  /\ UNCHANGED <<running, request, reply, held, loginVars>>

\* run.
run ==
  /\ setup = Len(Routes) + 1 /\ ~ running
  /\ running' = TRUE
  /\ UNCHANGED <<setup, method, request, reply, held, loginVars>>

-----------------------------------------------------------------------------
(* Serving.                                                                *)

Answer(c, r) == reply' = [reply EXCEPT ![c] = r] /\ UNCHANGED <<held, loginVars>>

\* The handler returns, and nothing was sent.
Hold(c) == held' = [held EXCEPT ![c] = TRUE] /\ UNCHANGED <<reply, loginVars>>

\* add_get_cb, sub_get_cb and the handler of /mul: the sum or the quotient, or
\* which parameter is missing.
get_cb(c) == Answer(c, IF request[c].full THEN "handled" ELSE "lacking")

\* login_post_cb returns from an empty body without an answer; another, with
\* whatever text, is copied and parsed ...
login_post_cb(c) ==
  IF request[c].full THEN busy' = c /\ (\E t \in Texts : Call(t)) /\ UNCHANGED <<reply, held>>
                     ELSE Hold(c)

\* ... and answered, whatever parse has returned.
login_reply ==
  /\ busy # Nothing /\ pc = "done"
  /\ reply' = [reply EXCEPT ![busy] = "handled"]
  /\ busy' = Nothing /\ Dispose
  /\ UNCHANGED <<setup, method, running, request, held>>

\* Slip: the method is not compared.
requestAny(c) == IF request[c].path = "/login" THEN login_post_cb(c) ELSE get_cb(c)

\* __requestHandler: the handler runs for the method it was registered with.
__requestHandler(c) ==
  IF request[c].cmd \in {"GET", "POST"} /\ request[c].cmd = method[request[c].path]
  THEN IF request[c].path = "/login" THEN login_post_cb(c) ELSE get_cb(c)
  ELSE Answer(c, "method")

\* __genHandler: default_cb.
__genHandler(c) == Answer(c, "badrequest")

\* evhttp_handle_request: the path's callback, else the general one.
handle(c) ==
  /\ running /\ busy = Nothing /\ request[c] # Nothing /\ reply[c] = Nothing /\ ~ held[c]
  /\ IF method[request[c].path] # Nothing THEN __requestHandler(c) ELSE __genHandler(c)
  /\ UNCHANGED <<setup, method, running, request>>

\* A client sends a request, after the answer to its last one.
Ask(c, r) ==
  /\ request[c] = Nothing \/ reply[c] # Nothing
  /\ request' = [request EXCEPT ![c] = r]
  /\ reply' = [reply EXCEPT ![c] = Nothing]
  /\ UNCHANGED <<setup, method, running, held, loginVars>>

\* A client closes its connection and opens another.
Reconnect(c) ==
  /\ held[c]
  /\ request' = [request EXCEPT ![c] = Nothing]
  /\ held' = [held EXCEPT ![c] = FALSE]
  /\ UNCHANGED <<setup, method, running, reply, loginVars>>

\* The thread is in parse.
Parse == ParseNext /\ UNCHANGED <<setup, method, running, request, reply, held, busy>>

HttpNext ==
  \/ create \/ register \/ run \/ Parse \/ login_reply
  \/ \E c \in Clients : handle(c) \/ Reconnect(c) \/ \E r \in Asked : Ask(c, r)

\* The program starts up, a handler goes on, and the loop serves every
\* connection in turn.
HttpFairness == /\ WF_httpVars(create \/ register \/ run \/ Parse \/ login_reply)
                /\ \A c \in Clients : SF_httpVars(handle(c))

HttpSpec == HttpInit /\ [][HttpNext]_httpVars /\ HttpFairness

-----------------------------------------------------------------------------
HttpTypeOK ==
  /\ setup \in {Failed} \cup 0 .. Len(Routes) + 1
  /\ method \in [Paths -> Methods \cup {Nothing}]
  /\ running \in BOOLEAN
  /\ request \in [Clients -> Requests \cup {Nothing}]
  /\ reply \in [Clients -> Replies \cup {Nothing}] /\ held \in [Clients -> BOOLEAN]
  /\ busy \in Clients \cup {Nothing}

\* The answer that the registrations as written give to r.
Fitting(r) ==
  IF \A i \in 1 .. Len(Routes) : Routes[i][1] # r.path THEN "badrequest"
  ELSE IF \A i \in 1 .. Len(Routes) : Routes[i] # <<r.path, r.cmd>> THEN "method"
  ELSE IF r.full THEN "handled" ELSE "lacking"

\* Who answers a request is settled by the registrations as written, from the
\* first request the loop serves on.  (Checked with the types.)
ReplyFits ==
  /\ HttpTypeOK
  /\ \A c \in Clients : reply[c] # Nothing => reply[c] = Fitting(request[c])

=============================================================================
