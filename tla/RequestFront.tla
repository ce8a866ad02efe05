---------------------------- MODULE RequestFront ----------------------------
(***************************************************************************)
(* What every HTTP request passes through before and after its handler:    *)
(* the rate limiters, the CSRF token, the shutdown check and the log of    *)
(* errors, together with the server that is asked to stop meanwhile.       *)
(*                                                                         *)
(* The middleware of core/app runs in one stretch between two awaits: the  *)
(* point that the general limiter takes, the body, the point that the      *)
(* limiter of the route takes, the handler, the answer.  A browser page    *)
(* reads its token from the cookie when it prepares a request; the browser *)
(* attaches the cookie when it sends it, and stores the one that comes     *)
(* back when the answer arrives.                                           *)
(*                                                                         *)
(* A request is handled once, by one process that runs until it exits.     *)
(* A CSRF token is named after the request whose answer carries it.        *)
(***************************************************************************)
EXTENDS FiniteSets, Naturals

CONSTANTS
    Request,      \* the requests of the run, each sent at most once
    Page,         \* browser pages: clients with a cookie jar
    Mobile,       \* clients that send x-client-type: mobile
    Calm,         \* the pages that wait for each answer before the next request
    Shared,       \* TRUE: the limiters keep their points in Redis
    Points,       \* what a limiter grants an address in one window
    None          \* no token, no client, no exit code

Client == Page \cup Mobile
Limiter == {"general", "route"}

ASSUME ClientAssumption == Page \cap Mobile = {} /\ Calm \subseteq Page
ASSUME SharedAssumption == Shared \in BOOLEAN
ASSUME PointsAssumption == Points \in [Limiter -> Nat]
ASSUME NoneAssumption == None \notin Request \cup Client \cup {0, 1}

VARIABLES
    req,          \* the local state of each request
    jar,          \* the csrf-token cookie of each page
    granted,      \* the requests that got a point of each limiter's window
    open,         \* the clients with a connection to the server
    shuttingDown, \* serverState.shuttingDown
    tasks,        \* the shutdown tasks that are not settled
    exit,         \* the exit code of the process
    log           \* what the log middleware has to do for each request

front == <<jar, granted>>
server == <<open, shuttingDown, tasks, exit>>
vars == <<req, front, server, log>>

Routes == {"healthcheck", "plain", "limited"}
Labels == {"idle", "prepared", "general", "body", "route", "handler",
           "answered", "done"}
Codes == {"none", "OK", "TOO_MANY_REQUESTS", "FORBIDDEN", "APP_SHUTTING_DOWN",
          "SERVER_ERROR"}
Tasks == {"prisma", "sockets", "http"}
Sources == {"none", "general", "body", "route", "handler"}

RequestState == [pc : Labels,
                 client : Client \cup {None},
                 unsafe : BOOLEAN,               \* POST, PUT, PATCH or DELETE
                 route : Routes,
                 header : Request \cup {None},   \* the token its page has read
                 token : {"absent", "differs", "same"},  \* header and cookie
                 late : BOOLEAN,                 \* sent after the signal
                 gone : BOOLEAN,                 \* its client has hung up
                 rotates : BOOLEAN,              \* the answer sets a new token
                 from : Sources,                 \* where its answer arose
                 code : Codes]

Fresh(label, c, unsafe, route, header) ==
    [pc |-> label, client |-> c, unsafe |-> unsafe, route |-> route,
     header |-> header, token |-> "absent", late |-> FALSE, gone |-> FALSE,
     rotates |-> FALSE, from |-> "none", code |-> "none"]

Idle == Fresh("idle", None, FALSE, "plain", None)
Finished(c) == Fresh("done", c, FALSE, "plain", None)

-----------------------------------------------------------------------------
Running == exit = None
Handled(r) == req[r].pc \in {"general", "body", "route", "handler", "answered"}
Waiting(r) == Handled(r) /\ ~req[r].gone
WaitingClients == {req[r].client : r \in {q \in Request : Waiting(q)}}

\* A calm page prepares a request when none of its others is under way.
Admitted(c) == c \in Calm =>
    \A q \in Request : req[q].client = c => req[q].pc = "done"

Goto(r, label) == req' = [req EXCEPT ![r].pc = label] /\ UNCHANGED log

\* Exit code 1: connections are reset, and what was under way is lost.
Die == /\ Running
       /\ exit' = 1
       /\ req' = [r \in Request |-> Finished(None)]
       /\ open' = {} /\ tasks' = {}
       /\ log' = [r \in Request |-> "none"]
       /\ UNCHANGED <<front, shuttingDown>>

(***************************************************************************)
(* responseFormatter or globalErrorHandler sends the answer.  The log      *)
(* middleware listens for "finish", which comes unless the client has gone *)
(* before, and sends an entry for an error (and for a slow success, which  *)
(* is left out).  The answer of a request that passed csrfProtection sets  *)
(* a new token.                                                            *)
(***************************************************************************)
\* Mutant: only what the server itself got wrong is logged.
LogsServerErrors(c) == c = "SERVER_ERROR"

Logs(c) == c # "OK"

\* A mobile client is sent no cookie.
SendAnswer(r, c, rotates) ==
    req' = [req EXCEPT ![r].pc = "answered", ![r].code = c, ![r].from = req[r].pc,
                       ![r].rotates = rotates /\ req[r].client \in Page]

LogOnFinish(r, c) ==
    log' = [log EXCEPT ![r] = IF ~req[r].gone /\ Logs(c) THEN "pending" ELSE "none"]

Respond(r, c, listens, passed) ==
    /\ SendAnswer(r, c, passed)
    /\ IF listens THEN LogOnFinish(r, c) ELSE log' = [log EXCEPT ![r] = "none"]

-----------------------------------------------------------------------------
(***************************************************************************)
(* The clients.                                                            *)
(***************************************************************************)
\* The token is in a header of the requests that are checked for it; nothing
\* but the check looks at header and cookie, and the health check is a GET.
Checked(c, unsafe) == c \in Page /\ unsafe

Prepare(r) ==
    /\ req[r].pc = "idle"
    /\ Running
    /\ \E c \in Client, unsafe \in BOOLEAN, route \in Routes :
         /\ Admitted(c)
         /\ unsafe => c \in Page /\ route # "healthcheck"
         /\ req' = [req EXCEPT ![r] =
                      Fresh("prepared", c, unsafe, route,
                            IF Checked(c, unsafe) THEN jar[c] ELSE None)]
    /\ UNCHANGED <<front, server, log>>

\* A server that has begun to close accepts no connection; one that is open
\* can still carry a request.
Send(r) ==
    LET c == req[r].client IN
    /\ req[r].pc = "prepared"
    /\ Running
    /\ ~shuttingDown \/ c \in open
    /\ req' = [req EXCEPT ![r].pc = "general", ![r].late = shuttingDown,
                          ![r].header = None,
                          ![r].token = IF req[r].header = None THEN "absent"
                                       ELSE IF req[r].header = jar[c] THEN "same"
                                       ELSE "differs"]
    /\ open' = open \cup {c}
    /\ UNCHANGED <<front, shuttingDown, tasks, exit, log>>

\* Mutant: a request that carried no token is given none.
NewTokenIfAny(r) == IF req[r].token = "absent" THEN "" ELSE r

\* generateCsrfToken: 32 random bytes, which no other answer carries.
NewToken(r) == r

\* The answer reaches its client, or is lost on the way.
Receive(r) ==
    LET stored == req[r].rotates /\ ~req[r].gone IN
    /\ req[r].pc = "answered"
    /\ Running
    /\ req' = [req EXCEPT ![r] = Finished(req[r].client)]
    /\ \/ jar' = jar
       \/ stored /\ jar' = [jar EXCEPT ![req[r].client] = NewToken(r)]
    /\ UNCHANGED <<granted, server, log>>

\* The client hangs up: its request is handled to the end all the same.
HangUp(r) ==
    /\ Waiting(r)
    /\ req[r].pc # "answered"
    /\ Running
    /\ req' = [req EXCEPT ![r].gone = TRUE]
    /\ UNCHANGED <<front, server, log>>

-----------------------------------------------------------------------------
(***************************************************************************)
(* consume counts the request and rejects once the points of the window    *)
(* are spent; what is counted beyond them changes nothing.  With Redis     *)
(* away it rejects as well (enableOfflineQueue is off), and the catch      *)
(* block of the middleware does not tell the two apart.                    *)
(***************************************************************************)
Granted(l, c) == {q \in granted[l] : req[q].client = c}

HasPoint(l, c) == Cardinality(Granted(l, c)) < Points[l]

\* The connection to Redis may be down at any call; the points that a process
\* keeps in its own memory are always there.
StoreRejects == Shared

Consume(r, l, next) ==
    LET c == req[r].client IN
    /\ Running
    /\ \/ /\ HasPoint(l, c)
          /\ Goto(r, next)
          /\ granted' = [granted EXCEPT ![l] = @ \cup {r}]
       \/ /\ ~HasPoint(l, c) \/ StoreRejects
          /\ Respond(r, "TOO_MANY_REQUESTS", l = "route", l = "route")
          /\ UNCHANGED granted
    /\ UNCHANGED <<jar, server>>

RateLimiter(r) == req[r].pc = "general" /\ Consume(r, "general", "body")

\* The limiters of login, password reset, verification and upload: one shape.
RouteRateLimiter(r) == req[r].pc = "route" /\ Consume(r, "route", "handler")

(***************************************************************************)
(* With the body parsed, everything up to the next await runs at once: the *)
(* log middleware, the health check, csrfProtection, shutdownHandler and   *)
(* the router.  A body that cannot be parsed never reaches them.           *)
(***************************************************************************)
\* Mutant: the header is compared with the token that the answer will set.
TokenMatchesNew(r) == req[r].token = "new"

TokenMatches(r) == req[r].token = "same"

CsrfRefuses(r) == Checked(req[r].client, req[r].unsafe) /\ ~TokenMatches(r)

\* Mutant: the flag is lowered again when the database is disconnected.
ShutdownHandlerForgets == "prisma" \in tasks

ShutdownHandlerRefuses == shuttingDown

Body(r) ==
    /\ req[r].pc = "body"
    /\ Running
    /\ \/ Respond(r, "SERVER_ERROR", FALSE, FALSE)
       \/ /\ req[r].route = "healthcheck"
          /\ Respond(r, "OK", TRUE, FALSE)
       \/ /\ req[r].route # "healthcheck" /\ CsrfRefuses(r)
          /\ Respond(r, "FORBIDDEN", TRUE, FALSE)
       \/ /\ req[r].route # "healthcheck" /\ ~CsrfRefuses(r) /\ ShutdownHandlerRefuses
          /\ Respond(r, "APP_SHUTTING_DOWN", TRUE, TRUE)
       \/ /\ req[r].route = "limited" /\ ~CsrfRefuses(r) /\ ~ShutdownHandlerRefuses
          /\ Goto(r, "route")
       \/ /\ req[r].route = "plain" /\ ~CsrfRefuses(r) /\ ~ShutdownHandlerRefuses
          /\ Goto(r, "handler")
    /\ UNCHANGED <<front, server>>

\* A handler takes as long as the services it calls.
Handle(r) ==
    /\ req[r].pc = "handler"
    /\ Running
    /\ \E c \in {"OK", "SERVER_ERROR"} : Respond(r, c, TRUE, TRUE)
    /\ UNCHANGED <<front, server>>

\* sendLogEvents swallows every error of CloudWatch.
SendLogEvents(r) ==
    /\ log[r] = "pending"
    /\ Running
    /\ log' = [log EXCEPT ![r] = "sent"]
    /\ UNCHANGED <<req, front, server>>

-----------------------------------------------------------------------------
\* The window of a limiter, or the block that followed it, is over.
WindowEnds(l, c) ==
    /\ Running
    /\ Granted(l, c) # {}
    /\ granted' = [granted EXCEPT ![l] = @ \ Granted(l, c)]
    /\ UNCHANGED <<req, jar, server, log>>

-----------------------------------------------------------------------------
(***************************************************************************)
(* The server.  One stretch of shutdown raises the flag, starts the three  *)
(* tasks and the timer: the socket is closed and so are idle connections.  *)
(* Socket.IO closes the same HTTP server, so its task too waits for the    *)
(* connections that are left.  A second signal returns at once.            *)
(***************************************************************************)
Shutdown ==
    /\ ~shuttingDown
    /\ Running
    /\ shuttingDown' = TRUE
    /\ tasks' = Tasks
    /\ open' = open \cap WaitingClients
    /\ UNCHANGED <<req, front, exit, log>>

\* The keep-alive timeout, or the client, closes a connection nobody waits on.
CloseConnection(c) ==
    /\ c \in open \ WaitingClients
    /\ Running
    /\ open' = open \ {c}
    /\ UNCHANGED <<req, front, shuttingDown, tasks, exit, log>>

\* Mutant: the first task to settle ends the process (Promise.race).
TaskSettlesRace(t) ==
    /\ t \in tasks
    /\ Running
    /\ t \in {"sockets", "http"} => open = {}
    /\ tasks' = tasks \ {t}
    /\ exit' = 0
    /\ UNCHANGED <<req, front, open, shuttingDown, log>>

\* Promise.all resolves with the last task, and the process exits.
TaskSettles(t) ==
    /\ t \in tasks
    /\ Running
    /\ t \in {"sockets", "http"} => open = {}
    /\ tasks' = tasks \ {t}
    /\ exit' = IF tasks' = {} THEN 0 ELSE exit
    /\ UNCHANGED <<req, front, open, shuttingDown, log>>

\* $disconnect rejects.
TaskFails == "prisma" \in tasks /\ Die

\* Mutant: the timer is armed after the tasks were awaited.
ShutdownTimesOutAfter == shuttingDown /\ tasks = {} /\ Die

\* Ten seconds after the signal.
ShutdownTimesOut == shuttingDown /\ Die

\* uncaughtException, or the process is killed.
Crash == Die

\* The process has ended, or no client has anything to send.
AtRest == /\ ~Running \/ \A r \in Request : req[r].pc = "done"
          /\ UNCHANGED vars

-----------------------------------------------------------------------------
Init == /\ req = [r \in Request |-> Idle]
        /\ jar = [c \in Page |-> None]
        /\ granted = [l \in Limiter |-> {}]
        /\ open = {}
        /\ shuttingDown = FALSE
        /\ tasks = {}
        /\ exit = None
        /\ log = [r \in Request |-> "none"]

Next == \/ \E r \in Request : \/ Prepare(r) \/ Send(r) \/ Receive(r) \/ HangUp(r)
                              \/ RateLimiter(r) \/ Body(r) \/ RouteRateLimiter(r)
                              \/ Handle(r) \/ SendLogEvents(r)
        \/ \E l \in Limiter, c \in Client : WindowEnds(l, c)
        \/ Shutdown \/ ShutdownTimesOut \/ TaskFails \/ Crash
        \/ \E c \in Client : CloseConnection(c)
        \/ \E t \in Tasks : TaskSettles(t)
        \/ AtRest

Spec == Init /\ [][Next]_vars

(***************************************************************************)
(* The timer fires, and the calls to CloudWatch settle: its client retries *)
(* a bounded number of times.  Nothing makes a handler end, a client send, *)
(* or a signal come.                                                       *)
(***************************************************************************)
FairSpec == /\ Spec
            /\ WF_vars(ShutdownTimesOut)
            /\ \A r \in Request : WF_vars(SendLogEvents(r))

-----------------------------------------------------------------------------
TypeOK == /\ req \in [Request -> RequestState]
          /\ jar \in [Page -> Request \cup {None}]
          /\ granted \in [Limiter -> SUBSET Request]
          /\ open \subseteq Client
          /\ shuttingDown \in BOOLEAN
          /\ tasks \subseteq Tasks
          /\ exit \in {None, 0, 1}
          /\ log \in [Request -> {"none", "pending", "sent"}]

(***************************************************************************)
(* A process that reports a clean shutdown has cut nobody off: whoever was *)
(* waiting for an answer when the signal came, or sent a request on a      *)
(* connection that was still open, has received one.                       *)
(***************************************************************************)
GracefulExit == exit = 0 => \A r \in Request : ~Waiting(r)

(***************************************************************************)
(* What a client sends after the signal does not start any work: while the *)
(* database is being disconnected no handler begins a request that came    *)
(* later, and none of its points is spent on a limited route.              *)
(***************************************************************************)
LateRequestsRefused ==
    \A r \in Request : req[r].late =>
        /\ req[r].pc \notin {"route", "handler"}
        /\ req[r].code = "OK" => req[r].route = "healthcheck"

(***************************************************************************)
(* The token rotates with every answer it is checked for, and with no      *)
(* other.  A page that has a token and waits for each answer before it     *)
(* prepares the next request is never refused for its token, whichever of  *)
(* its requests were limited, malformed, refused or lost before.           *)
(***************************************************************************)
CalmPageServed ==
    \A r \in Request : (req[r].client \in Calm /\ req[r].token # "absent")
                          => req[r].code # "FORBIDDEN"

(***************************************************************************)
(* A signal ends the process, even when a handler never returns or a       *)
(* client keeps its connection busy.                                       *)
(***************************************************************************)
ShutdownEnds == shuttingDown ~> ~Running

(***************************************************************************)
(* An error that a page or a mobile client is told while it still listens  *)
(* is offered to CloudWatch, unless the process ends first: the refusals   *)
(* of csrfProtection and shutdownHandler, those of the limiter of a route, *)
(* and what a handler answers.  The general limiter and a body that cannot *)
(* be parsed come before the log middleware.                               *)
(***************************************************************************)
ErrorsAreLogged ==
    \A r \in Request :
      ( /\ \/ req[r].code \in {"FORBIDDEN", "APP_SHUTTING_DOWN"}
           \/ req[r].from \in {"route", "handler"} /\ req[r].code # "OK"
        /\ ~req[r].gone )
        ~> (log[r] = "sent" \/ ~Running)

-----------------------------------------------------------------------------
(***************************************************************************)
(* What induction needs beside these properties.                           *)
(***************************************************************************)
\* Somebody who waits has a connection, and the HTTP server is not closed
\* before the last connection is.
ConnectionsHeld ==
    /\ \A r \in Request : Waiting(r) => req[r].client \in open
    /\ tasks # {} => shuttingDown
    /\ (shuttingDown /\ Running /\ "http" \notin tasks) => open = {}

\* Late is what comes after the signal.
LateAfterSignal == \A r \in Request : req[r].late => shuttingDown

\* A calm page has one request under way, prepared with the cookie it has.
CalmOneAtATime ==
    /\ \A q, r \in Request :
         ( /\ req[q].client = req[r].client /\ req[r].client \in Calm
           /\ req[q].pc # "done" /\ req[r].pc # "done" ) => q = r
    /\ \A r \in Request :
         (req[r].client \in Calm /\ req[r].pc = "prepared" /\ req[r].header # None)
           => req[r].header = jar[req[r].client]
    /\ \A r \in Request : req[r].client \in Calm => req[r].token # "differs"
    /\ \A r \in Request :
         /\ req[r].pc = "idle" => req[r] = Idle
         /\ req[r].client = None => req[r].pc \in {"idle", "done"}

\* A request that is prepared has been answered nothing.
PreparedShape == \A r \in Request : req[r].pc = "prepared" => req[r].code = "none"

IInv == /\ TypeOK /\ ConnectionsHeld /\ LateAfterSignal /\ CalmOneAtATime
        /\ PreparedShape
        /\ GracefulExit /\ LateRequestsRefused /\ CalmPageServed
=============================================================================
