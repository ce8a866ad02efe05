------------------------ MODULE RequestFront_proofs ------------------------
(***************************************************************************)
(* What TLAPS proves of RequestFront, for any number of requests and       *)
(* clients, any points, and limiters in Redis or in memory.                *)
(***************************************************************************)
EXTENDS RequestFront, TLAPS

USE NoneAssumption, ClientAssumption

LEMMA ReqType == IInv => req \in [Request -> RequestState]
  BY DEF IInv, TypeOK

\* Running tells the exit code.
LEMMA ExitCode == IInv /\ Running => exit = None /\ exit # 0
  BY DEF Running

-----------------------------------------------------------------------------
(***************************************************************************)
(* What each kind of step does to the record of its request.               *)
(***************************************************************************)
\* The fields that handling a request does not touch.
SameOrigin(r) == /\ req'[r].client = req[r].client
                 /\ req'[r].unsafe = req[r].unsafe
                 /\ req'[r].route = req[r].route
                 /\ req'[r].token = req[r].token
                 /\ req'[r].late = req[r].late
                 /\ req'[r].header = req[r].header

Others(r) == \A q \in Request \ {r} : req'[q] = req[q]

\* The type of req follows from that of the one record that changes.
LEMMA OneChange ==
  ASSUME IInv, NEW r \in Request, NEW s \in RequestState,
         req'[r] = s, Others(r), req' = [q \in Request |-> req'[q]]
  PROVE  req' \in [Request -> RequestState]
  BY ReqType DEF Others

LEMMA GotoEffect ==
  ASSUME IInv, NEW r \in Request, NEW l \in Labels, Goto(r, l)
  PROVE  /\ req' \in [Request -> RequestState]
         /\ Others(r) /\ SameOrigin(r)
         /\ req'[r].pc = l /\ req'[r].code = req[r].code
         /\ req'[r].gone = req[r].gone
         /\ log' = log
  BY ReqType DEF Goto, RequestState, Others, SameOrigin

LEMMA RespondEffect ==
  ASSUME IInv, NEW r \in Request, NEW c \in Codes, NEW listens \in BOOLEAN,
         req[r].pc \in Sources, NEW passed \in BOOLEAN, Respond(r, c, listens, passed)
  PROVE  /\ req' \in [Request -> RequestState]
         /\ Others(r) /\ SameOrigin(r)
         /\ req'[r].pc = "answered" /\ req'[r].code = c
         /\ req'[r].gone = req[r].gone
         /\ log' \in [Request -> {"none", "pending", "sent"}]
  <1> DEFINE s == [pc |-> "answered", client |-> req[r].client,
                   unsafe |-> req[r].unsafe, route |-> req[r].route,
                   header |-> req[r].header, token |-> req[r].token,
                   late |-> req[r].late, gone |-> req[r].gone,
                   rotates |-> (passed /\ req[r].client \in Page),
                   from |-> req[r].pc, code |-> c]
  <1>1. s \in RequestState
    BY ReqType DEF RequestState, Labels, Sources
  <1>2. req'[r] = s
    <2>1. PICK y \in RequestState : y = req[r]
      BY ReqType
    <2>2. req'[r] = [y EXCEPT !.pc = "answered", !.code = c, !.from = y.pc,
                              !.rotates = passed /\ req[r].client \in Page]
      BY <2>1, ReqType DEF Respond, SendAnswer
    <2>3. y = [pc |-> y.pc, client |-> y.client, unsafe |-> y.unsafe,
               route |-> y.route, header |-> y.header, token |-> y.token,
               late |-> y.late, gone |-> y.gone, rotates |-> y.rotates,
               from |-> y.from, code |-> y.code]
      BY DEF RequestState
    <2> HIDE DEF RequestState
    <2> QED BY <2>1, <2>2, <2>3
  <1>3. /\ req' \in [Request -> RequestState]
        /\ req'[r] = s
        /\ Others(r)
    <2>1. Others(r) /\ req' = [q \in Request |-> req'[q]]
      BY ReqType DEF Respond, SendAnswer, Others
    <2> HIDE DEF s
    <2> QED BY <1>1, <1>2, <2>1, OneChange
  <1>4. log' \in [Request -> {"none", "pending", "sent"}]
    BY DEF Respond, LogOnFinish, IInv, TypeOK
  <1> QED BY <1>3, <1>4 DEF SameOrigin

\* A request is prepared from nothing; a calm page has no other.
LEMMA PrepareEffect ==
  ASSUME IInv, NEW r \in Request, Prepare(r)
  PROVE  /\ req' \in [Request -> RequestState]
         /\ Others(r)
         /\ req[r].pc = "idle" /\ req'[r].pc = "prepared"
         /\ req'[r].client \in Client
         /\ Admitted(req'[r].client)
         /\ req'[r].header # None => req'[r].header = jar[req'[r].client]
         /\ req'[r].token = "absent" /\ ~req'[r].late
         /\ req'[r].code = "none"
  <1>1. PICK c \in Client, unsafe \in BOOLEAN, route \in Routes :
          /\ Admitted(c)
          /\ req' = [req EXCEPT ![r] =
                       Fresh("prepared", c, unsafe, route,
                             IF Checked(c, unsafe) THEN jar[c] ELSE None)]
    BY DEF Prepare
  <1>2. PICK h \in Request \cup {None} :
          h = IF Checked(c, unsafe) THEN jar[c] ELSE None
    BY DEF Checked, IInv, TypeOK
  <1> DEFINE s == [pc |-> "prepared", client |-> c, unsafe |-> unsafe,
                   route |-> route, header |-> h, token |-> "absent",
                   late |-> FALSE, gone |-> FALSE, rotates |-> FALSE,
                   from |-> "none", code |-> "none"]
  <1>3. s \in RequestState
    BY DEF RequestState, Labels, Codes, Sources
  <1>4. Fresh("prepared", c, unsafe, route,
              IF Checked(c, unsafe) THEN jar[c] ELSE None) = s
    BY <1>2 DEF Fresh
  <1>5. /\ req' \in [Request -> RequestState]
        /\ req'[r] = s
        /\ Others(r)
    <2> HIDE DEF s
    <2> QED BY <1>1, <1>2, <1>3, <1>4, ReqType DEF Others
  <1>6. req[r].pc = "idle"
    BY DEF Prepare
  <1>7. /\ req'[r].pc = "prepared" /\ req'[r].client = c /\ req'[r].header = h
        /\ req'[r].token = "absent" /\ req'[r].late = FALSE
        /\ req'[r].code = "none"
    BY <1>5
  <1> HIDE DEF s
  <1> QED BY <1>1, <1>2, <1>5, <1>6, <1>7 DEF Admitted

LEMMA SendEffect ==
  ASSUME IInv, NEW r \in Request, Send(r)
  PROVE  /\ req' \in [Request -> RequestState]
         /\ Others(r)
         /\ req'[r].pc = "general"
         /\ req'[r].client = req[r].client /\ req'[r].code = req[r].code
         /\ req'[r].header = None
         /\ req'[r].token = "differs" =>
              /\ req[r].header # None
              /\ req[r].header # jar[req[r].client]
         /\ req'[r].late = shuttingDown
  <1>1. PICK t \in {"absent", "differs", "same"} :
          t = IF req[r].header = None THEN "absent"
              ELSE IF req[r].header = jar[req[r].client] THEN "same" ELSE "differs"
    OBVIOUS
  <1> DEFINE s == [pc |-> "general", client |-> req[r].client,
                   unsafe |-> req[r].unsafe, route |-> req[r].route,
                   header |-> None, token |-> t,
                   late |-> shuttingDown, gone |-> req[r].gone,
                   rotates |-> req[r].rotates, from |-> req[r].from,
                   code |-> req[r].code]
  <1>2. s \in RequestState
    BY ReqType DEF RequestState, Labels, IInv, TypeOK
  <1>3. req'[r] = s
    <2>1. PICK y \in RequestState : y = req[r]
      BY ReqType
    <2>2. req'[r] = [y EXCEPT !.pc = "general", !.late = shuttingDown,
                              !.header = None, !.token = t]
      BY <1>1, <2>1, ReqType DEF Send
    <2>3. y = [pc |-> y.pc, client |-> y.client, unsafe |-> y.unsafe,
               route |-> y.route, header |-> y.header, token |-> y.token,
               late |-> y.late, gone |-> y.gone, rotates |-> y.rotates,
               from |-> y.from, code |-> y.code]
      BY DEF RequestState
    <2> HIDE DEF RequestState
    <2> QED BY <2>1, <2>2, <2>3
  <1>4. /\ req' \in [Request -> RequestState]
        /\ req'[r] = s
        /\ Others(r)
    <2>1. Others(r) /\ req' = [q \in Request |-> req'[q]]
      BY ReqType DEF Send, Others
    <2> HIDE DEF s
    <2> QED BY <1>2, <1>3, <2>1, OneChange
  <1> QED BY <1>1, <1>4

LEMMA ReceiveEffect ==
  ASSUME IInv, NEW r \in Request, Receive(r)
  PROVE  /\ req' \in [Request -> RequestState]
         /\ Others(r)
         /\ req'[r].pc = "done" /\ req'[r].client = req[r].client
         /\ req'[r].token = "absent" /\ ~req'[r].late
         /\ req'[r].code = "none"
  <1> DEFINE s == [pc |-> "done", client |-> req[r].client, unsafe |-> FALSE,
                   route |-> "plain", header |-> None, token |-> "absent",
                   late |-> FALSE, gone |-> FALSE, rotates |-> FALSE,
                   from |-> "none", code |-> "none"]
  <1>1. s \in RequestState
    BY ReqType DEF RequestState, Labels, Codes, Routes, Sources
  <1>2. Finished(req[r].client) = s
    BY DEF Finished, Fresh
  <1>3. /\ req' \in [Request -> RequestState]
        /\ req'[r] = s
        /\ Others(r)
    <2>1. req' = [req EXCEPT ![r] = s]
      <3> HIDE DEF s
      <3> QED BY <1>2 DEF Receive
    <2> HIDE DEF s
    <2>2. req'[r] = s
      BY <2>1, ReqType
    <2>3. Others(r) /\ req' = [q \in Request |-> req'[q]]
      BY <2>1, ReqType DEF Others
    <2> QED BY <1>1, <2>2, <2>3, OneChange
  <1> QED BY <1>3

LEMMA HangUpEffect ==
  ASSUME IInv, NEW r \in Request, HangUp(r)
  PROVE  /\ req' \in [Request -> RequestState]
         /\ Others(r) /\ SameOrigin(r)
         /\ req'[r].pc = req[r].pc /\ req'[r].code = req[r].code
         /\ req'[r].gone
  <1>1. PICK y \in RequestState : y = req[r]
    BY ReqType
  <1>2. req'[r] = [y EXCEPT !.gone = TRUE]
    BY <1>1, ReqType DEF HangUp
  <1>3. [y EXCEPT !.gone = TRUE] \in RequestState
    BY <1>1 DEF RequestState
  <1>4. Others(r) /\ req' = [q \in Request |-> req'[q]]
    BY ReqType DEF HangUp, Others
  <1>5. req' \in [Request -> RequestState]
    BY <1>2, <1>3, <1>4, OneChange
  <1>6. /\ SameOrigin(r)
        /\ req'[r].pc = req[r].pc /\ req'[r].code = req[r].code
        /\ req'[r].gone
    BY <1>1, <1>2 DEF RequestState, SameOrigin
  <1> QED BY <1>4, <1>5, <1>6

LEMMA DieEffect ==
  ASSUME IInv, Die
  PROVE  /\ req' \in [Request -> RequestState]
         /\ \A r \in Request : req'[r] = Finished(None)
         /\ \A r \in Request : /\ req'[r].pc = "done" /\ req'[r].client = None
                               /\ req'[r].code = "none" /\ ~req'[r].late
                               /\ req'[r].token = "absent"
  <1>1. Finished(None) \in RequestState
    BY DEF Finished, Fresh, RequestState, Labels, Codes, Routes, Sources
  <1>2. /\ req' \in [Request -> RequestState]
        /\ \A r \in Request : req'[r] = Finished(None)
    BY <1>1 DEF Die
  <1> QED BY <1>2 DEF Finished, Fresh

-----------------------------------------------------------------------------
(***************************************************************************)
(* A step of the middleware, or of a handler.                              *)
(***************************************************************************)
Handling(r) == RateLimiter(r) \/ RouteRateLimiter(r) \/ Body(r) \/ Handle(r)

\* What it may do to its request, whatever the step is.
Handled1(r) ==
  /\ req' \in [Request -> RequestState]
  /\ Others(r) /\ SameOrigin(r)
  /\ req'[r].gone = req[r].gone
  /\ req[r].pc \in {"general", "body", "route", "handler"}
  /\ req'[r].pc \in {"body", "route", "handler", "answered"}
  /\ req'[r].pc \in {"route", "handler"} => req[r].pc = "route" \/ ~shuttingDown
  /\ req'[r].code = "OK" =>
       req[r].code = "OK" \/ req[r].pc = "handler" \/ req[r].route = "healthcheck"
  /\ req'[r].code = "FORBIDDEN" => req[r].code = "FORBIDDEN" \/ req[r].token # "same"
  /\ log' \in [Request -> {"none", "pending", "sent"}]

LEMMA ConsumeEffect ==
  ASSUME IInv, NEW r \in Request, NEW l \in Limiter, NEW next \in {"body", "handler"},
         Consume(r, l, next),
         /\ l = "general" => req[r].pc = "general" /\ next = "body"
         /\ l = "route" => req[r].pc = "route"
  PROVE  Handled1(r)
  <1> USE DEF Labels, Codes, IInv, TypeOK
  <1>1. CASE Goto(r, next)
    BY <1>1, GotoEffect DEF Handled1, Limiter, SameOrigin
  <1>2. CASE Respond(r, "TOO_MANY_REQUESTS", l = "route", l = "route")
    <2>1. PICK b \in BOOLEAN : b = (l = "route")
      BY Zenon
    <2>2. Respond(r, "TOO_MANY_REQUESTS", b, b)
      BY <1>2, <2>1
    <2>3. req[r].pc \in Sources
      BY DEF Limiter, Sources
    <2> QED BY <2>2, <2>3, RespondEffect DEF Handled1, Limiter, SameOrigin
  <1> QED BY <1>1, <1>2 DEF Consume

LEMMA BodyEffect ==
  ASSUME IInv, NEW r \in Request, Body(r)
  PROVE  Handled1(r)
  <1> USE DEF Labels, Codes, Sources
  <1>2. log \in [Request -> {"none", "pending", "sent"}]
    BY DEF IInv, TypeOK
  <1>3. CASE Respond(r, "SERVER_ERROR", FALSE, FALSE)
    BY <1>3, RespondEffect DEF Handled1, SameOrigin, Body
  <1>4. CASE req[r].route = "healthcheck" /\ Respond(r, "OK", TRUE, FALSE)
    BY <1>4, RespondEffect DEF Handled1, SameOrigin, Body
  <1>5. CASE CsrfRefuses(r) /\ Respond(r, "FORBIDDEN", TRUE, FALSE)
    BY <1>5, RespondEffect DEF Handled1, SameOrigin, Body, CsrfRefuses, TokenMatches
  <1>6. CASE Respond(r, "APP_SHUTTING_DOWN", TRUE, TRUE)
    BY <1>6, RespondEffect DEF Handled1, SameOrigin, Body
  <1>7. CASE ~ShutdownHandlerRefuses /\ Goto(r, "route")
    BY <1>2, <1>7, GotoEffect DEF Handled1, SameOrigin, Body, ShutdownHandlerRefuses
  <1>8. CASE ~ShutdownHandlerRefuses /\ Goto(r, "handler")
    BY <1>2, <1>8, GotoEffect DEF Handled1, SameOrigin, Body, ShutdownHandlerRefuses
  <1> QED BY <1>3, <1>4, <1>5, <1>6, <1>7, <1>8 DEF Body

LEMMA HandleEffect ==
  ASSUME IInv, NEW r \in Request, Handle(r)
  PROVE  Handled1(r)
  <1>1. PICK c \in {"OK", "SERVER_ERROR"} : Respond(r, c, TRUE, TRUE)
    BY DEF Handle
  <1> QED BY <1>1, RespondEffect DEF Handled1, SameOrigin, Handle, Codes, Sources

LEMMA HandlingEffect ==
  ASSUME IInv, NEW r \in Request, Handling(r)
  PROVE  Handled1(r) /\ UNCHANGED <<jar, server>>
  <1>1. CASE RateLimiter(r)
    BY <1>1, ConsumeEffect DEF RateLimiter, Consume, Limiter
  <1>2. CASE RouteRateLimiter(r)
    BY <1>2, ConsumeEffect DEF RouteRateLimiter, Consume, Limiter
  <1>3. CASE Body(r)
    BY <1>3, BodyEffect DEF Body, front
  <1>4. CASE Handle(r)
    BY <1>4, HandleEffect DEF Handle, front
  <1> QED BY <1>1, <1>2, <1>3, <1>4 DEF Handling

LEMMA HandlingRuns ==
  ASSUME NEW r \in Request, Handling(r) PROVE Running
  BY DEF Handling, RateLimiter, RouteRateLimiter, Consume, Body, Handle

-----------------------------------------------------------------------------
\* The steps of Next, in the groups the proofs below go by.
LEMMA StepCases ==
  ASSUME [Next]_vars
  PROVE  \/ \E r \in Request : Prepare(r) \/ Send(r) \/ Receive(r) \/ HangUp(r)
                                \/ Handling(r) \/ SendLogEvents(r)
         \/ \E l \in Limiter, c \in Client : WindowEnds(l, c)
         \/ Shutdown \/ Die
         \/ \E c \in Client : CloseConnection(c)
         \/ \E t \in Tasks : TaskSettles(t)
         \/ UNCHANGED vars
  BY DEF Next, Handling, ShutdownTimesOut, TaskFails, Crash, AtRest

THEOREM InitIInv == Init => IInv
  <1> SUFFICES ASSUME Init PROVE IInv
    OBVIOUS
  <1>1. \A r \in Request :
          /\ req[r] = Idle
          /\ req[r].pc = "idle" /\ req[r].client = None /\ req[r].token = "absent"
          /\ req[r].late = FALSE /\ req[r].code = "none"
    BY DEF Init, Idle, Fresh
  <1>2. Idle \in RequestState
    BY DEF Idle, Fresh, RequestState, Labels, Codes, Routes, Sources
  <1>3. TypeOK
    BY <1>2 DEF Init, TypeOK, Tasks
  <1>4. ConnectionsHeld /\ LateAfterSignal /\ PreparedShape
    BY <1>1 DEF Init, ConnectionsHeld, LateAfterSignal, PreparedShape, Waiting, Handled
  <1>5. None \notin Calm
    BY DEF Client
  <1>6. CalmOneAtATime
    BY <1>1, <1>5 DEF CalmOneAtATime
  <1>7. GracefulExit /\ LateRequestsRefused /\ CalmPageServed
    BY <1>1, <1>5 DEF Init, GracefulExit, LateRequestsRefused, CalmPageServed,
       Waiting, Handled
  <1> QED BY <1>3, <1>4, <1>6, <1>7 DEF IInv

LEMMA TypeStep ==
  ASSUME IInv, [Next]_vars
  PROVE  TypeOK'
  <1> USE DEF TypeOK, IInv, front, server
  <1>1. ASSUME NEW r \in Request, Prepare(r) PROVE TypeOK'
    BY <1>1, PrepareEffect DEF Prepare
  <1>2. ASSUME NEW r \in Request, Send(r) PROVE TypeOK'
    <2>1. req[r].client \in Client
      BY <1>2, ReqType DEF Send, CalmOneAtATime, RequestState
    <2> QED BY <1>2, <2>1, SendEffect DEF Send
  <1>3. ASSUME NEW r \in Request, Receive(r) PROVE TypeOK'
    <2>1. jar' \in [Page -> Request \cup {None}]
      BY <1>3 DEF Receive, NewToken
    <2> QED BY <1>3, <2>1, ReceiveEffect DEF Receive, NewToken
  <1>4. ASSUME NEW r \in Request, HangUp(r) PROVE TypeOK'
    BY <1>4, HangUpEffect DEF HangUp
  <1>5. ASSUME NEW r \in Request, Handling(r) PROVE TypeOK'
    <2>1. /\ req' \in [Request -> RequestState]
          /\ log' \in [Request -> {"none", "pending", "sent"}]
          /\ UNCHANGED <<jar, server>>
      BY <1>5, HandlingEffect DEF Handled1
    <2>2. granted' \in [Limiter -> SUBSET Request]
      <3>1. \/ granted' = granted
            \/ \E l \in Limiter : granted' = [granted EXCEPT ![l] = @ \cup {r}]
        BY <1>5, Zenon DEF Handling, RateLimiter, RouteRateLimiter, Consume, Body,
           Handle, Limiter
      <3> QED BY <3>1
    <2> QED BY <2>1, <2>2
  <1>6. ASSUME NEW r \in Request, SendLogEvents(r) PROVE TypeOK'
    BY <1>6 DEF SendLogEvents
  <1>7. ASSUME NEW l \in Limiter, NEW c \in Client, WindowEnds(l, c) PROVE TypeOK'
    BY <1>7 DEF WindowEnds
  <1>8. ASSUME Shutdown PROVE TypeOK'
    BY <1>8 DEF Shutdown
  <1>9. ASSUME Die PROVE TypeOK'
    BY <1>9, DieEffect DEF Die
  <1>10. ASSUME NEW c \in Client, CloseConnection(c) PROVE TypeOK'
    BY <1>10 DEF CloseConnection
  <1>11. ASSUME NEW t \in Tasks, TaskSettles(t) PROVE TypeOK'
    BY <1>11 DEF TaskSettles
  <1>12. ASSUME UNCHANGED vars PROVE TypeOK'
    BY <1>12 DEF vars
  <1> QED BY <1>1, <1>2, <1>3, <1>4, <1>5, <1>6, <1>7, <1>8, <1>9, <1>10, <1>11,
             <1>12, StepCases

\* Steps of one request that neither open nor close a connection.
LEMMA ConnectionsKept ==
  ASSUME IInv, NEW r \in Request, Others(r), UNCHANGED server,
         Waiting(r)' => Waiting(r) /\ req'[r].client = req[r].client
  PROVE  ConnectionsHeld'
  BY DEF IInv, ConnectionsHeld, Others, Waiting, Handled, Running, server

LEMMA ConnectionsStep ==
  ASSUME IInv, [Next]_vars
  PROVE  ConnectionsHeld'
  <1>1. ASSUME NEW r \in Request, Prepare(r) PROVE ConnectionsHeld'
    BY <1>1, PrepareEffect, ConnectionsKept DEF Prepare, Waiting, Handled
  <1>2. ASSUME NEW r \in Request, Send(r) PROVE ConnectionsHeld'
    <2>0. open' = open \cup {req[r].client}
      BY <1>2 DEF Send
    <2>1. ASSUME NEW q \in Request, Waiting(q)' PROVE req'[q].client \in open'
      <3>1. CASE q = r
        BY <1>2, <2>0, <3>1, SendEffect
      <3>2. CASE q # r
        BY <1>2, <2>0, <2>1, <3>2, SendEffect
           DEF IInv, ConnectionsHeld, Others, Waiting, Handled
      <3> QED BY <3>1, <3>2
    <2>2. (shuttingDown' /\ Running' /\ "http" \notin tasks') => open' = {}
      BY <1>2 DEF Send, IInv, ConnectionsHeld, Running
    <2>3. tasks' # {} => shuttingDown'
      BY <1>2 DEF Send, IInv, ConnectionsHeld
    <2> QED BY <2>1, <2>2, <2>3 DEF ConnectionsHeld
  <1>3. ASSUME NEW r \in Request, Receive(r) PROVE ConnectionsHeld'
    BY <1>3, ReceiveEffect, ConnectionsKept DEF Receive, Waiting, Handled
  <1>4. ASSUME NEW r \in Request, HangUp(r) PROVE ConnectionsHeld'
    BY <1>4, HangUpEffect, ConnectionsKept DEF HangUp, Waiting, Handled
  <1>5. ASSUME NEW r \in Request, Handling(r) PROVE ConnectionsHeld'
    BY <1>5, HandlingEffect, ConnectionsKept
       DEF Handled1, SameOrigin, Waiting, Handled
  <1>6. ASSUME NEW r \in Request, SendLogEvents(r) PROVE ConnectionsHeld'
    BY <1>6, ConnectionsKept DEF SendLogEvents, Waiting, Handled, Others
  <1>7. ASSUME NEW l \in Limiter, NEW c \in Client, WindowEnds(l, c)
        PROVE  ConnectionsHeld'
    BY <1>7 DEF WindowEnds, IInv, ConnectionsHeld, Waiting, Handled, Running, server
  <1>8. ASSUME Shutdown PROVE ConnectionsHeld'
    BY <1>8 DEF Shutdown, IInv, ConnectionsHeld, Waiting, Handled, Running, Tasks,
       WaitingClients
  <1>9. ASSUME Die PROVE ConnectionsHeld'
    BY <1>9, DieEffect DEF Die, ConnectionsHeld, Waiting, Handled
  <1>10. ASSUME NEW c \in Client, CloseConnection(c) PROVE ConnectionsHeld'
    BY <1>10 DEF CloseConnection, IInv, ConnectionsHeld, Waiting, Handled, Running,
       WaitingClients
  <1>11. ASSUME NEW t \in Tasks, TaskSettles(t) PROVE ConnectionsHeld'
    BY <1>11 DEF TaskSettles, IInv, ConnectionsHeld, Waiting, Handled, Running
  <1>12. ASSUME UNCHANGED vars PROVE ConnectionsHeld'
    BY <1>12 DEF vars, IInv, ConnectionsHeld, Waiting, Handled, Running, server
  <1> QED BY <1>1, <1>2, <1>3, <1>4, <1>5, <1>6, <1>7, <1>8, <1>9, <1>10, <1>11,
             <1>12, StepCases

LEMMA GracefulStep ==
  ASSUME IInv, [Next]_vars
  PROVE  GracefulExit'
  <1>1. CASE \E t \in Tasks : TaskSettles(t)
    <2>1. PICK t \in Tasks : TaskSettles(t)
      BY <1>1
    <2>2. CASE tasks' = {}
      <3>1. open = {}
        BY <2>1, <2>2 DEF TaskSettles, Tasks, IInv, ConnectionsHeld
      <3> QED BY <2>1, <3>1 DEF TaskSettles, GracefulExit, IInv, ConnectionsHeld,
             Waiting, Handled
    <2>3. CASE tasks' # {}
      BY <2>1, <2>3 DEF TaskSettles, GracefulExit, Running
    <2> QED BY <2>2, <2>3
  <1>2. CASE UNCHANGED vars
    BY <1>2 DEF vars, IInv, GracefulExit, Waiting, Handled, server
  <1>3. CASE exit' # 0
    BY <1>3 DEF GracefulExit
  <1>4. ASSUME Running, exit' = exit PROVE exit' # 0
    BY <1>4, ExitCode
  <1>5. ASSUME NEW r \in Request, Prepare(r) PROVE exit' # 0
    BY <1>4, <1>5 DEF Prepare, server
  <1>6. ASSUME NEW r \in Request, Send(r) PROVE exit' # 0
    BY <1>4, <1>6 DEF Send
  <1>7. ASSUME NEW r \in Request, Receive(r) PROVE exit' # 0
    BY <1>4, <1>7 DEF Receive, server
  <1>8. ASSUME NEW r \in Request, HangUp(r) PROVE exit' # 0
    BY <1>4, <1>8 DEF HangUp, server
  <1>9. ASSUME NEW r \in Request, Handling(r) PROVE exit' # 0
    BY <1>4, <1>9, HandlingEffect, HandlingRuns DEF server
  <1>10. ASSUME NEW r \in Request, SendLogEvents(r) PROVE exit' # 0
    BY <1>4, <1>10 DEF SendLogEvents, server
  <1>11. ASSUME NEW l \in Limiter, NEW c \in Client, WindowEnds(l, c) PROVE exit' # 0
    BY <1>4, <1>11 DEF WindowEnds, server
  <1>12. ASSUME Shutdown PROVE exit' # 0
    BY <1>4, <1>12 DEF Shutdown
  <1>13. ASSUME Die PROVE exit' # 0
    BY <1>13 DEF Die
  <1>14. ASSUME NEW c \in Client, CloseConnection(c) PROVE exit' # 0
    BY <1>4, <1>14 DEF CloseConnection
  <1> QED BY <1>1, <1>2, <1>3, <1>5, <1>6, <1>7, <1>8, <1>9, <1>10, <1>11, <1>12,
             <1>13, <1>14, StepCases

\* Late requests: a step of the middleware starts no work for one.
LEMMA LateStep ==
  ASSUME IInv, [Next]_vars
  PROVE  LateAfterSignal' /\ LateRequestsRefused'
  <1> USE DEF LateAfterSignal, LateRequestsRefused
  <1>0. LateAfterSignal /\ LateRequestsRefused
    BY DEF IInv
  <1>1. ASSUME NEW r \in Request, Prepare(r)
        PROVE  LateAfterSignal' /\ LateRequestsRefused'
    <2>1. shuttingDown' = shuttingDown
      BY <1>1 DEF Prepare, server
    <2>2. /\ \A q \in Request \ {r} : req'[q] = req[q]
          /\ req'[r].pc = "prepared" /\ ~req'[r].late
      BY <1>1, PrepareEffect DEF Others
    <2> QED BY <1>0, <2>1, <2>2
  <1>2. ASSUME NEW r \in Request, Send(r)
        PROVE  LateAfterSignal' /\ LateRequestsRefused'
    <2>1. req[r].code = "none"
      BY <1>2 DEF Send, IInv, PreparedShape
    <2>2. shuttingDown' = shuttingDown
      BY <1>2 DEF Send
    <2>3. /\ \A q \in Request \ {r} : req'[q] = req[q]
          /\ req'[r].pc = "general" /\ req'[r].code = "none"
          /\ req'[r].late = shuttingDown
      BY <1>2, <2>1, SendEffect DEF Others
    <2> QED BY <1>0, <2>2, <2>3
  <1>3. ASSUME NEW r \in Request, Receive(r)
        PROVE  LateAfterSignal' /\ LateRequestsRefused'
    BY <1>0, <1>3, ReceiveEffect DEF Receive, NewToken, Others, server
  <1>4. ASSUME NEW r \in Request, HangUp(r)
        PROVE  LateAfterSignal' /\ LateRequestsRefused'
    BY <1>0, <1>4, HangUpEffect DEF HangUp, Others, SameOrigin, server
  <1>5. ASSUME NEW r \in Request, Handling(r)
        PROVE  LateAfterSignal' /\ LateRequestsRefused'
    BY <1>0, <1>5, HandlingEffect DEF Handled1, Others, SameOrigin, server
  <1>6. ASSUME NEW r \in Request, SendLogEvents(r)
        PROVE  LateAfterSignal' /\ LateRequestsRefused'
    BY <1>0, <1>6 DEF SendLogEvents, server
  <1>7. ASSUME NEW l \in Limiter, NEW c \in Client, WindowEnds(l, c)
        PROVE  LateAfterSignal' /\ LateRequestsRefused'
    BY <1>0, <1>7 DEF WindowEnds, server
  <1>8. ASSUME Shutdown PROVE LateAfterSignal' /\ LateRequestsRefused'
    BY <1>0, <1>8 DEF Shutdown
  <1>9. ASSUME Die PROVE LateAfterSignal' /\ LateRequestsRefused'
    BY <1>9, DieEffect
  <1>10. ASSUME NEW c \in Client, CloseConnection(c)
         PROVE  LateAfterSignal' /\ LateRequestsRefused'
    BY <1>0, <1>10 DEF CloseConnection
  <1>11. ASSUME NEW t \in Tasks, TaskSettles(t)
         PROVE  LateAfterSignal' /\ LateRequestsRefused'
    BY <1>0, <1>11 DEF TaskSettles
  <1>12. ASSUME UNCHANGED vars PROVE LateAfterSignal' /\ LateRequestsRefused'
    BY <1>0, <1>12 DEF vars, server
  <1> QED BY <1>1, <1>2, <1>3, <1>4, <1>5, <1>6, <1>7, <1>8, <1>9, <1>10, <1>11,
             <1>12, StepCases

\* Steps that leave the requests of a calm page where they are, but for one
\* that goes on: what is kept, whatever else the step does.
LEMMA CalmKept ==
  ASSUME IInv, NEW r \in Request, Others(r), jar' = jar,
         req'[r].client = req[r].client, req[r].pc \notin {"idle", "done"},
         \/ req'[r].pc \notin {"idle", "prepared", "done"}
         \/ req'[r].pc = req[r].pc /\ req'[r].header = req[r].header,
         req'[r].token = "differs" => req[r].client \notin Calm
  PROVE  CalmOneAtATime'
  BY DEF IInv, CalmOneAtATime, Others

LEMMA CalmStep ==
  ASSUME IInv, [Next]_vars
  PROVE  CalmOneAtATime'
  <1>0. None \notin Calm
    BY DEF Client
  <1>1. ASSUME NEW r \in Request, Prepare(r) PROVE CalmOneAtATime'
    <2>1. jar' = jar
      BY <1>1 DEF Prepare, front
    <2>2. \A q \in Request : (req'[q].client = req'[r].client /\ req'[r].client \in Calm
                              /\ req'[q].pc # "done") => q = r
      BY <1>1, PrepareEffect DEF Admitted, Others
    <2>3. /\ req'[r].pc = "prepared" /\ req'[r].token = "absent"
          /\ req'[r].header # None => req'[r].header = jar'[req'[r].client]
          /\ req'[r].client # None
          /\ Others(r)
      BY <1>1, <2>1, PrepareEffect
    <2> QED BY <2>1, <2>2, <2>3 DEF IInv, CalmOneAtATime, Others
  <1>2. ASSUME NEW r \in Request, Send(r) PROVE CalmOneAtATime'
    <2>1. req[r].pc = "prepared" /\ jar' = jar
      BY <1>2 DEF Send, front
    <2>2. req'[r].token = "differs" => req[r].client \notin Calm
      BY <1>2, <2>1, SendEffect DEF IInv, CalmOneAtATime
    <2>3. /\ Others(r) /\ req'[r].client = req[r].client
          /\ req'[r].pc \notin {"idle", "prepared", "done"}
      BY <1>2, SendEffect
    <2>4. req[r].pc \notin {"idle", "done"}
      BY <2>1
    <2>5. \/ req'[r].pc \notin {"idle", "prepared", "done"}
          \/ req'[r].pc = req[r].pc /\ req'[r].header = req[r].header
      BY <2>3
    <2> QED BY <1>2, <2>1, <2>2, <2>3 DEF IInv, CalmOneAtATime, Others
  <1>3. ASSUME NEW r \in Request, Receive(r) PROVE CalmOneAtATime'
    <2>1. /\ req[r].pc = "answered"
          /\ \A c \in Page : c # req[r].client => jar'[c] = jar[c]
      BY <1>3 DEF Receive, NewToken, IInv, TypeOK
    <2>2. /\ Others(r) /\ req'[r].pc = "done" /\ req'[r].client = req[r].client
          /\ req'[r].token = "absent"
      BY <1>3, ReceiveEffect
    <2>3. ASSUME NEW q \in Request, req'[q].client \in Calm, req'[q].pc = "prepared",
                 req'[q].header # None
          PROVE  req'[q].header = jar'[req'[q].client]
      <3>1. q # r /\ req'[q] = req[q]
        BY <2>2, <2>3 DEF Others
      <3>2. req[q].client # req[r].client
        BY <2>1, <2>3, <3>1 DEF IInv, CalmOneAtATime
      <3>3. req[q].header = jar[req[q].client]
        BY <2>3, <3>1 DEF IInv, CalmOneAtATime
      <3> QED BY <2>1, <2>3, <3>1, <3>2, <3>3
    <2> QED BY <2>2, <2>3 DEF IInv, CalmOneAtATime, Others
  <1>4. ASSUME NEW r \in Request, HangUp(r) PROVE CalmOneAtATime'
    <2>1. /\ req[r].pc \notin {"idle", "done"} /\ jar' = jar
      BY <1>4 DEF HangUp, Waiting, Handled, front
    <2>2. req'[r].token = "differs" => req[r].client \notin Calm
      BY <1>4, HangUpEffect DEF SameOrigin, IInv, CalmOneAtATime
    <2> QED BY <1>4, <2>1, <2>2, HangUpEffect, CalmKept DEF SameOrigin
  <1>5. ASSUME NEW r \in Request, Handling(r) PROVE CalmOneAtATime'
    <2>1. req'[r].token = "differs" => req[r].client \notin Calm
      BY <1>5, HandlingEffect DEF Handled1, SameOrigin, IInv, CalmOneAtATime
    <2> QED BY <1>5, <2>1, HandlingEffect, CalmKept DEF Handled1, SameOrigin
  <1>6. ASSUME NEW r \in Request, SendLogEvents(r) PROVE CalmOneAtATime'
    BY <1>6 DEF SendLogEvents, front, IInv, CalmOneAtATime
  <1>7. ASSUME NEW l \in Limiter, NEW c \in Client, WindowEnds(l, c)
        PROVE  CalmOneAtATime'
    BY <1>7 DEF WindowEnds, IInv, CalmOneAtATime
  <1>8. ASSUME Shutdown PROVE CalmOneAtATime'
    BY <1>8 DEF Shutdown, front, IInv, CalmOneAtATime
  <1>9. ASSUME Die PROVE CalmOneAtATime'
    BY <1>0, <1>9, DieEffect DEF CalmOneAtATime
  <1>10. ASSUME NEW c \in Client, CloseConnection(c) PROVE CalmOneAtATime'
    BY <1>10 DEF CloseConnection, front, IInv, CalmOneAtATime
  <1>11. ASSUME NEW t \in Tasks, TaskSettles(t) PROVE CalmOneAtATime'
    BY <1>11 DEF TaskSettles, front, IInv, CalmOneAtATime
  <1>12. ASSUME UNCHANGED vars PROVE CalmOneAtATime'
    BY <1>12 DEF vars, front, IInv, CalmOneAtATime
  <1> QED BY <1>1, <1>2, <1>3, <1>4, <1>5, <1>6, <1>7, <1>8, <1>9, <1>10, <1>11,
             <1>12, StepCases

\* With CalmOneAtATime in the new state, a token that is not absent is the
\* page's own, and csrfProtection lets it pass.
LEMMA ServedStep ==
  ASSUME IInv, [Next]_vars
  PROVE  CalmPageServed' /\ PreparedShape'
  <1> USE DEF CalmPageServed, PreparedShape
  <1>0. CalmPageServed /\ PreparedShape /\ None \notin Calm
    BY DEF IInv, Client
  <1>1. ASSUME NEW r \in Request, Prepare(r) PROVE CalmPageServed' /\ PreparedShape'
    BY <1>0, <1>1, PrepareEffect DEF Others
  <1>2. ASSUME NEW r \in Request, Send(r) PROVE CalmPageServed' /\ PreparedShape'
    BY <1>0, <1>2, SendEffect DEF Send, Others
  <1>3. ASSUME NEW r \in Request, Receive(r) PROVE CalmPageServed' /\ PreparedShape'
    BY <1>0, <1>3, ReceiveEffect DEF Others
  <1>4. ASSUME NEW r \in Request, HangUp(r) PROVE CalmPageServed' /\ PreparedShape'
    BY <1>0, <1>4, HangUpEffect DEF SameOrigin, Others
  <1>5. ASSUME NEW r \in Request, Handling(r) PROVE CalmPageServed' /\ PreparedShape'
    <2>1. req[r].client \in Calm /\ req[r].token # "absent" => req[r].token = "same"
      BY ReqType DEF IInv, CalmOneAtATime, RequestState
    <2> QED BY <1>0, <1>5, <2>1, HandlingEffect DEF Handled1, SameOrigin, Others
  <1>6. ASSUME req' = req PROVE CalmPageServed' /\ PreparedShape'
    BY <1>0, <1>6
  <1>7. ASSUME Die PROVE CalmPageServed' /\ PreparedShape'
    BY <1>0, <1>7, DieEffect
  <1> QED BY <1>1, <1>2, <1>3, <1>4, <1>5, <1>6, <1>7, StepCases
       DEF SendLogEvents, WindowEnds, Shutdown, CloseConnection, TaskSettles, vars

-----------------------------------------------------------------------------
\* The inductive invariant of the middleware and the server.
THEOREM IInvInvariant == Spec => []IInv
  <1>1. IInv /\ [Next]_vars => IInv'
    BY TypeStep, ConnectionsStep, GracefulStep, LateStep, CalmStep, ServedStep
       DEF IInv
  <1> QED BY InitIInv, <1>1, PTL DEF Spec

\* Every variable keeps its type: what core/app, core/server and the limiters
\* store is what they read back.
THEOREM TypeCorrect == Spec => []TypeOK
  <1>1. IInv => TypeOK
    BY DEF IInv
  <1> QED BY <1>1, IInvInvariant, PTL

\* The process never reports a clean shutdown (exit code 0 of the signal
\* handler of core/server) while a client waits for an answer.
THEOREM GracefulShutdown == Spec => []GracefulExit
  <1>1. IInv => GracefulExit
    BY DEF IInv
  <1> QED BY <1>1, IInvInvariant, PTL

\* shutdownHandler starts no work for a request sent after the signal.
THEOREM NoLateWork == Spec => []LateRequestsRefused
  <1>1. IInv => LateRequestsRefused
    BY DEF IInv
  <1> QED BY <1>1, IInvInvariant, PTL

\* csrfProtection refuses no page that has a token and waits for each answer.
THEOREM CalmPagesPass == Spec => []CalmPageServed
  <1>1. IInv => CalmPageServed
    BY DEF IInv
  <1> QED BY <1>1, IInvInvariant, PTL
=============================================================================
