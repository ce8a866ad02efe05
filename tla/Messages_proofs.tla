--------------------------- MODULE Messages_proofs ---------------------------
(***************************************************************************)
(* What TLAPS proves of Messages, for any number of users and requests and *)
(* any listings.                                                           *)
(***************************************************************************)
EXTENDS Messages, TLAPS, FiniteSetTheorems

-----------------------------------------------------------------------------
(***************************************************************************)
(* Pagination, for every total and every parameter.                        *)
(***************************************************************************)
(***************************************************************************)
(* Whatever integers a client sends, or leaves out, normalizePagination    *)
(* makes a page from the first on, of one row at least and MAX_PER_PAGE at *)
(* most: the offset is never negative, and no query is without a limit.    *)
(***************************************************************************)
THEOREM ParamsNormal ==
  ASSUME NEW page \in Int \cup {Absent}, NEW perPage \in Int \cup {Absent}
  PROVE  /\ normalizePagination(page, perPage) \in Params
         /\ Offset(normalizePagination(page, perPage)) \in Nat
  <1> DEFINE n == normalizePagination(page, perPage)
  <1>1. n \in Params
    BY PaginationAssumption DEF normalizePagination, Params, Larger, Smaller
  <1>2. ASSUME NEW m \in Params PROVE Offset(m) \in Nat
    <2>1. PICK a \in Nat, b \in Nat : a = m.page - 1 /\ b = m.perPage
      BY PaginationAssumption DEF Params
    <2>2. a * b \in Nat
      OBVIOUS
    <2> QED BY <2>1, <2>2 DEF Offset
  <1> HIDE DEF n
  <1>3. Offset(n) \in Nat
    BY <1>1, <1>2
  <1> QED BY <1>1, <1>3 DEF n

\* Parameters that are normal already stay as they are: the validation of
\* the routes and normalizePagination do not get in each other's way.
THEOREM NormalKept ==
  ASSUME Absent \notin Int, NEW m \in Params
  PROVE  normalizePagination(m.page, m.perPage) = m
  BY PaginationAssumption DEF normalizePagination, Params, Larger, Smaller

\* The quotient, by the inequalities that define it.
LEMMA TotalPagesBounds ==
  ASSUME NEW total \in Nat, NEW perPage \in Nat, perPage >= 1
  PROVE  /\ TotalPages(total, perPage) \in Nat
         /\ TotalPages(total, perPage) * perPage >= total
         /\ TotalPages(total, perPage) * perPage < total + perPage
  BY DEF TotalPages

LEMMA ProductMonotone ==
  ASSUME NEW m \in Nat, NEW n \in Nat, NEW p \in Nat, m <= n
  PROVE  m * p <= n * p /\ m * p \in Nat /\ n * p \in Nat
  OBVIOUS

(***************************************************************************)
(* totalPages counts the pages that have rows: a page is empty exactly     *)
(* when its number is beyond it.                                           *)
(***************************************************************************)
THEOREM PagesHaveRows ==
  ASSUME NEW total \in Nat, NEW m \in Params
  PROVE  OnPage(total, m) > 0 <=> m.page <= TotalPages(total, m.perPage)
  <1>1. PICK k \in Nat, p \in Nat \ {0} : k = m.page - 1 /\ p = m.perPage
    BY PaginationAssumption DEF Params
  <1>2. PICK t \in Nat : /\ t = TotalPages(total, p)
                         /\ t * p >= total /\ t * p < total + p
    <2>1. p \in Nat /\ p >= 1
      OBVIOUS
    <2> QED BY <2>1, TotalPagesBounds
  <1>3. t * p >= total /\ t * p < total + p
    BY <1>2
  <1>4. Offset(m) = k * p /\ k * p \in Nat
    BY <1>1 DEF Offset
  <1>5. OnPage(total, m) > 0 <=> k * p < total
    BY <1>1, <1>4 DEF OnPage, Smaller, Larger
  <1>6. ASSUME k * p < total PROVE k < t
    <2>1. ~(t <= k)
      BY <1>3, <1>6, ProductMonotone
    <2> QED BY <2>1
  <1>7. ASSUME k < t PROVE k * p < total
    <2>1. (k + 1) * p <= t * p
      BY <1>7, ProductMonotone
    <2>2. (k + 1) * p = k * p + p
      OBVIOUS
    <2> QED BY <1>3, <1>4, <2>1, <2>2
  <1>8. m.page <= TotalPages(total, m.perPage) <=> k < t
    BY <1>1, <1>2 DEF Params
  <1> QED BY <1>5, <1>6, <1>7, <1>8

(***************************************************************************)
(* The pages follow each other without a gap, and the last one ends with   *)
(* the last row.                                                           *)
(***************************************************************************)
THEOREM PagesCover ==
  ASSUME NEW total \in Nat \ {0}, NEW perPage \in 1..MAX_PER_PAGE, NEW page \in Nat \ {0}
  PROVE  LET m == [page |-> page, perPage |-> perPage] IN
         /\ page < TotalPages(total, perPage) =>
              /\ OnPage(total, m) = perPage
              /\ Offset([m EXCEPT !.page = page + 1]) = Offset(m) + OnPage(total, m)
         /\ page = TotalPages(total, perPage) =>
              Offset(m) + OnPage(total, m) = total
  <1> DEFINE m == [page |-> page, perPage |-> perPage]
  <1>1. PICK k \in Nat, p \in Nat \ {0} : k = page - 1 /\ p = perPage
    BY PaginationAssumption
  <1>2. PICK t \in Nat : t = TotalPages(total, p)
    BY <1>1, TotalPagesBounds
  <1>3. t * p >= total /\ t * p < total + p
    BY <1>1, <1>2, TotalPagesBounds
  <1>4. /\ Offset(m) = k * p /\ k * p \in Nat
        /\ Offset([m EXCEPT !.page = page + 1]) = (k + 1) * p
    BY <1>1 DEF Offset
  <1>5. (k + 1) * p = k * p + p
    OBVIOUS
  <1>6. m.perPage = p
    BY <1>1
  <1>7. ASSUME page < t
        PROVE  OnPage(total, m) = p
    <2>1. (k + 2) * p <= t * p
      BY <1>1, <1>7, ProductMonotone
    <2>2. (k + 2) * p = k * p + p + p
      OBVIOUS
    <2>3. k * p + p <= total
      BY <1>3, <1>4, <2>1, <2>2
    <2> HIDE DEF m
    <2> QED BY <1>4, <1>6, <2>3 DEF OnPage, Smaller, Larger
  <1>8. ASSUME page = t
        PROVE  Offset(m) + OnPage(total, m) = total
    <2>1. k * p + p >= total /\ k * p < total
      BY <1>1, <1>3, <1>4, <1>5, <1>8
    <2> HIDE DEF m
    <2> QED BY <1>4, <1>6, <2>1 DEF OnPage, Smaller, Larger
  <1> QED BY <1>1, <1>2, <1>4, <1>5, <1>7, <1>8

LEMMA ParamsOffset ==
  ASSUME NEW m \in Params
  PROVE  Offset(m) \in Nat /\ m.perPage \in Nat \ {0} /\ m.page \in Nat \ {0}
  <1>1. PICK a \in Nat, b \in Nat : a = m.page - 1 /\ b = m.perPage
    BY PaginationAssumption DEF Params
  <1>2. a * b \in Nat
    OBVIOUS
  <1> QED BY <1>1, <1>2, PaginationAssumption DEF Offset, Params

\* A set of natural numbers below a bound has a least one: what is left of
\* induction when no theorem may take an operator as a parameter.
LEMMA LeastNumber ==
  ASSUME NEW n \in Nat, NEW K \in SUBSET (0..n), K # {}
  PROVE  \E m \in K : \A k \in K : m <= k
  <1> DEFINE Below(k) == 0..(k - 1)
             T == {Below(k) : k \in K}
             R == StrictSubsetOrdering(0..n)
  <1>1. IsWellFoundedOn(R, SUBSET (0..n))
    <2>1. IsFiniteSet(0..n)
      BY FS_Interval
    <2> QED BY <2>1, FS_StrictSubsetOrderingWellFounded, FS_FiniteSubsetsOfFinite
  <1>2. T \subseteq SUBSET (0..n) /\ T # {}
    <2>1. \A k \in K : Below(k) \subseteq 0..n
      OBVIOUS
    <2> HIDE DEF Below
    <2> QED BY <2>1
  <1>3. PICK x \in T : \A y \in T : ~(<<y, x>> \in R)
    <2> HIDE DEF T, R
    <2> QED BY <1>1, <1>2, WFMin
  <1>4. PICK m \in K : x = Below(m)
    OBVIOUS
  <1>5. ASSUME NEW k \in K, k < m PROVE FALSE
    <2>1. k \in Below(m) /\ k \notin Below(k) /\ Below(k) \subseteq Below(m)
      BY <1>5
    <2>2. Below(k) \in T /\ Below(k) \in SUBSET (0..n) /\ x \in SUBSET (0..n)
      BY <1>2
    <2>3. <<Below(k), x>> \in R
      BY <1>4, <2>1, <2>2 DEF StrictSubsetOrdering
    <2> QED BY <1>3, <2>2, <2>3
  <1>6. \A k \in K : m <= k
    BY <1>5
  <1> QED BY <1>6

-----------------------------------------------------------------------------

USE MessagesAssumption

LEMMA ReqType == IInv => req \in [Request -> RequestState]
  BY DEF IInv, TypeOK

-----------------------------------------------------------------------------
(***************************************************************************)
(* What each kind of step does to the record of its request.               *)
(***************************************************************************)
Others(r) == \A q \in Request \ {r} : req'[q] = req[q]

\* A step of r that is not its last keeps whose it is and what it is about.
SameRequest(r) == /\ req'[r].op = req[r].op /\ req'[r].user = req[r].user
                  /\ req'[r].target = req[r].target
                  /\ req'[r].sender = req[r].sender

LEMMA GotoEffect ==
  ASSUME IInv, NEW r \in Request, NEW l \in Labels, Goto(r, l)
  PROVE  /\ req' \in [Request -> RequestState] /\ Others(r) /\ SameRequest(r)
         /\ req'[r].pc = l /\ req'[r].view = req[r].view
  BY ReqType DEF Goto, RequestState, Others, SameRequest

LEMMA EndEffect ==
  ASSUME IInv, NEW r \in Request, NEW c \in Codes, End(r, c)
  PROVE  /\ req' \in [Request -> RequestState] /\ Others(r)
         /\ req'[r].pc = "done"
         /\ req[r].op \in {"create", "delete"} =>
              req'[r].op = req[r].op /\ req'[r].user = req[r].user
         /\ req'[r].op \in {"none", "list", "create", "delete"}
  <1>1. PICK s \in RequestState : s = Ended(req[r], c)
    <2>1. req[r] \in RequestState
      BY ReqType
    <2>2. Over(None, c) \in RequestState
      BY DEF Over, Record, RequestState, Operations, Labels
    <2>3. Record(req[r].op, "done", req[r].user, None, None, FALSE, req[r].view, c)
            \in RequestState
      BY <2>1 DEF Record, RequestState, Labels
    <2> QED BY <2>2, <2>3 DEF Ended
  <1>2. req' = [req EXCEPT ![r] = s]
    BY <1>1 DEF End
  <1>3. /\ s.pc = "done"
        /\ req[r].op \in {"create", "delete"} => s.op = req[r].op /\ s.user = req[r].user
        /\ s.op \in {"none", "list", "create", "delete"}
    BY <1>1 DEF Ended, Over, Record, Still
  <1> QED BY <1>2, <1>3, ReqType DEF Others

LEMMA AnswerEffect ==
  ASSUME IInv, NEW r \in Request, Answer(r)
  PROVE  /\ req' \in [Request -> RequestState] /\ Others(r)
         /\ req'[r].pc = "done"
         /\ req[r].op \in {"create", "delete"} =>
              req'[r].op = req[r].op /\ req'[r].user = req[r].user
         /\ req'[r].op \in {"none", "list", "create", "delete"}
  BY EndEffect DEF Answer, Codes

LEMMA BeginEffect ==
  ASSUME IInv, NEW r \in Request, NEW s \in RequestState, Begin(r, s)
  PROVE  /\ req' \in [Request -> RequestState] /\ Others(r)
         /\ req[r].pc = "idle" /\ req'[r] = s
  BY ReqType DEF Begin, Others

-----------------------------------------------------------------------------
(***************************************************************************)
(* Most steps find nothing and write nothing that others rely on: rows may *)
(* go or be read, and none comes.                                          *)
(***************************************************************************)
NoRowComes ==
  \A s \in Request : notifications'[s] # None =>
    notifications[s] # None /\ notifications'[s].receiver = notifications[s].receiver

Quiet(r) ==
  /\ req' \in [Request -> RequestState] /\ Others(r)
  /\ req[r].pc # "done" /\ req'[r].pc # "emit"
  /\ ShapeOf(r)'
  /\ req[r].pc = "mail" =>
       /\ req'[r].op = req[r].op /\ req'[r].user = req[r].user
       /\ req'[r].pc = "done"
  /\ req'[r].pc = "write" => MadeFor(req'[r].target, req'[r].user)
  /\ events' = events /\ NoRowComes

Rest == LocalShape /\ RowOrigin /\ DeletedOnce /\ DeletionAnnouncedOnce

LEMMA MadeForKept ==
  ASSUME IInv, NEW r \in Request, Quiet(r), NEW s \in Request, NEW u \in User, MadeFor(s, u)
  PROVE  MadeFor(s, u)'
  <1>1. CASE s = r
    BY <1>1 DEF MadeFor, Quiet
  <1>2. CASE s # r
    BY <1>2 DEF MadeFor, Quiet, Others
  <1> QED BY <1>1, <1>2

LEMMA QuietKeepsRest ==
  ASSUME IInv, TypeOK', NEW r \in Request, Quiet(r)
  PROVE  Rest'
  <1> USE DEF Quiet, Others
  <1>1. LocalShape'
    <2>1. ASSUME NEW q \in Request, q # r PROVE ShapeOf(q)'
      BY <2>1 DEF IInv, LocalShape, ShapeOf, NoRowComes
    <2> QED BY <2>1 DEF LocalShape
  <1>2. RowOrigin'
    <2>1. ASSUME NEW s \in Request, notifications'[s] # None
          PROVE  MadeFor(s, notifications[s].receiver)'
      <3>1. PICK u \in User : u = notifications[s].receiver /\ u = notifications'[s].receiver
        BY <2>1 DEF NoRowComes, IInv, TypeOK, Notification
      <3>2. MadeFor(s, u)
        BY <2>1, <3>1 DEF NoRowComes, IInv, RowOrigin
      <3>3. MadeFor(s, u)'
        BY <3>2, MadeForKept
      <3> QED BY <3>1, <3>3 DEF MadeFor
    <2>2. ASSUME NEW q \in Request, req'[q].pc \in {"write", "emit"}
          PROVE  MadeFor(req[q].target, req[q].user)'
      <3>1. PICK s \in Request, u \in User : s = req'[q].target /\ u = req'[q].user
        <4>1. ShapeOf(q)'
          BY <1>1 DEF LocalShape
        <4> QED BY <2>2, <4>1 DEF ShapeOf
      <3>2. MadeFor(s, u)
        BY <2>2, <3>1 DEF IInv, RowOrigin
      <3>3. MadeFor(s, u)'
        BY <3>2, MadeForKept
      <3> QED BY <3>1, <3>3 DEF MadeFor
    <2>3. ASSUME NEW e \in events PROVE MadeFor(e.id, e.channel)'
      <3>1. PICK s \in Request, u \in User : s = e.id /\ u = e.channel
        BY DEF IInv, TypeOK, Event
      <3>2. MadeFor(s, u)
        BY <3>1 DEF IInv, RowOrigin
      <3>3. MadeFor(s, u)'
        BY <3>2, MadeForKept
      <3> QED BY <3>1, <3>3 DEF MadeFor
    <2> QED BY <2>1, <2>2, <2>3 DEF RowOrigin
  <1>3. DeletedOnce'
    <2>1. ASSUME NEW q \in Request, req'[q].pc = "emit"
          PROVE  /\ req[q].pc = "emit" /\ req'[q] = req[q]
                 /\ notifications'[req'[q].target] = None
                 /\ \A e \in events : e.id # req'[q].target
      <3>1. req[q].pc = "emit" /\ req'[q] = req[q]
        BY <2>1
      <3>2. req[q].target \in Request
        BY <3>1 DEF IInv, LocalShape, ShapeOf
      <3> QED BY <3>1, <3>2 DEF IInv, DeletedOnce, NoRowComes
    <2> QED BY <2>1 DEF IInv, DeletedOnce
  <1>4. DeletionAnnouncedOnce'
    <2>1. ASSUME NEW e \in events
          PROVE  /\ notifications'[e.id] = None
                 /\ req'[e.id].op = "create" /\ req'[e.id].user = e.channel
                 /\ req'[e.by].pc = "done" /\ req'[e.by].user = e.channel
      <3>1. e.id \in Request /\ e.by \in Request /\ e.channel \in User
        BY DEF IInv, TypeOK, Event
      <3>2. notifications'[e.id] = None
        BY <3>1 DEF IInv, DeletionAnnouncedOnce, NoRowComes
      <3>3. req'[e.by] = req[e.by]
        BY <3>1 DEF IInv, DeletionAnnouncedOnce
      <3>4. MadeFor(e.id, e.channel)
        BY DEF IInv, RowOrigin
      <3>5. req'[e.id].op = "create" /\ req'[e.id].user = e.channel
        BY <3>1, <3>4 DEF MadeFor
      <3> QED BY <3>1, <3>2, <3>3, <3>5 DEF IInv, DeletionAnnouncedOnce
    <2> QED BY <2>1 DEF IInv, DeletionAnnouncedOnce
  <1> QED BY <1>1, <1>2, <1>3, <1>4 DEF Rest

-----------------------------------------------------------------------------
(***************************************************************************)
(* The records a request begins with.                                      *)
(***************************************************************************)
LEMMA RecordType ==
  ASSUME NEW op \in Operations, NEW pc \in Labels, NEW u \in User \cup {None},
         NEW s \in User \cup {None}, NEW t \in Request \cup {None}, NEW b \in BOOLEAN,
         NEW v \in View \cup {None}, NEW c \in Codes
  PROVE  Record(op, pc, u, s, t, b, v, c) \in RequestState
  BY DEF Record, RequestState

LEMMA NoViewType ==
  ASSUME NEW q \in Asked
  PROVE  NoView(q.unread, normalizePagination(q.page, q.perPage)) \in View
  <1>1. /\ q.unread \in BOOLEAN /\ q.page \in Int \cup {Absent}
        /\ q.perPage \in Int \cup {Absent}
    OBVIOUS
  <1>2. PICK m \in Params : m = normalizePagination(q.page, q.perPage)
    BY <1>1, ParamsNormal
  <1>3. NoView(q.unread, m) \in View
    BY <1>1 DEF NoView, View
  <1> QED BY <1>2, <1>3

\* What a beginning has to establish to be quiet.
LEMMA BeginQuiet ==
  ASSUME IInv, NEW r \in Request, NEW s \in RequestState, Begin(r, s),
         notifications' = notifications, events' = events,
         s.pc \in {"list", "find", "receiver", "support.insert", "done"},
         s.pc = "list" => s.view \in View /\ s.op = "list",
         s.pc = "find" => /\ s.op \in {"toggle", "delete"}
                          /\ s.target \in Request /\ s.user \in User,
         s.pc = "receiver" => /\ s.op = "create" /\ notifications[r] = None
                              /\ s.user \in User /\ s.sender \in User,
         s.pc = "support.insert" => s.op = "contact",
         s.pc = "done" => s.op = "none"
  PROVE  Quiet(r)
  <1>1. /\ req' \in [Request -> RequestState] /\ Others(r)
        /\ req[r].pc = "idle" /\ req'[r] = s
    BY BeginEffect
  <1>2. ShapeOf(r)'
    BY <1>1 DEF ShapeOf
  <1>3. NoRowComes
    BY DEF NoRowComes
  <1> QED BY <1>1, <1>2, <1>3 DEF Quiet

LEMMA KnownRequests == IInv => Known \subseteq Request
  <1> SUFFICES ASSUME IInv PROVE Known \subseteq Request
    OBVIOUS
  <1>1. made \in Seq(SUBSET Request)
    BY DEF IInv, TypeOK
  <1>2. \A i \in DOMAIN made : made[i] \subseteq Request
    BY <1>1
  <1> QED BY <1>2 DEF Known

\* A request that has not begun has made no row.
LEMMA IdleNoRow == ASSUME IInv, NEW r \in Request, req[r].pc = "idle"
                   PROVE  notifications[r] = None
  BY DEF IInv, RowOrigin, MadeFor

LEMMA StartQuiet ==
  ASSUME IInv, NEW r \in Request, Start(r)
  PROVE  Quiet(r) /\ TypeOK'
  <1>0. TypeOK /\ users \subseteq User
    BY DEF IInv, TypeOK
  <1>a. UNCHANGED <<users, notifications, made, support, events>>
    BY DEF Start, NotificationRoutes, SupportRoutes,
       GetNotifications, ToggleReadStatus, DeleteNotification,
       CreateNotification, CreateSupportRequest, UpdateSupportRequestStatus
  <1>b. ASSUME NEW t \in Request \cup {None}
        PROVE  Over(t, "INVALID_INPUT") \in RequestState
    BY RecordType DEF Over, Operations, Labels, Codes
  <1>c. req' \in [Request -> RequestState] => TypeOK'
    BY <1>0, <1>a DEF TypeOK
  <1>1. CASE GetNotifications(r)
    <2>1. PICK u \in users, q \in Asked :
            Begin(r, IF ValidListing(q.page, q.perPage)
                     THEN Record("list", "list", u, None, None, FALSE,
                                 NoView(q.unread, normalizePagination(q.page, q.perPage)),
                                 "none")
                     ELSE Over(None, "INVALID_INPUT"))
      BY <1>1 DEF GetNotifications
    <2>2. PICK v \in View : v = NoView(q.unread, normalizePagination(q.page, q.perPage))
      BY NoViewType
    <2>3. CASE ValidListing(q.page, q.perPage)
      <3>1. PICK s \in RequestState :
              s = Record("list", "list", u, None, None, FALSE, v, "none")
        BY <1>0, RecordType DEF Operations, Labels, Codes
      <3>2. Begin(r, s)
        BY <2>1, <2>2, <2>3, <3>1
      <3>3. s.pc = "list" /\ s.op = "list" /\ s.view = v
        BY <3>1 DEF Record
      <3> QED BY <1>a, <1>c, <3>2, <3>3, BeginQuiet DEF Quiet
    <2>4. CASE ~ValidListing(q.page, q.perPage)
      <3>1. PICK s \in RequestState : s = Over(None, "INVALID_INPUT")
        BY <1>b
      <3>2. Begin(r, s)
        BY <2>1, <2>4, <3>1
      <3>3. s.pc = "done" /\ s.op = "none"
        BY <3>1 DEF Over, Record
      <3> QED BY <1>a, <1>c, <3>2, <3>3, BeginQuiet DEF Quiet
    <2> QED BY <2>3, <2>4
  <1>2. CASE ToggleReadStatus(r)
    <2>1. PICK u \in users, t \in Known, b \in BOOLEAN :
            Begin(r, Record("toggle", "find", u, None, t, b, None, "none"))
      BY <1>2 DEF ToggleReadStatus
    <2>2. t \in Request
      BY KnownRequests
    <2>3. PICK s \in RequestState :
            s = Record("toggle", "find", u, None, t, b, None, "none")
      BY <1>0, <2>2, RecordType DEF Operations, Labels, Codes
    <2>4. s.pc = "find" /\ s.op = "toggle" /\ s.target = t /\ s.user = u
      BY <2>3 DEF Record
    <2> QED BY <1>0, <1>a, <1>c, <2>1, <2>2, <2>3, <2>4, BeginQuiet DEF Quiet
  <1>3. CASE DeleteNotification(r)
    <2>1. PICK u \in users, t \in Known :
            Begin(r, Record("delete", "find", u, None, t, FALSE, None, "none"))
      BY <1>3 DEF DeleteNotification
    <2>2. t \in Request
      BY KnownRequests
    <2>3. PICK s \in RequestState :
            s = Record("delete", "find", u, None, t, FALSE, None, "none")
      BY <1>0, <2>2, RecordType DEF Operations, Labels, Codes
    <2>4. s.pc = "find" /\ s.op = "delete" /\ s.target = t /\ s.user = u
      BY <2>3 DEF Record
    <2> QED BY <1>0, <1>a, <1>c, <2>1, <2>2, <2>3, <2>4, BeginQuiet DEF Quiet
  <1>4. CASE CreateNotification(r)
    <2>1. PICK u \in User, w \in users :
            Begin(r, Record("create", "receiver", u, w, None, FALSE, None, "none"))
      BY <1>4 DEF CreateNotification
    <2>2. PICK s \in RequestState :
            s = Record("create", "receiver", u, w, None, FALSE, None, "none")
      BY <1>0, RecordType DEF Operations, Labels, Codes
    <2>3. s.pc = "receiver" /\ s.op = "create" /\ s.user = u /\ s.sender = w
      BY <2>2 DEF Record
    <2>4. notifications[r] = None
      BY <2>1, IdleNoRow DEF Begin
    <2> QED BY <1>0, <1>a, <1>c, <2>1, <2>2, <2>3, <2>4, BeginQuiet DEF Quiet
  <1>5. CASE CreateSupportRequest(r)
    <2>1. PICK s \in RequestState :
            s = Record("contact", "support.insert", None, None, None, FALSE, None, "none")
      BY RecordType DEF Operations, Labels, Codes
    <2>2. s.pc = "support.insert" /\ s.op = "contact"
      BY <2>1 DEF Record
    <2>3. Begin(r, s)
      BY <1>5, <2>1 DEF CreateSupportRequest
    <2> QED BY <1>a, <1>c, <2>2, <2>3, BeginQuiet DEF Quiet
  <1>6. CASE UpdateSupportRequestStatus(r)
    <2>1. PICK t \in support : Begin(r, Over(t, "INVALID_INPUT"))
      BY <1>6 DEF UpdateSupportRequestStatus
    <2>2. t \in Request
      BY <1>0 DEF TypeOK
    <2>3. PICK s \in RequestState : s = Over(t, "INVALID_INPUT")
      BY <1>b, <2>2
    <2>4. s.pc = "done" /\ s.op = "none"
      BY <2>3 DEF Over, Record
    <2>5. Begin(r, s)
      BY <2>1, <2>3
    <2> QED BY <1>a, <1>c, <2>4, <2>5, BeginQuiet DEF Quiet
  <1> QED BY <1>1, <1>2, <1>3, <1>4, <1>5, <1>6 DEF Start, NotificationRoutes, SupportRoutes

-----------------------------------------------------------------------------
(***************************************************************************)
(* The steps that end a request, or go on without a row to show for it.    *)
(***************************************************************************)
LEMMA EndQuiet ==
  ASSUME IInv, NEW r \in Request, req[r].pc # "done", NEW c \in Codes, End(r, c),
         NoRowComes, events' = events
  PROVE  Quiet(r)
  <1>1. /\ req' \in [Request -> RequestState] /\ Others(r) /\ req'[r].pc = "done"
        /\ req[r].op \in {"create", "delete"} =>
             req'[r].op = req[r].op /\ req'[r].user = req[r].user
        /\ req'[r].op \in {"none", "list", "create", "delete"}
    BY EndEffect
  <1>2. req[r].pc = "mail" => req[r].op = "create"
    BY DEF IInv, LocalShape, ShapeOf
  <1> QED BY <1>1, <1>2 DEF Quiet, ShapeOf

LEMMA AnswerQuiet ==
  ASSUME IInv, NEW r \in Request, req[r].pc # "done", Answer(r),
         NoRowComes, events' = events
  PROVE  Quiet(r)
  BY EndQuiet DEF Answer, Codes

LEMMA GotoQuiet ==
  ASSUME IInv, NEW r \in Request, NEW l \in Labels, Goto(r, l),
         notifications' = notifications, events' = events,
         \/ req[r].pc = "find" /\ l = "write" /\ MadeFor(req[r].target, req[r].user)
         \/ req[r].pc = "receiver" /\ l = "insert"
         \/ req[r].pc = "support.insert" /\ l = "support.mail"
  PROVE  Quiet(r)
  <1>1. /\ req' \in [Request -> RequestState] /\ Others(r) /\ SameRequest(r)
        /\ req'[r].pc = l
    BY GotoEffect
  <1>2. ShapeOf(r)
    BY DEF IInv, LocalShape
  <1>3. ShapeOf(r)'
    BY <1>1, <1>2 DEF ShapeOf, SameRequest
  <1> QED BY <1>1, <1>3 DEF Quiet, NoRowComes, SameRequest, MadeFor

LEMMA ViewQuiet ==
  ASSUME IInv, NEW r \in Request, req[r].pc = "list", NEW v \in View,
         req' = [req EXCEPT ![r].view = v],
         notifications' = notifications, events' = events
  PROVE  Quiet(r)
  <1>1. /\ req' \in [Request -> RequestState] /\ Others(r)
        /\ req'[r].pc = "list" /\ req'[r].op = req[r].op /\ req'[r].view = v
    BY ReqType DEF RequestState, Others
  <1>2. ShapeOf(r)
    BY DEF IInv, LocalShape
  <1> QED BY <1>1, <1>2 DEF Quiet, ShapeOf, NoRowComes

LEMMA ListStepQuiet ==
  ASSUME IInv, NEW r \in Request, FindMany(r) \/ CountRows(r)
  PROVE  Quiet(r)
  <1>1. PICK v \in View : v = req[r].view
    BY DEF FindMany, CountRows, IInv, LocalShape, ShapeOf
  <1>2. PICK rows \in SUBSET Request :
          rows = Matching(req[r].user, v.unread) /\ Cardinality(rows) \in Nat
    <2>1. PICK M : M = Matching(req[r].user, v.unread)
      OBVIOUS
    <2>2. M \subseteq Request
      BY <2>1 DEF Matching
    <2>3. Cardinality(M) \in Nat
      BY <2>2, FS_Subset, FS_CardinalityType
    <2> QED BY <2>1, <2>2, <2>3
  <1>3. CASE FindMany(r)
    <2>1. PICK S \in FindPage(rows, v.params) :
            req' = [req EXCEPT ![r].view = WithItems(v, S, rows)]
      BY <1>1, <1>2, <1>3 DEF FindMany
    <2>2. S \subseteq Request
      BY DEF FindPage, PagesOf
    <2>3. PICK w \in View : w = WithItems(v, S, rows)
      BY <2>2 DEF WithItems, View
    <2>4. req' = [req EXCEPT ![r].view = w]
      BY <2>1, <2>3
    <2> QED BY <1>3, <2>4, ViewQuiet DEF FindMany
  <1>4. CASE CountRows(r)
    <2>1. req' = [req EXCEPT ![r].view = WithTotal(v, rows)]
      BY <1>1, <1>2, <1>4 DEF CountRows
    <2>2. PICK w \in View : w = WithTotal(v, rows)
      BY <1>2 DEF WithTotal, View
    <2>3. req' = [req EXCEPT ![r].view = w]
      BY <2>1, <2>2
    <2> QED BY <1>4, <2>3, ViewQuiet DEF CountRows
  <1> QED BY <1>3, <1>4

-----------------------------------------------------------------------------
(***************************************************************************)
(* The steps of toggleReadStatus and deleteNotification.                   *)
(***************************************************************************)
LEMMA FindOwnQuiet ==
  ASSUME IInv, NEW r \in Request, FindOwn(r)
  PROVE  Quiet(r)
  <1>0. req[r].pc = "find" /\ notifications' = notifications /\ events' = events
    BY DEF FindOwn
  <1>1. PICK s \in Request, u \in User : s = req[r].target /\ u = req[r].user
    BY <1>0 DEF IInv, LocalShape, ShapeOf
  <1>2. CASE Found(s, u)
    <2>1. MadeFor(s, u)
      BY <1>2 DEF Found, IInv, RowOrigin
    <2>2. Goto(r, "write")
      BY <1>1, <1>2 DEF FindOwn
    <2>3. MadeFor(req[r].target, req[r].user)
      BY <1>1, <2>1
    <2> QED BY <1>0, <2>2, <2>3, GotoQuiet DEF Labels
  <1>3. CASE ~Found(s, u)
    <2>1. End(r, "NOTIFICATION_NOT_FOUND")
      BY <1>1, <1>3 DEF FindOwn
    <2> QED BY <1>0, <2>1, EndQuiet DEF Codes, NoRowComes
  <1> QED BY <1>2, <1>3

LEMMA WriteReadQuiet ==
  ASSUME IInv, NEW r \in Request, WriteRead(r)
  PROVE  Quiet(r) /\ notifications' \in [Request -> Notification \cup {None}]
  <1>0. req[r].pc = "write" /\ events' = events
    BY DEF WriteRead
  <1>1. PICK s \in Request, b \in BOOLEAN : s = req[r].target /\ b = req[r].read
    BY <1>0, ReqType DEF IInv, LocalShape, ShapeOf, RequestState
  <1>a. notifications \in [Request -> Notification \cup {None}]
    BY DEF IInv, TypeOK
  <1>2. CASE notifications[s] = None
    <2>1. End(r, "NOT_FOUND") /\ notifications' = notifications
      BY <1>1, <1>2 DEF WriteRead
    <2> QED BY <1>0, <1>a, <2>1, EndQuiet DEF Codes, NoRowComes
  <1>3. CASE notifications[s] # None
    <2>1. Answer(r) /\ notifications' = [notifications EXCEPT ![s].read = b]
      BY <1>1, <1>3 DEF WriteRead
    <2>2. notifications[s] \in Notification
      BY <1>3, <1>a
    <2>3. notifications' \in [Request -> Notification \cup {None}] /\ NoRowComes
      BY <1>3, <1>a, <2>1, <2>2 DEF Notification, NoRowComes
    <2> QED BY <1>0, <2>1, <2>3, AnswerQuiet
  <1> QED BY <1>2, <1>3

\* Of the deletions that have found a row, the first to get there takes it.
LEMMA DeleteRowStep ==
  ASSUME IInv, NEW r \in Request, DeleteRow(r)
  PROVE  TypeOK' /\ Rest'
  <1>0. /\ req[r].pc = "write" /\ req[r].op = "delete"
        /\ UNCHANGED <<users, made, support, events>>
    BY DEF DeleteRow
  <1>1. PICK s \in Request, u \in User : s = req[r].target /\ u = req[r].user
    BY <1>0 DEF IInv, LocalShape, ShapeOf
  <1>a. TypeOK
    BY DEF IInv
  <1>2. CASE notifications[s] = None
    <2>1. End(r, "NOT_FOUND") /\ notifications' = notifications
      BY <1>1, <1>2 DEF DeleteRow
    <2>2. Quiet(r)
      BY <1>0, <2>1, EndQuiet DEF Codes, NoRowComes
    <2>3. TypeOK'
      BY <1>0, <1>a, <2>1, <2>2 DEF TypeOK, Quiet
    <2> QED BY <2>2, <2>3, QuietKeepsRest
  <1>3. CASE notifications[s] # None
    <2>1. Goto(r, "emit") /\ notifications' = [notifications EXCEPT ![s] = None]
      BY <1>1, <1>3 DEF DeleteRow
    <2>2. /\ req' \in [Request -> RequestState] /\ Others(r) /\ SameRequest(r)
          /\ req'[r].pc = "emit"
      BY <2>1, GotoEffect DEF Labels
    <2>3. TypeOK'
      BY <1>0, <1>a, <2>1, <2>2 DEF TypeOK
    <2>4. /\ notifications'[s] = None
          /\ \A q \in Request : notifications'[q] # None =>
               notifications[q] # None /\ notifications'[q] = notifications[q]
      BY <1>a, <2>1 DEF TypeOK
    <2>5. \A q \in Request, w \in User : MadeFor(q, w) => MadeFor(q, w)'
      BY <1>0, <2>2 DEF MadeFor, Others
    <2>6. LocalShape'
      <3>1. ShapeOf(r)'
        BY <1>0, <1>1, <2>2 DEF ShapeOf, SameRequest
      <3>2. ASSUME NEW q \in Request, q # r PROVE ShapeOf(q)'
        BY <2>2, <2>4, <3>2 DEF IInv, LocalShape, ShapeOf, Others
      <3> QED BY <3>1, <3>2 DEF LocalShape
    <2>7. MadeFor(s, u)
      BY <1>0, <1>1 DEF IInv, RowOrigin
    <2>8. RowOrigin'
      <3>1. ASSUME NEW q \in Request, notifications'[q] # None
            PROVE  MadeFor(q, notifications[q].receiver)'
        <4>1. PICK w \in User : w = notifications[q].receiver /\ w = notifications'[q].receiver
          BY <1>a, <2>4, <3>1 DEF TypeOK, Notification
        <4>2. MadeFor(q, w)
          BY <2>4, <3>1, <4>1 DEF IInv, RowOrigin
        <4> QED BY <2>5, <4>1, <4>2 DEF MadeFor
      <3>2. ASSUME NEW q \in Request, req'[q].pc \in {"write", "emit"}
            PROVE  MadeFor(req[q].target, req[q].user)'
        <4>1. req[q].pc \in {"write", "emit"} /\ SameRequest(q)
          BY <1>0, <2>2, <3>2 DEF Others, SameRequest
        <4>2. PICK t \in Request, w \in User : t = req[q].target /\ w = req[q].user
          BY <4>1 DEF IInv, LocalShape, ShapeOf
        <4>3. MadeFor(t, w)
          BY <4>1, <4>2 DEF IInv, RowOrigin
        <4>4. t = req'[q].target /\ w = req'[q].user
          BY <4>1, <4>2 DEF SameRequest
        <4> QED BY <2>5, <4>3, <4>4 DEF MadeFor
      <3>3. ASSUME NEW e \in events' PROVE MadeFor(e.id, e.channel)'
        <4>1. PICK t \in Request, w \in User : t = e.id /\ w = e.channel
          BY <2>3 DEF TypeOK, Event
        <4>2. MadeFor(t, w)
          BY <1>0, <4>1 DEF IInv, RowOrigin
        <4> QED BY <2>5, <4>1, <4>2 DEF MadeFor
      <3> QED BY <3>1, <3>2, <3>3 DEF RowOrigin
    <2>9. \A e \in events : e.id # s
      BY <1>3 DEF IInv, DeletionAnnouncedOnce
    <2>10. ASSUME NEW q \in Request, q # r, req'[q].pc = "emit"
           PROVE  /\ req[q].pc = "emit" /\ req'[q] = req[q]
                  /\ req[q].target \in Request /\ req[q].target # s
                  /\ notifications[req[q].target] = None
      <3>1. req[q].pc = "emit" /\ req'[q] = req[q]
        BY <2>2, <2>10 DEF Others
      <3> QED BY <1>3, <3>1 DEF IInv, DeletedOnce, LocalShape, ShapeOf
    <2>11. DeletedOnce'
      <3>1. req'[r].target = s
        BY <1>1, <2>2 DEF SameRequest
      <3>2. ASSUME NEW q \in Request, req'[q].pc = "emit"
            PROVE  /\ notifications'[req'[q].target] = None
                   /\ \A e \in events' : e.id # req'[q].target
        BY <1>0, <2>4, <2>9, <2>10, <3>1, <3>2 DEF IInv, DeletedOnce
      <3>3. ASSUME NEW p \in Request, NEW q \in Request,
                   req'[p].pc = "emit", req'[q].pc = "emit",
                   req'[p].target = req'[q].target
            PROVE  p = q
        BY <2>10, <3>1, <3>3 DEF IInv, DeletedOnce
      <3> QED BY <3>2, <3>3 DEF DeletedOnce
    <2>12. DeletionAnnouncedOnce'
      <3>1. ASSUME NEW e \in events
            PROVE  /\ notifications'[e.id] = None
                   /\ req'[e.id].op = "create" /\ req'[e.id].user = e.channel
                   /\ req'[e.by].pc = "done" /\ req'[e.by].user = e.channel
        <4>1. e.id \in Request /\ e.by \in Request /\ e.channel \in User
          BY <1>a DEF TypeOK, Event
        <4>2. /\ notifications[e.id] = None /\ req[e.by].pc = "done"
              /\ req[e.by].user = e.channel
          BY DEF IInv, DeletionAnnouncedOnce
        <4>3. MadeFor(e.id, e.channel)'
          BY <2>5, <4>1 DEF IInv, RowOrigin
        <4> QED BY <1>0, <2>2, <2>4, <4>1, <4>2, <4>3 DEF MadeFor, Others
      <3> QED BY <1>0, <3>1 DEF IInv, DeletionAnnouncedOnce
    <2> QED BY <2>3, <2>6, <2>8, <2>11, <2>12 DEF Rest
  <1> QED BY <1>2, <1>3

-----------------------------------------------------------------------------
(***************************************************************************)
(* The announcement of a deletion.                                         *)
(***************************************************************************)
LEMMA EmitDeletedStep ==
  ASSUME IInv, NEW r \in Request, EmitDeleted(r)
  PROVE  TypeOK' /\ Rest'
  <1>0. /\ req[r].pc = "emit" /\ Answer(r) /\ req[r].op = "delete"
        /\ UNCHANGED <<users, notifications, made, support>>
    BY DEF EmitDeleted, IInv, LocalShape, ShapeOf
  <1>1. PICK s \in Request, u \in User : s = req[r].target /\ u = req[r].user
    BY <1>0 DEF IInv, LocalShape, ShapeOf
  <1>2. PICK new \in Event : /\ new = [channel |-> u, id |-> s, by |-> r]
                             /\ events' = events \cup {new}
    BY <1>1 DEF EmitDeleted, Event
  <1>3. /\ req' \in [Request -> RequestState] /\ Others(r)
        /\ req'[r].pc = "done" /\ req'[r].op = "delete" /\ req'[r].user = u
    BY <1>0, <1>1, AnswerEffect
  <1>a. TypeOK
    BY DEF IInv
  <1>4. TypeOK'
    BY <1>0, <1>2, <1>3, <1>a DEF TypeOK
  <1>5. \A q \in Request, w \in User : MadeFor(q, w) => MadeFor(q, w)'
    BY <1>0, <1>3 DEF MadeFor, Others
  <1>6. MadeFor(s, u) /\ notifications[s] = None /\ \A e \in events : e.id # s
    BY <1>0, <1>1 DEF IInv, RowOrigin, DeletedOnce
  <1>7. LocalShape'
    <2>1. ShapeOf(r)'
      BY <1>3 DEF ShapeOf
    <2>2. ASSUME NEW q \in Request, q # r PROVE ShapeOf(q)'
      BY <1>0, <1>3, <2>2 DEF IInv, LocalShape, ShapeOf, Others
    <2> QED BY <2>1, <2>2 DEF LocalShape
  <1>8. RowOrigin'
    <2>1. ASSUME NEW q \in Request, notifications'[q] # None
          PROVE  MadeFor(q, notifications[q].receiver)'
      <3>1. PICK w \in User : w = notifications[q].receiver /\ w = notifications'[q].receiver
        BY <1>0, <1>a, <2>1 DEF TypeOK, Notification
      <3>2. MadeFor(q, w)
        BY <1>0, <2>1, <3>1 DEF IInv, RowOrigin
      <3> QED BY <1>5, <3>1, <3>2 DEF MadeFor
    <2>2. ASSUME NEW q \in Request, req'[q].pc \in {"write", "emit"}
          PROVE  MadeFor(req[q].target, req[q].user)'
      <3>1. req[q].pc \in {"write", "emit"} /\ req'[q] = req[q]
        BY <1>3, <2>2 DEF Others
      <3>2. PICK t \in Request, w \in User : t = req[q].target /\ w = req[q].user
        BY <3>1 DEF IInv, LocalShape, ShapeOf
      <3>3. MadeFor(t, w)
        BY <3>1, <3>2 DEF IInv, RowOrigin
      <3> QED BY <1>5, <3>1, <3>2, <3>3 DEF MadeFor
    <2>3. ASSUME NEW e \in events' PROVE MadeFor(e.id, e.channel)'
      <3>1. PICK t \in Request, w \in User : t = e.id /\ w = e.channel
        BY <1>4 DEF TypeOK, Event
      <3>2. MadeFor(t, w)
        BY <1>2, <1>6, <3>1 DEF IInv, RowOrigin
      <3> QED BY <1>5, <3>1, <3>2 DEF MadeFor
    <2> QED BY <2>1, <2>2, <2>3 DEF RowOrigin
  <1>9. DeletedOnce'
    <2>1. ASSUME NEW q \in Request, req'[q].pc = "emit"
          PROVE  /\ req[q].pc = "emit" /\ req'[q] = req[q] /\ req[q].target # s
                 /\ notifications[req[q].target] = None
                 /\ \A e \in events : e.id # req[q].target
      <3>1. q # r /\ req[q].pc = "emit" /\ req'[q] = req[q]
        BY <1>3, <2>1 DEF Others
      <3> QED BY <1>0, <1>1, <3>1 DEF IInv, DeletedOnce
    <2>2. new.id = s
      BY <1>2
    <2> QED BY <1>0, <1>2, <2>1, <2>2 DEF IInv, DeletedOnce
  <1>10. DeletionAnnouncedOnce'
    <2>1. ASSUME NEW e \in events
          PROVE  /\ notifications'[e.id] = None
                 /\ req'[e.id].op = "create" /\ req'[e.id].user = e.channel
                 /\ req'[e.by].pc = "done" /\ req'[e.by].user = e.channel
      <3>1. e.id \in Request /\ e.by \in Request /\ e.channel \in User
        BY <1>a DEF TypeOK, Event
      <3>2. /\ notifications[e.id] = None /\ req[e.by].pc = "done"
            /\ req[e.by].user = e.channel
        BY DEF IInv, DeletionAnnouncedOnce
      <3>3. MadeFor(e.id, e.channel)'
        BY <1>5, <3>1 DEF IInv, RowOrigin
      <3> QED BY <1>0, <1>3, <3>1, <3>2, <3>3 DEF MadeFor, Others
    <2>2. /\ notifications'[new.id] = None
          /\ req'[new.id].op = "create" /\ req'[new.id].user = new.channel
          /\ req'[new.by].pc = "done" /\ req'[new.by].user = new.channel
      <3>1. MadeFor(s, u)'
        BY <1>5, <1>6
      <3> QED BY <1>0, <1>2, <1>3, <1>6, <3>1 DEF MadeFor
    <2>3. \A e \in events : e.id # new.id
      BY <1>2, <1>6
    <2>4. \A e1, e2 \in events : e1.id = e2.id => e1 = e2
      BY DEF IInv, DeletionAnnouncedOnce
    <2> QED BY <1>2, <2>1, <2>2, <2>3, <2>4 DEF DeletionAnnouncedOnce
  <1> QED BY <1>4, <1>7, <1>8, <1>9, <1>10 DEF Rest

-----------------------------------------------------------------------------
(***************************************************************************)
(* The row of a new notification.                                          *)
(***************************************************************************)
LEMMA StampedType ==
  ASSUME made \in Seq(SUBSET Request), NEW r \in Request, Stamped(r)
  PROVE  made' \in Seq(SUBSET Request)
  <1>1. CASE made' = Append(made, {r})
    BY <1>1
  <1>2. CASE made # <<>> /\ made' = [made EXCEPT ![Len(made)] = @ \cup {r}]
    <2>1. Len(made) \in DOMAIN made /\ made[Len(made)] \in SUBSET Request
      BY <1>2
    <2> QED BY <1>2, <2>1
  <1> QED BY <1>1, <1>2 DEF Stamped

LEMMA InsertStep ==
  ASSUME IInv, NEW r \in Request, InsertNotification(r)
  PROVE  TypeOK' /\ Rest'
  <1>0. req[r].pc = "insert" /\ UNCHANGED <<users, support, events>>
    BY DEF InsertNotification
  <1>a. TypeOK /\ req[r].op = "create" /\ notifications[r] = None
    BY <1>0 DEF IInv, LocalShape, ShapeOf
  <1>1. PICK u \in User, w \in User : u = req[r].user /\ w = req[r].sender
    BY <1>0 DEF IInv, LocalShape, ShapeOf
  <1>2. CASE ~({u, w} \subseteq users)
    <2>1. End(r, "FAILED_INSERT") /\ UNCHANGED <<notifications, made>>
      BY <1>1, <1>2 DEF InsertNotification
    <2>2. Quiet(r)
      BY <1>0, <2>1, EndQuiet DEF Codes, NoRowComes
    <2>3. TypeOK'
      BY <1>0, <1>a, <2>1, <2>2 DEF TypeOK, Quiet
    <2> QED BY <2>2, <2>3, QuietKeepsRest
  <1>3. CASE {u, w} \subseteq users
    <2> DEFINE row == [receiver |-> u, sender |-> w, read |-> FALSE]
    <2>1. /\ notifications' = [notifications EXCEPT ![r] = row]
          /\ Stamped(r) /\ Goto(r, "mail")
      BY <1>1, <1>3 DEF InsertNotification
    <2>2. /\ req' \in [Request -> RequestState] /\ Others(r) /\ SameRequest(r)
          /\ req'[r].pc = "mail"
      BY <2>1, GotoEffect DEF Labels
    <2>3. TypeOK'
      <3>1. row \in Notification
        BY DEF Notification
      <3>2. made' \in Seq(SUBSET Request)
        BY <1>a, <2>1, StampedType DEF TypeOK
      <3> QED BY <1>0, <1>a, <2>1, <2>2, <3>1, <3>2 DEF TypeOK
    <2>4. /\ notifications'[r].receiver = u
          /\ \A q \in Request : q # r => notifications'[q] = notifications[q]
      BY <1>a, <2>1 DEF TypeOK
    <2>5. ~\E x \in User : MadeFor(r, x)
      BY <1>0 DEF MadeFor
    <2>6. \A q \in Request, x \in User : MadeFor(q, x) => q # r /\ MadeFor(q, x)'
      BY <2>2, <2>5 DEF MadeFor, Others
    <2>7. MadeFor(r, u)'
      BY <1>1, <1>a, <2>2 DEF MadeFor, SameRequest
    <2>8. LocalShape'
      <3>1. ShapeOf(r)'
        BY <1>a, <2>2 DEF ShapeOf, SameRequest
      <3>2. ASSUME NEW q \in Request, q # r PROVE ShapeOf(q)'
        BY <2>2, <2>4, <3>2 DEF IInv, LocalShape, ShapeOf, Others
      <3> QED BY <3>1, <3>2 DEF LocalShape
    <2>9. RowOrigin'
      <3>1. ASSUME NEW q \in Request, notifications'[q] # None
            PROVE  MadeFor(q, notifications[q].receiver)'
        <4>1. CASE q = r
          BY <2>4, <2>7, <4>1 DEF MadeFor
        <4>2. CASE q # r
          <5>1. PICK x \in User : /\ x = notifications[q].receiver
                                  /\ x = notifications'[q].receiver
            BY <1>a, <2>4, <3>1, <4>2 DEF TypeOK, Notification
          <5>2. MadeFor(q, x)
            BY <2>4, <3>1, <4>2, <5>1 DEF IInv, RowOrigin
          <5> QED BY <2>6, <5>1, <5>2 DEF MadeFor
        <4> QED BY <4>1, <4>2
      <3>2. ASSUME NEW q \in Request, req'[q].pc \in {"write", "emit"}
            PROVE  MadeFor(req[q].target, req[q].user)'
        <4>1. req[q].pc \in {"write", "emit"} /\ req'[q] = req[q]
          BY <2>2, <3>2 DEF Others
        <4>2. PICK t \in Request, x \in User : t = req[q].target /\ x = req[q].user
          BY <4>1 DEF IInv, LocalShape, ShapeOf
        <4>3. MadeFor(t, x)
          BY <4>1, <4>2 DEF IInv, RowOrigin
        <4> QED BY <2>6, <4>1, <4>2, <4>3 DEF MadeFor
      <3>3. ASSUME NEW e \in events' PROVE MadeFor(e.id, e.channel)'
        <4>1. PICK t \in Request, x \in User : t = e.id /\ x = e.channel
          BY <2>3 DEF TypeOK, Event
        <4>2. MadeFor(t, x)
          BY <1>0, <4>1 DEF IInv, RowOrigin
        <4> QED BY <2>6, <4>1, <4>2 DEF MadeFor
      <3> QED BY <3>1, <3>2, <3>3 DEF RowOrigin
    <2>10. ASSUME NEW q \in Request, req'[q].pc = "emit"
           PROVE  /\ req[q].pc = "emit" /\ req'[q] = req[q]
                  /\ notifications'[req[q].target] = None
                  /\ \A e \in events' : e.id # req[q].target
      <3>1. req[q].pc = "emit" /\ req'[q] = req[q]
        BY <2>2, <2>10 DEF Others
      <3>2. PICK t \in Request, x \in User : t = req[q].target /\ x = req[q].user
        BY <3>1 DEF IInv, LocalShape, ShapeOf
      <3>3. t # r
        BY <2>6, <3>1, <3>2 DEF IInv, RowOrigin
      <3> QED BY <1>0, <2>4, <3>1, <3>2, <3>3 DEF IInv, DeletedOnce
    <2>11. DeletedOnce'
      BY <2>10 DEF IInv, DeletedOnce
    <2>12. DeletionAnnouncedOnce'
      <3>1. ASSUME NEW e \in events
            PROVE  /\ notifications'[e.id] = None
                   /\ req'[e.id].op = "create" /\ req'[e.id].user = e.channel
                   /\ req'[e.by].pc = "done" /\ req'[e.by].user = e.channel
        <4>1. e.id \in Request /\ e.by \in Request /\ e.channel \in User
          BY <1>a DEF TypeOK, Event
        <4>2. /\ notifications[e.id] = None /\ req[e.by].pc = "done"
              /\ req[e.by].user = e.channel
          BY DEF IInv, DeletionAnnouncedOnce
        <4>3. e.id # r /\ MadeFor(e.id, e.channel)'
          BY <2>6, <4>1 DEF IInv, RowOrigin
        <4> QED BY <1>0, <2>2, <2>4, <4>1, <4>2, <4>3 DEF MadeFor, Others
      <3> QED BY <1>0, <3>1 DEF IInv, DeletionAnnouncedOnce
    <2> QED BY <2>3, <2>8, <2>9, <2>11, <2>12 DEF Rest
  <1> QED BY <1>2, <1>3

-----------------------------------------------------------------------------
(***************************************************************************)
(* The invariance theorem and what follows from it.                        *)
(***************************************************************************)
LEMMA StepKeeps ==
  ASSUME IInv, NEW r \in Request, Step(r)
  PROVE  TypeOK' /\ Rest'
  <1>a. TypeOK
    BY DEF IInv
  <1>1. CASE FindMany(r) \/ CountRows(r)
    <2>1. Quiet(r)
      BY <1>1, ListStepQuiet
    <2> QED BY <1>1, <1>a, <2>1, QuietKeepsRest
         DEF FindMany, CountRows, TypeOK, Quiet
  <1>2. CASE ListNotifications(r) \/ MailReceiver(r) \/ MailSupport(r)
    <2>1. /\ req[r].pc # "done" /\ Answer(r)
          /\ UNCHANGED <<users, notifications, made, support, events>>
      BY <1>2 DEF ListNotifications, MailReceiver, MailSupport
    <2>2. Quiet(r)
      BY <2>1, AnswerQuiet DEF NoRowComes
    <2> QED BY <1>a, <2>1, <2>2, QuietKeepsRest DEF TypeOK, Quiet
  <1>3. CASE FindOwn(r)
    <2>1. Quiet(r)
      BY <1>3, FindOwnQuiet
    <2> QED BY <1>3, <1>a, <2>1, QuietKeepsRest DEF FindOwn, TypeOK, Quiet
  <1>4. CASE WriteRead(r)
    <2>1. Quiet(r) /\ notifications' \in [Request -> Notification \cup {None}]
      BY <1>4, WriteReadQuiet
    <2> QED BY <1>4, <1>a, <2>1, QuietKeepsRest DEF WriteRead, TypeOK, Quiet
  <1>5. CASE FindReceiver(r)
    <2>1. /\ req[r].pc = "receiver"
          /\ UNCHANGED <<users, notifications, made, support, events>>
          /\ Goto(r, "insert") \/ End(r, "USER_NOT_FOUND")
      BY <1>5 DEF FindReceiver
    <2>2. Quiet(r)
      BY <2>1, GotoQuiet, EndQuiet DEF Labels, Codes, NoRowComes
    <2> QED BY <1>a, <2>1, <2>2, QuietKeepsRest DEF TypeOK, Quiet
  <1>6. CASE InsertSupportRequest(r)
    <2>1. /\ req[r].pc = "support.insert" /\ Goto(r, "support.mail")
          /\ support' = support \cup {r}
          /\ UNCHANGED <<users, notifications, made, events>>
      BY <1>6 DEF InsertSupportRequest
    <2>2. Quiet(r)
      BY <2>1, GotoQuiet DEF Labels
    <2> QED BY <1>a, <2>1, <2>2, QuietKeepsRest DEF TypeOK, Quiet
  <1> QED BY <1>1, <1>2, <1>3, <1>4, <1>5, <1>6,
             DeleteRowStep, EmitDeletedStep, InsertStep DEF Step

LEMMA RemoveUserKeeps ==
  ASSUME IInv, NEW u \in User, RemoveUser(u)
  PROVE  TypeOK' /\ Rest'
  <1>0. TypeOK /\ UNCHANGED <<made, support, events, req>>
    BY DEF IInv, RemoveUser
  <1>1. /\ notifications' \in [Request -> Notification \cup {None}]
        /\ \A s \in Request : \/ notifications'[s] = None
                              \/ notifications'[s] = notifications[s]
    BY <1>0 DEF RemoveUser, TypeOK
  <1>2. TypeOK'
    BY <1>0, <1>1 DEF TypeOK, RemoveUser
  <1>3. LocalShape'
    BY <1>0, <1>1 DEF IInv, LocalShape, ShapeOf
  <1>4. RowOrigin'
    <2>1. \A s \in Request :
            notifications'[s] # None => MadeFor(s, notifications[s].receiver)'
      BY <1>0, <1>1 DEF IInv, RowOrigin, MadeFor
    <2> QED BY <1>0, <2>1 DEF IInv, RowOrigin, MadeFor
  <1>5. DeletedOnce'
    <2>1. \A r \in Request : req[r].pc = "emit" => req[r].target \in Request
      BY DEF IInv, LocalShape, ShapeOf
    <2> QED BY <1>0, <1>1, <2>1 DEF IInv, DeletedOnce
  <1>6. DeletionAnnouncedOnce'
    <2>1. \A e \in events : e.id \in Request
      BY <1>0 DEF TypeOK, Event
    <2> QED BY <1>0, <1>1, <2>1 DEF IInv, DeletionAnnouncedOnce
  <1> QED BY <1>2, <1>3, <1>4, <1>5, <1>6 DEF Rest

LEMMA InitIInv == Init => IInv
  <1> SUFFICES ASSUME Init PROVE IInv
    OBVIOUS
  <1>1. PICK u \in User, s \in User :
          /\ notifications =
               [r \in Request |-> IF r \notin Earlier THEN None
                                  ELSE [receiver |-> u, sender |-> s, read |-> FALSE]]
          /\ req = [r \in Request |-> IF r \notin Earlier THEN Idle
                                      ELSE Record("create", "done", u, None, None,
                                                  FALSE, None, "OK")]
    BY DEF Init
  <1>2. /\ Idle \in RequestState
        /\ Record("create", "done", u, None, None, FALSE, None, "OK") \in RequestState
    BY RecordType DEF Idle, Operations, Labels, Codes
  <1>3. TypeOK
    <2>1. [receiver |-> u, sender |-> s, read |-> FALSE] \in Notification
      BY DEF Notification
    <2>2. made \in Seq(SUBSET Request)
      BY DEF Init
    <2> QED BY <1>1, <1>2, <2>1, <2>2 DEF Init, TypeOK
  <1>4. \A r \in Request \ Earlier :
          req[r].pc = "idle" /\ notifications[r] = None
    BY <1>1 DEF Idle, Record
  <1>5. \A r \in Earlier :
          /\ req[r].pc = "done" /\ req[r].op = "create" /\ req[r].user = u
          /\ notifications[r].receiver = u
    BY <1>1 DEF Record
  <1>6. events = {}
    BY DEF Init
  <1>7. LocalShape
    BY <1>4, <1>5 DEF LocalShape, ShapeOf
  <1>8. RowOrigin
    BY <1>4, <1>5, <1>6 DEF RowOrigin, MadeFor
  <1>9. DeletedOnce /\ DeletionAnnouncedOnce
    BY <1>4, <1>5, <1>6 DEF DeletedOnce, DeletionAnnouncedOnce
  <1> QED BY <1>3, <1>7, <1>8, <1>9 DEF IInv

(***************************************************************************)
(* Every reachable state, whatever requests overlap and whoever is         *)
(* removed meanwhile: a row and all that was found of it belong to the     *)
(* receiver its creation named, and one deletion at most takes it.         *)
(***************************************************************************)
THEOREM IInvInvariant == Spec => []IInv
  <1>1. IInv /\ [Next]_vars => IInv'
    <2> SUFFICES ASSUME IInv, [Next]_vars PROVE IInv'
      OBVIOUS
    <2>1. ASSUME NEW r \in Request, Start(r) PROVE TypeOK' /\ Rest'
      BY <2>1, StartQuiet, QuietKeepsRest
    <2>2. ASSUME NEW r \in Request, Step(r) PROVE TypeOK' /\ Rest'
      BY <2>2, StepKeeps
    <2>3. ASSUME NEW r \in Request, Fail(r) PROVE TypeOK' /\ Rest'
      <3>1. /\ req[r].pc # "done" /\ End(r, "FAILED")
            /\ UNCHANGED <<users, notifications, made, support, events>>
        BY <2>3 DEF Fail, InFlight
      <3>2. Quiet(r)
        BY <3>1, EndQuiet DEF Codes, NoRowComes
      <3> QED BY <3>1, <3>2, QuietKeepsRest DEF IInv, TypeOK, Quiet
    <2>4. ASSUME NEW u \in User, RemoveUser(u) PROVE TypeOK' /\ Rest'
      BY <2>4, RemoveUserKeeps
    <2>5. ASSUME UNCHANGED vars PROVE TypeOK' /\ Rest'
      BY <2>5 DEF vars, IInv, TypeOK, Rest, LocalShape, ShapeOf, RowOrigin, MadeFor,
                  DeletedOnce, DeletionAnnouncedOnce
    <2>6. TypeOK' /\ Rest'
      BY <2>1, <2>2, <2>3, <2>4, <2>5 DEF Next, AtRest
    <2> QED BY <2>6 DEF IInv, Rest
  <1> QED BY InitIInv, <1>1, PTL DEF Spec

\* The variables keep their types.
THEOREM TypeCorrect == Spec => []TypeOK
  <1>1. IInv => TypeOK
    BY DEF IInv
  <1> QED BY IInvInvariant, <1>1, PTL

(***************************************************************************)
(* However many requests delete one notification, one announces it, to its *)
(* receiver, and the row is gone for good (deleteNotification of the       *)
(* controller and of the service).                                         *)
(***************************************************************************)
THEOREM OneAnnouncement == Spec => []DeletionAnnouncedOnce
  <1>1. IInv => DeletionAnnouncedOnce
    BY DEF IInv
  <1> QED BY IInvInvariant, <1>1, PTL

-----------------------------------------------------------------------------
(***************************************************************************)
(* The size of a page: the rows counted from the newest createdAt on.      *)
(***************************************************************************)
\* Those of the rows that are newer than the k-th createdAt.
From(rows, k) == UNION {At(rows, j) : j \in k + 1 .. Len(made)}

Disjoint == \A i, j \in DOMAIN made : i # j => made[i] \cap made[j] = {}

LEMMA Counted ==
  ASSUME NEW rows \in SUBSET Request
  PROVE  IsFiniteSet(rows) /\ Cardinality(rows) \in Nat
  BY FS_Subset, FS_CardinalityType

LEMMA DisjointUnion ==
  ASSUME NEW A \in SUBSET Request, NEW B \in SUBSET Request, A \cap B = {}
  PROVE  Cardinality(A \cup B) = Cardinality(A) + Cardinality(B)
  <1>1. /\ IsFiniteSet(A) /\ Cardinality(A) \in Nat
        /\ IsFiniteSet(B) /\ Cardinality(B) \in Nat
    BY Counted
  <1>2. Cardinality(A \cup B) = Cardinality(A) + Cardinality(B) - Cardinality(A \cap B)
    BY <1>1, FS_Union
  <1>3. Cardinality(A \cap B) = 0
    BY FS_EmptySet
  <1> QED BY <1>1, <1>2, <1>3

\* One createdAt more.
LEMMA FromStep ==
  ASSUME made \in Seq(SUBSET Request), Disjoint, NEW rows \in SUBSET Request,
         NEW k \in 1..Len(made)
  PROVE  Cardinality(From(rows, k - 1)) =
           Cardinality(From(rows, k)) + Cardinality(At(rows, k))
  <1>1. DOMAIN made = 1..Len(made) /\ Len(made) \in Nat
    OBVIOUS
  <1>2. k..Len(made) = {k} \cup (k + 1 .. Len(made)) /\ (k - 1) + 1 = k
    BY <1>1
  <1>3. From(rows, k - 1) = From(rows, k) \cup At(rows, k)
    BY <1>2 DEF From
  <1>4. From(rows, k) \cap At(rows, k) = {}
    <2>1. ASSUME NEW j \in k + 1 .. Len(made) PROVE made[j] \cap made[k] = {}
      <3>1. j \in DOMAIN made /\ k \in DOMAIN made /\ j # k
        BY <1>1
      <3> QED BY <3>1 DEF Disjoint
    <2> QED BY <2>1 DEF From, At
  <1>5. From(rows, k) \in SUBSET Request /\ At(rows, k) \in SUBSET Request
    BY DEF From, At
  <1> QED BY <1>3, <1>4, <1>5, DisjointUnion

LEMMA PageSize ==
  ASSUME made \in Seq(SUBSET Request), Disjoint,
         NEW rows \in SUBSET Request, rows \subseteq Known,
         NEW m \in Params, NEW S \in PagesOf(rows, m)
  PROVE  Cardinality(S) = OnPage(Cardinality(rows), m)
  <1> DEFINE L == Len(made)
             N(k) == Cardinality(From(rows, k))
             C(k) == Cardinality(From(S, k))
             Bad == {d \in 0..L : C(L - d) # OnPage(N(L - d), m)}
  <1>1. DOMAIN made = 1..L /\ L \in Nat
    OBVIOUS
  <1>2. S \in SUBSET rows /\ S \in SUBSET Request
    BY DEF PagesOf
  <1>3. \A k \in 0..L : N(k) \in Nat /\ C(k) \in Nat
    <2>1. \A k \in 0..L : From(rows, k) \in SUBSET Request /\ From(S, k) \in SUBSET Request
      BY <1>2 DEF From, At
    <2> QED BY <2>1, Counted
  <1>4. 0 \notin Bad
    <2>1. L - 0 = L /\ L + 1 .. L = {}
      BY <1>1
    <2>2. From(rows, L - 0) = {} /\ From(S, L - 0) = {}
      BY <2>1 DEF From
    <2>3. N(L - 0) = 0 /\ C(L - 0) = 0
      BY <2>2, FS_EmptySet
    <2> HIDE DEF N, C
    <2>4. OnPage(0, m) = 0
      BY ParamsOffset DEF OnPage, Smaller, Larger
    <2> QED BY <2>3, <2>4
  <1>5. ASSUME NEW d \in 1..L, d \in Bad PROVE d - 1 \in Bad
    <2>1. PICK k \in 1..L : k = L - d + 1
      BY <1>1
    <2>2. L - d = k - 1 /\ L - (d - 1) = k /\ k \in 0..L /\ k - 1 \in 0..L /\ d - 1 \in 0..L
      BY <1>1, <2>1
    <2>3. /\ N(k - 1) = N(k) + Cardinality(At(rows, k))
          /\ C(k - 1) = C(k) + Cardinality(At(S, k))
      BY <1>2, FromStep
    <2>4. PICK n \in Nat, c \in Nat : n = N(k) /\ c = Cardinality(At(rows, k))
      <3>1. At(rows, k) \in SUBSET Request
        BY DEF At
      <3> QED BY <1>3, <2>2, <3>1, Counted
    <2>5. Cardinality(At(S, k)) = Taken(rows, m, k)
      <3>1. At(S, k) = S \cap made[k]
        BY DEF At
      <3> QED BY <1>1, <3>1 DEF PagesOf
    <2>6. Taken(rows, m, k) =
            Larger(0, Smaller(n + c, Offset(m) + m.perPage) - Larger(n, Offset(m)))
      BY <2>4 DEF Taken, Newer, From
    <2>7. OnPage(n + c, m) =
            OnPage(n, m) +
              Larger(0, Smaller(n + c, Offset(m) + m.perPage) - Larger(n, Offset(m)))
      <3>1. PICK o \in Nat, p \in Nat : o = Offset(m) /\ p = m.perPage
        BY ParamsOffset
      <3>2. Smaller(p, Larger(n + c - o, 0)) =
              Smaller(p, Larger(n - o, 0)) +
                Larger(0, Smaller(n + c, o + p) - Larger(n, o))
        BY DEF Larger, Smaller
      <3> QED BY <3>1, <3>2 DEF OnPage
    <2>8. C(k - 1) # OnPage(N(k - 1), m)
      BY <1>5, <2>2
    <2> HIDE DEF N, C
    <2>9. C(k) # OnPage(N(k), m)
      <3>1. OnPage(n, m) \in Int /\ C(k) \in Nat
        BY <1>3, <2>2, ParamsOffset DEF OnPage, Larger, Smaller
      <3> QED BY <2>3, <2>4, <2>5, <2>6, <2>7, <2>8, <3>1
    <2> QED BY <2>2, <2>9
  <1>6. Bad = {}
    <2>1. ASSUME Bad # {} PROVE FALSE
      <3>1. Bad \in SUBSET (0..L)
        OBVIOUS
      <3> HIDE DEF Bad
      <3>2. PICK d \in Bad : \A e \in Bad : d <= e
        BY <1>1, <2>1, <3>1, LeastNumber
      <3>3. d \in 1..L
        BY <1>1, <1>4, <3>1
      <3> QED BY <1>1, <1>5, <3>2, <3>3
    <2> QED BY <2>1
  <1>7. C(0) = OnPage(N(0), m)
    <2>1. L \in 0..L /\ L - L = 0
      BY <1>1
    <2> HIDE DEF N, C
    <2> QED BY <1>6, <2>1
  <1>8. From(rows, 0) = rows /\ From(S, 0) = S
    <2>1. \A s \in rows : \E i \in 0 + 1 .. L : s \in made[i]
      BY <1>1 DEF Known
    <2> QED BY <1>2, <2>1 DEF From, At
  <1> QED BY <1>7, <1>8

\* What a new row does to the rows of each createdAt.
LEMMA StampedRows ==
  ASSUME made \in Seq(SUBSET Request), NEW r \in Request, Stamped(r)
  PROVE  \E M \in Len(made) .. Len(made) + 1 :
           /\ DOMAIN made' = 1..M /\ Len(made') = M /\ M >= 1
           /\ \A i \in 1..Len(made) :
                \/ made'[i] = made[i]
                \/ i = M /\ made'[i] = made[i] \cup {r}
           /\ M = Len(made) + 1 => made'[M] = {r}
           /\ r \in made'[M]
  <1> DEFINE L == Len(made)
  <1>1. DOMAIN made = 1..L /\ L \in Nat /\ \A i \in 1..L : made[i] \in SUBSET Request
    OBVIOUS
  <1>2. CASE made' = Append(made, {r})
    <2>1. /\ DOMAIN made' = 1..L + 1 /\ Len(made') = L + 1
          /\ \A i \in 1..L : made'[i] = made[i]
          /\ made'[L + 1] = {r}
      BY <1>1, <1>2
    <2> QED BY <1>1, <2>1
  <1>3. CASE made # <<>> /\ made' = [made EXCEPT ![Len(made)] = @ \cup {r}]
    <2>1. L \in 1..L
      BY <1>1, <1>3
    <2>2. PICK e \in SUBSET Request : e = made[L] \cup {r}
      BY <1>1, <2>1
    <2>3. made' = [made EXCEPT ![L] = e]
      BY <1>3, <2>2
    <2>4. Len(made') = L /\ DOMAIN made' = 1..L
      BY <2>1, <2>3
    <2>5. \A i \in 1..L : made'[i] = IF i = L THEN e ELSE made[i]
      BY <1>1, <2>3
    <2> HIDE DEF L
    <2>6. L \in L .. L + 1 /\ L >= 1 /\ L # L + 1 /\ made'[L] = e
      BY <1>1, <2>1, <2>5
    <2>7. /\ L \in L .. L + 1
          /\ DOMAIN made' = 1..L /\ Len(made') = L /\ L >= 1
          /\ \A i \in 1..L :
               \/ made'[i] = made[i]
               \/ i = L /\ made'[i] = made[i] \cup {r}
          /\ L = L + 1 => made'[L] = {r}
          /\ r \in made'[L]
      BY <2>2, <2>4, <2>5, <2>6
    <2> QED BY <2>7 DEF L
  <1> QED BY <1>2, <1>3 DEF Stamped

LEMMA StampedKnown ==
  ASSUME made \in Seq(SUBSET Request), NEW r \in Request, Stamped(r)
  PROVE  Known' = Known \cup {r}
  <1>1. DOMAIN made = 1..Len(made) /\ Len(made) \in Nat
    OBVIOUS
  <1>2. PICK M \in Len(made) .. Len(made) + 1 :
           /\ DOMAIN made' = 1..M /\ Len(made') = M /\ M >= 1
           /\ \A i \in 1..Len(made) :
                \/ made'[i] = made[i]
                \/ i = M /\ made'[i] = made[i] \cup {r}
           /\ M = Len(made) + 1 => made'[M] = {r}
           /\ r \in made'[M]
    BY StampedRows
  <1>3. ASSUME NEW s \in Known' PROVE s \in Known \cup {r}
    <2>1. PICK i \in 1..M : s \in made'[i]
      BY <1>2 DEF Known
    <2>2. CASE i \in 1..Len(made)
      BY <1>1, <1>2, <2>1, <2>2 DEF Known
    <2>3. CASE i = Len(made) + 1
      BY <1>1, <1>2, <2>1, <2>3
    <2> QED BY <1>1, <1>2, <2>2, <2>3
  <1>4. ASSUME NEW s \in Known PROVE s \in Known'
    <2>1. PICK i \in 1..Len(made) : s \in made[i]
      BY <1>1 DEF Known
    <2>2. i \in 1..M /\ s \in made'[i]
      BY <1>1, <1>2, <2>1
    <2> QED BY <1>2, <2>2 DEF Known
  <1>5. r \in Known'
    <2>1. M \in 1..M
      BY <1>1, <1>2
    <2> QED BY <1>2, <2>1 DEF Known
  <1> QED BY <1>3, <1>4, <1>5

\* A row that is made later changes no page of those that were there.
LEMMA PagesKept ==
  ASSUME made \in Seq(SUBSET Request), NEW r \in Request, Stamped(r),
         NEW rows \in SUBSET Request, r \notin rows,
         NEW m \in Params, NEW S \in PagesOf(rows, m)
  PROVE  S \in PagesOf(rows, m)'
  <1> DEFINE L == Len(made)
  <1>1. DOMAIN made = 1..L /\ L \in Nat /\ \A i \in 1..L : made[i] \in SUBSET Request
    OBVIOUS
  <1>2. PICK M \in L .. L + 1 :
          /\ DOMAIN made' = 1..M /\ Len(made') = M
          /\ \A i \in 1..L : made'[i] = made[i] \/ made'[i] = made[i] \cup {r}
          /\ M = L + 1 => made'[M] = {r}
    BY StampedRows
  <1>3. S \subseteq rows /\ \A i \in 1..L : Cardinality(S \cap made[i]) = Taken(rows, m, i)
    BY <1>1 DEF PagesOf
  <1>4. \A i \in 1..L : At(rows, i)' = At(rows, i) /\ S \cap made'[i] = S \cap made[i]
    BY <1>2, <1>3 DEF At
  <1>5. M = L + 1 => At(rows, M)' = {} /\ S \cap made'[M] = {}
    BY <1>2, <1>3 DEF At
  <1>6. ASSUME NEW i \in 1..L PROVE Newer(rows, i)' = Newer(rows, i)
    <2>1. UNION {At(rows, j)' : j \in i + 1 .. M} = UNION {At(rows, j) : j \in i + 1 .. L}
      <3>1. \A j \in i + 1 .. L : j \in i + 1 .. M /\ At(rows, j)' = At(rows, j)
        BY <1>1, <1>2, <1>4
      <3>2. \A j \in i + 1 .. M : j \in i + 1 .. L \/ At(rows, j)' = {}
        BY <1>1, <1>2, <1>5
      <3> QED BY <3>1, <3>2
    <2> QED BY <1>2, <2>1 DEF Newer
  <1>7. ASSUME NEW i \in 1..L PROVE Cardinality(S \cap made'[i]) = Taken(rows, m, i)'
    <2>1. Taken(rows, m, i)' = Taken(rows, m, i)
      BY <1>4, <1>6 DEF Taken
    <2> QED BY <1>3, <1>4, <2>1
  <1>8. ASSUME M = L + 1 PROVE Cardinality(S \cap made'[M]) = Taken(rows, m, M)'
    <2>1. Cardinality(S \cap made'[M]) = 0 /\ Cardinality(At(rows, M)') = 0
      BY <1>5, <1>8, FS_EmptySet
    <2>2. M + 1 .. M = {}
      BY <1>1, <1>8
    <2>3. Newer(rows, M)' = 0
      BY <1>2, <2>2, FS_EmptySet DEF Newer
    <2>4. Taken(rows, m, M)' =
            Larger(0, Smaller(0 + 0, Offset(m) + m.perPage) - Larger(0, Offset(m)))
      BY <2>1, <2>3 DEF Taken
    <2>5. Taken(rows, m, M)' = 0
      BY <2>4, ParamsOffset DEF Larger, Smaller
    <2> QED BY <2>1, <2>5
  <1>9. \A i \in DOMAIN made' : Cardinality(S \cap made'[i]) = Taken(rows, m, i)'
    <2>1. \A i \in 1..M : i \in 1..L \/ (M = L + 1 /\ i = M)
      BY <1>1, <1>2
    <2> QED BY <1>2, <1>7, <1>8, <2>1
  <1> QED BY <1>3, <1>9 DEF PagesOf

\* Two ranges of one size overlap only if they are the same.
LEMMA RangesApart ==
  ASSUME NEW m \in Params, NEW n \in Params, m.perPage = n.perPage, m.page < n.page,
         NEW x \in Nat, Offset(n) <= x
  PROVE  Offset(m) + m.perPage <= x
  <1>1. PICK a \in Nat, b \in Nat, p \in Nat :
          a = m.page - 1 /\ b = n.page - 1 /\ p = m.perPage
    BY PaginationAssumption DEF Params
  <1>2. a + 1 <= b
    BY <1>1 DEF Params
  <1>3. (a + 1) * p <= b * p /\ (a + 1) * p \in Nat /\ b * p \in Nat
    BY <1>2, ProductMonotone
  <1>4. (a + 1) * p = a * p + p /\ a * p \in Nat
    OBVIOUS
  <1>5. Offset(m) = a * p /\ Offset(n) = b * p /\ m.perPage = p
    BY <1>1 DEF Offset
  <1> QED BY <1>3, <1>4, <1>5

\* A row that is alone in its millisecond is on the page whose range takes it.
LEMMA RowInRange ==
  ASSUME made \in Seq(SUBSET Request), NEW rows \in SUBSET Request, NoTies(rows),
         NEW m \in Params, NEW S \in PagesOf(rows, m),
         NEW i \in DOMAIN made, NEW s \in S \cap made[i]
  PROVE  /\ Newer(rows, i) \in Nat
         /\ Offset(m) <= Newer(rows, i) /\ Newer(rows, i) < Offset(m) + m.perPage
  <1>1. S \subseteq rows /\ Cardinality(S \cap made[i]) = Taken(rows, m, i)
    BY DEF PagesOf
  <1>2. At(rows, i) \in SUBSET Request /\ S \cap made[i] \subseteq At(rows, i)
    BY <1>1 DEF At
  <1>3. Cardinality(At(rows, i)) <= 1 /\ Cardinality(At(rows, i)) \in Nat
    BY <1>2, Counted DEF NoTies, At
  <1>4. Cardinality(S \cap made[i]) \in Nat /\ Cardinality(S \cap made[i]) # 0
    <2>1. S \cap made[i] \in SUBSET Request
      BY <1>2
    <2>2. IsFiniteSet(S \cap made[i]) /\ Cardinality(S \cap made[i]) \in Nat
      BY <2>1, Counted
    <2> QED BY <2>2, FS_EmptySet
  <1>5. Newer(rows, i) \in Nat
    <2>1. UNION {At(rows, j) : j \in i + 1 .. Len(made)} \in SUBSET Request
      BY DEF At
    <2> QED BY <2>1, Counted DEF Newer
  <1>6. PICK c \in Nat, n \in Nat : c = Cardinality(At(rows, i)) /\ n = Newer(rows, i)
    BY <1>3, <1>5
  <1>7. PICK a \in Nat, p \in Nat : a = Offset(m) /\ p = m.perPage
    BY ParamsOffset
  <1>8. Taken(rows, m, i) = Larger(0, Smaller(n + c, a + p) - Larger(n, a))
    BY <1>6, <1>7 DEF Taken
  <1>9. Larger(0, Smaller(n + c, a + p) - Larger(n, a)) # 0 /\ c <= 1
    BY <1>1, <1>3, <1>4, <1>6, <1>8
  <1>10. a <= n /\ n < a + p
    BY <1>9 DEF Larger, Smaller
  <1> QED BY <1>5, <1>6, <1>7, <1>10

\* Without ties, two pages of one inbox share no row.
LEMMA PagesApart ==
  ASSUME made \in Seq(SUBSET Request), NEW rows \in SUBSET Request, rows \subseteq Known,
         NoTies(rows), NEW m \in Params, NEW n \in Params,
         m.perPage = n.perPage, m.page # n.page,
         NEW S \in PagesOf(rows, m), NEW T \in PagesOf(rows, n)
  PROVE  S \cap T = {}
  <1> SUFFICES ASSUME NEW s \in S \cap T PROVE FALSE
    OBVIOUS
  <1>1. PICK i \in DOMAIN made : s \in made[i]
    BY DEF Known, PagesOf
  <1>2. PICK x \in Nat : /\ Offset(m) <= x /\ x < Offset(m) + m.perPage
                         /\ Offset(n) <= x /\ x < Offset(n) + n.perPage
    <2>1. s \in S \cap made[i] /\ s \in T \cap made[i]
      BY <1>1
    <2> QED BY <2>1, RowInRange
  <1>3. CASE m.page < n.page
    BY <1>2, <1>3, RangesApart, ParamsOffset
  <1>4. CASE n.page < m.page
    BY <1>2, <1>4, RangesApart, ParamsOffset
  <1> QED BY <1>3, <1>4, ParamsOffset

-----------------------------------------------------------------------------
(***************************************************************************)
(* PageInv, which is inductive in the states of IInv.                      *)
(***************************************************************************)
LEMMA OneMoves ==
  ASSUME IInv, NEW r \in Request, Start(r) \/ Step(r) \/ Fail(r)
  PROVE  Others(r)
  <1>1. ASSUME NEW x, req' = [req EXCEPT ![r] = x] PROVE Others(r)
    BY <1>1, ReqType DEF Others
  <1>2. ASSUME NEW s, Begin(r, s) PROVE Others(r)
    BY <1>1, <1>2 DEF Begin
  <1>3. ASSUME NEW c, End(r, c) PROVE Others(r)
    BY <1>1, <1>3 DEF End
  <1>4. ASSUME NEW l, Goto(r, l) PROVE Others(r)
    BY <1>4, ReqType DEF Goto, Others
  <1>5. CASE Start(r)
    BY <1>2, <1>5 DEF Start, NotificationRoutes, SupportRoutes,
       GetNotifications, ToggleReadStatus, DeleteNotification,
       CreateNotification, CreateSupportRequest, UpdateSupportRequestStatus
  <1>6. CASE FindMany(r) \/ CountRows(r)
    <2>1. \E v : req' = [req EXCEPT ![r].view = v]
      BY <1>6 DEF FindMany, CountRows
    <2> QED BY <2>1, ReqType DEF Others
  <1>7. CASE Fail(r)
    BY <1>3, <1>7 DEF Fail
  <1>8. CASE Step(r) /\ ~(FindMany(r) \/ CountRows(r))
    BY <1>3, <1>4, <1>8 DEF Step, ListNotifications, Answer, FindOwn, WriteRead, DeleteRow,
       EmitDeleted, FindReceiver, InsertNotification, MailReceiver,
       InsertSupportRequest, MailSupport
  <1> QED BY <1>5, <1>6, <1>7, <1>8

\* A request is as it was, or begins, or takes a step, or fails.
LEMMA Moves ==
  ASSUME IInv, [Next]_vars, NEW q \in Request
  PROVE  req'[q] = req[q] \/ Start(q) \/ Step(q) \/ Fail(q)
  <1>1. ASSUME NEW r \in Request, Start(r) \/ Step(r) \/ Fail(r)
        PROVE  req'[q] = req[q] \/ Start(q) \/ Step(q) \/ Fail(q)
    BY <1>1, OneMoves DEF Others
  <1> QED BY <1>1 DEF Next, RemoveUser, AtRest, vars

\* A row that was created for u stays one that was.
LEMMA MadeForStays ==
  ASSUME IInv, [Next]_vars, NEW s \in Request, NEW u, MadeFor(s, u)
  PROVE  MadeFor(s, u)'
  <1>0. req[s].op = "create" /\ req[s].user = u /\ req[s].pc \in {"mail", "done"}
    BY DEF MadeFor
  <1>1. CASE req'[s] = req[s]
    BY <1>1 DEF MadeFor
  <1>2. CASE Start(s)
    BY <1>0, <1>2 DEF Start, NotificationRoutes, SupportRoutes,
       GetNotifications, ToggleReadStatus, DeleteNotification,
       CreateNotification, CreateSupportRequest, UpdateSupportRequestStatus, Begin
  <1>3. CASE Step(s)
    <2>1. Answer(s)
      BY <1>0, <1>3 DEF Step, FindMany, CountRows, ListNotifications, FindOwn, WriteRead,
         DeleteRow, EmitDeleted, FindReceiver, InsertNotification, MailReceiver,
         InsertSupportRequest, MailSupport
    <2> QED BY <1>0, <2>1, AnswerEffect DEF MadeFor
  <1>4. CASE Fail(s)
    <2>1. End(s, "FAILED")
      BY <1>4 DEF Fail
    <2> QED BY <1>0, <2>1, EndEffect DEF MadeFor, Codes
  <1> QED BY <1>1, <1>2, <1>3, <1>4, Moves

\* Rows come, and createdAt moves, with an insertion and nothing else.
LEMMA Insertion ==
  ASSUME IInv, [Next]_vars
  PROVE  \/ made' = made /\ NoRowComes
         \/ \E r \in Request :
              /\ Stamped(r) /\ req[r].pc = "insert"
              /\ req'[r].pc = "mail" /\ req'[r].op = "create"
              /\ \A s \in Request \ {r} : notifications'[s] = notifications[s]
  <1>1. ASSUME notifications' = notifications PROVE NoRowComes
    BY <1>1 DEF NoRowComes
  <1>2. ASSUME NEW r \in Request, Start(r) PROVE made' = made /\ notifications' = notifications
    BY <1>2 DEF Start, NotificationRoutes, SupportRoutes,
       GetNotifications, ToggleReadStatus, DeleteNotification,
       CreateNotification, CreateSupportRequest, UpdateSupportRequestStatus
  <1>3. ASSUME NEW r \in Request, Step(r)
        PROVE  \/ made' = made /\ NoRowComes
               \/ /\ Stamped(r) /\ req[r].pc = "insert"
                  /\ req'[r].pc = "mail" /\ req'[r].op = "create"
                  /\ \A s \in Request \ {r} : notifications'[s] = notifications[s]
    <2>1. CASE InsertNotification(r)
      <3>1. req[r].pc = "insert" /\ req[r].op = "create"
        BY <2>1 DEF InsertNotification, IInv, LocalShape, ShapeOf
      <3>2. CASE ~({req[r].user, req[r].sender} \subseteq users)
        BY <1>1, <2>1, <3>2 DEF InsertNotification
      <3>3. CASE {req[r].user, req[r].sender} \subseteq users
        <4>1. /\ \E x : notifications' = [notifications EXCEPT ![r] = x]
              /\ Stamped(r) /\ Goto(r, "mail")
          BY <2>1, <3>3 DEF InsertNotification
        <4>2. \A s \in Request \ {r} : notifications'[s] = notifications[s]
          BY <4>1 DEF IInv, TypeOK
        <4> QED BY <3>1, <4>1, <4>2, GotoEffect DEF Labels, SameRequest
      <3> QED BY <3>2, <3>3
    <2>2. CASE WriteRead(r)
      <3>1. made' = made
        BY <2>2 DEF WriteRead
      <3>2. NoRowComes
        BY <2>2, WriteReadQuiet DEF Quiet
      <3> QED BY <3>1, <3>2
    <2>3. CASE DeleteRow(r)
      <3>1. /\ made' = made
            /\ \/ notifications' = notifications
               \/ notifications' = [notifications EXCEPT ![req[r].target] = None]
        BY <2>3 DEF DeleteRow
      <3> QED BY <3>1 DEF NoRowComes, IInv, TypeOK
    <2>4. CASE ~InsertNotification(r) /\ ~WriteRead(r) /\ ~DeleteRow(r)
      <3>1. made' = made /\ notifications' = notifications
        BY <1>3, <2>4 DEF Step, FindMany, CountRows, ListNotifications, FindOwn, EmitDeleted,
           FindReceiver, MailReceiver, InsertSupportRequest, MailSupport
      <3> QED BY <1>1, <3>1
    <2> QED BY <2>1, <2>2, <2>3, <2>4
  <1>4. ASSUME NEW r \in Request, Fail(r) PROVE made' = made /\ notifications' = notifications
    BY <1>4 DEF Fail
  <1>5. ASSUME NEW u \in User, RemoveUser(u) PROVE made' = made /\ NoRowComes
    BY <1>5 DEF RemoveUser, NoRowComes
  <1>6. ASSUME UNCHANGED vars PROVE made' = made /\ notifications' = notifications
    BY <1>6 DEF vars
  <1> QED BY <1>1, <1>2, <1>3, <1>4, <1>5, <1>6 DEF Next, AtRest

LEMMA DatedStep == IInv /\ PageInv /\ [Next]_vars => Dated'
  <1> SUFFICES ASSUME IInv, PageInv, [Next]_vars PROVE Dated'
    OBVIOUS
  <1>0. /\ made \in Seq(SUBSET Request) /\ Dated /\ Known \subseteq Request
        /\ DOMAIN made = 1..Len(made) /\ Len(made) \in Nat
    BY KnownRequests DEF IInv, TypeOK, PageInv
  <1>1. ASSUME NEW s \in Known PROVE req'[s].op = "create" /\ req'[s].pc \in {"mail", "done"}
    <2>1. PICK u : u = req[s].user
      OBVIOUS
    <2>2. MadeFor(s, u)
      BY <1>0, <2>1 DEF Dated, MadeFor
    <2>3. MadeFor(s, u)'
      BY <1>0, <2>2, MadeForStays
    <2> QED BY <2>3 DEF MadeFor
  <1>2. CASE made' = made /\ NoRowComes
    <2>1. Known' = Known
      BY <1>2 DEF Known
    <2> QED BY <1>0, <1>1, <1>2, <2>1 DEF Dated, NoRowComes
  <1>3. CASE \E r \in Request :
               /\ Stamped(r) /\ req[r].pc = "insert"
               /\ req'[r].pc = "mail" /\ req'[r].op = "create"
               /\ \A s \in Request \ {r} : notifications'[s] = notifications[s]
    <2>1. PICK r \in Request :
               /\ Stamped(r) /\ req[r].pc = "insert"
               /\ req'[r].pc = "mail" /\ req'[r].op = "create"
               /\ \A s \in Request \ {r} : notifications'[s] = notifications[s]
      BY <1>3
    <2>2. r \notin Known
      BY <1>0, <2>1 DEF Dated
    <2>3. Known' = Known \cup {r}
      BY <1>0, <2>1, StampedKnown
    <2>4. \A i, j \in DOMAIN made' : i # j => made'[i] \cap made'[j] = {}
      <3>1. PICK M \in Len(made) .. Len(made) + 1 :
               /\ DOMAIN made' = 1..M /\ Len(made') = M /\ M >= 1
               /\ \A i \in 1..Len(made) :
                    \/ made'[i] = made[i]
                    \/ i = M /\ made'[i] = made[i] \cup {r}
               /\ M = Len(made) + 1 => made'[M] = {r}
               /\ r \in made'[M]
        BY <1>0, <2>1, StampedRows
      <3>2. \A i \in 1..Len(made) : r \notin made[i]
        BY <1>0, <2>2 DEF Known
      <3>3. ASSUME NEW i \in 1..M, NEW j \in 1..M, i < j PROVE made'[i] \cap made'[j] = {}
        <4>1. i \in 1..Len(made) /\ i # M
          BY <1>0, <3>1, <3>3
        <4>2. made'[i] = made[i]
          BY <3>1, <4>1
        <4>3. CASE j \in 1..Len(made)
          <5>1. made[i] \cap made[j] = {}
            BY <1>0, <3>3, <4>1, <4>3 DEF Dated
          <5> QED BY <3>1, <3>2, <4>1, <4>2, <4>3, <5>1
        <4>4. CASE j = Len(made) + 1
          BY <3>1, <3>2, <4>1, <4>2, <4>4
        <4> QED BY <1>0, <3>1, <4>3, <4>4
      <3>4. ASSUME NEW i \in 1..M, NEW j \in 1..M, i # j PROVE made'[i] \cap made'[j] = {}
        <4>1. i < j \/ j < i
          BY <1>0, <3>1, <3>4
        <4> QED BY <3>3, <4>1
      <3> QED BY <3>1, <3>4
    <2> QED BY <1>0, <1>1, <2>1, <2>3, <2>4 DEF Dated
  <1> QED BY <1>2, <1>3, Insertion

\* What a listing has brought stays sound while others come and go.
LEMMA ViewKept ==
  ASSUME IInv, PageInv, [Next]_vars, NEW v, NEW u, ViewSound(v, u)
  PROVE  ViewSound(v, u)'
  <1>0. made \in Seq(SUBSET Request) /\ Dated /\ Known \subseteq Request
    BY KnownRequests DEF IInv, TypeOK, PageInv
  <1>1. v \in View /\ ("total" \notin v.left => v.total = Cardinality(v.atTotal))
    BY DEF ViewSound
  <1>2. ASSUME "items" \notin v.left
        PROVE  /\ v.items \in PagesOf(v.atItems, v.params)'
               /\ v.atItems \subseteq Known'
               /\ \A s \in v.atItems : MadeFor(s, u)'
               /\ Cardinality(v.items) = OnPage(Cardinality(v.atItems), v.params)
    <2>1. /\ v.items \in PagesOf(v.atItems, v.params)
          /\ v.atItems \subseteq Known
          /\ \A s \in v.atItems : MadeFor(s, u)
          /\ Cardinality(v.items) = OnPage(Cardinality(v.atItems), v.params)
      BY <1>2 DEF ViewSound
    <2>2. v.params \in Params /\ v.atItems \in SUBSET Request
      BY <1>1 DEF View
    <2>3. \A s \in v.atItems : MadeFor(s, u)'
      BY <2>1, <2>2, MadeForStays
    <2>4. CASE made' = made
      <3>1. PICK rows \in SUBSET Request, m \in Params :
              rows = v.atItems /\ m = v.params
        BY <2>2
      <3>2. PagesOf(rows, m)' = PagesOf(rows, m) /\ Known' = Known
        BY <2>4 DEF PagesOf, Taken, Newer, At, Known
      <3> QED BY <2>1, <2>3, <3>1, <3>2
    <2>5. CASE \E r \in Request : Stamped(r) /\ req[r].pc = "insert"
      <3>1. PICK r \in Request : Stamped(r) /\ req[r].pc = "insert"
        BY <2>5
      <3>2. r \notin v.atItems
        BY <2>1, <3>1 DEF MadeFor
      <3>3. v.items \in PagesOf(v.atItems, v.params)'
        <4>1. PICK rows \in SUBSET Request, m \in Params :
                rows = v.atItems /\ m = v.params
          BY <2>2
        <4>2. PICK S \in PagesOf(rows, m) : S = v.items
          BY <2>1, <4>1
        <4>3. S \in PagesOf(rows, m)'
          BY <1>0, <3>1, <3>2, <4>1, PagesKept
        <4> QED BY <4>1, <4>2, <4>3
      <3>4. Known \subseteq Known'
        BY <1>0, <3>1, StampedKnown
      <3> QED BY <2>1, <2>3, <3>3, <3>4
    <2> QED BY <2>4, <2>5, Insertion
  <1> QED BY <1>1, <1>2 DEF ViewSound

\* The listing of r is sound, and r under way with it or done.
ListingOf(r) ==
  req[r].op = "list" =>
    /\ ViewSound(req[r].view, req[r].user)
    /\ \/ req[r].pc = "list" /\ req[r].code = "none"
       \/ /\ req[r].pc = "done" /\ req[r].view.left = {}
          /\ req[r].view.atItems = req[r].view.atTotal

\* A listing begins with nothing brought.
LEMMA ListingStart ==
  ASSUME IInv, NEW r \in Request, Start(r)
  PROVE  ListingOf(r)'
  <1>1. ASSUME NEW s \in RequestState, Begin(r, s) PROVE req'[r] = s
    BY <1>1, BeginEffect
  <1>2. ASSUME NEW s, Begin(r, s), s.op # "list" PROVE req'[r].op # "list"
    BY <1>2, ReqType DEF Begin
  <1>3. CASE GetNotifications(r)
    <2>1. PICK u \in users, q \in Asked :
            Begin(r, IF ValidListing(q.page, q.perPage)
                     THEN Record("list", "list", u, None, None, FALSE,
                                 NoView(q.unread, normalizePagination(q.page, q.perPage)),
                                 "none")
                     ELSE Over(None, "INVALID_INPUT"))
      BY <1>3 DEF GetNotifications
    <2>2. PICK m : m = normalizePagination(q.page, q.perPage)
      OBVIOUS
    <2>3. PICK v \in View : v = NoView(q.unread, m)
      BY <2>2, NoViewType
    <2>4. CASE ValidListing(q.page, q.perPage)
      <3>1. PICK s \in RequestState :
              s = Record("list", "list", u, None, None, FALSE, v, "none")
        BY RecordType DEF Operations, Labels, Codes, IInv, TypeOK
      <3>2. Begin(r, s)
        BY <2>1, <2>2, <2>3, <2>4, <3>1
      <3>3. /\ s.pc = "list" /\ s.view = v /\ s.code = "none" /\ s.user = u
            /\ v.left = {"items", "total"}
        BY <2>3, <3>1 DEF Record, NoView
      <3>4. ViewSound(v, u)'
        BY <3>3 DEF ViewSound
      <3>5. req'[r].view = v /\ req'[r].user = u
        BY <1>1, <3>2, <3>3
      <3>6. ViewSound(req[r].view, req[r].user)'
        BY <3>4, <3>5
      <3> QED BY <1>1, <3>2, <3>3, <3>6 DEF ListingOf
    <2>5. CASE ~ValidListing(q.page, q.perPage)
      <3>1. Begin(r, Over(None, "INVALID_INPUT"))
        BY <2>1, <2>5
      <3> QED BY <1>2, <3>1 DEF Over, Record, ListingOf
    <2> QED BY <2>4, <2>5
  <1>4. CASE ~GetNotifications(r)
    <2>1. \E s : Begin(r, s) /\ s.op # "list"
      <3>1. CASE \/ ToggleReadStatus(r) \/ DeleteNotification(r) \/ CreateNotification(r)
                 \/ CreateSupportRequest(r)
        <4>1. \E o \in Operations \ {"list"} :
                \E pc, u, w, t, b, c : Begin(r, Record(o, pc, u, w, t, b, None, c))
          BY <3>1 DEF ToggleReadStatus, DeleteNotification, CreateNotification,
             CreateSupportRequest, Operations
        <4>2. ASSUME NEW o, NEW pc, NEW u, NEW w, NEW t, NEW b, NEW c
              PROVE  Record(o, pc, u, w, t, b, None, c).op = o
          BY DEF Record
        <4> QED BY <4>1, <4>2
      <3>2. CASE UpdateSupportRequestStatus(r)
        BY <3>2 DEF UpdateSupportRequestStatus, Over, Record
      <3> QED BY <1>4, <3>1, <3>2 DEF Start, NotificationRoutes, SupportRoutes
    <2> QED BY <1>2, <2>1 DEF ListingOf
  <1> QED BY <1>3, <1>4

\* An answer shows the page as it was brought, or the request is over.
LEMMA ListingEnd ==
  ASSUME IInv, PageInv, [Next]_vars, NEW r \in Request, NEW c \in Codes, End(r, c),
         c = "OK" /\ req[r].op = "list" => req[r].view.left = {}
  PROVE  ListingOf(r)'
  <1>1. req'[r] = Ended(req[r], c)
    BY ReqType DEF End
  <1>2. CASE req[r].op = "list" /\ Still(req[r]) /\ c = "OK"
    <2>1. PICK v, u : v = req[r].view /\ u = req[r].user
      OBVIOUS
    <2>2. ViewSound(v, u)'
      <3>1. ViewSound(v, u)
        BY <1>2, <2>1 DEF PageInv, ListingsSound
      <3> QED BY <3>1, ViewKept
    <2>3. v.left = {} /\ v.atItems = v.atTotal
      BY <1>2, <2>1 DEF Still
    <2>4. req'[r] = Record("list", "done", u, None, None, FALSE, v, c)
      BY <1>1, <1>2, <2>1 DEF Ended
    <2>5. req'[r].view = v /\ req'[r].user = u /\ req'[r].pc = "done"
      BY <2>4 DEF Record
    <2>6. ViewSound(req[r].view, req[r].user)'
      BY <2>2, <2>5 DEF ViewSound
    <2> QED BY <2>3, <2>5, <2>6 DEF ListingOf
  <1>3. CASE ~(req[r].op = "list" /\ Still(req[r]) /\ c = "OK")
    <2>1. req'[r].op # "list"
      BY <1>1, <1>3 DEF Ended, Still, Over, Record
    <2> QED BY <2>1 DEF ListingOf
  <1> QED BY <1>2, <1>3

\* Each of the two queries brings what its moment has.
LEMMA ListingQuery ==
  ASSUME IInv, PageInv, [Next]_vars, NEW r \in Request, FindMany(r) \/ CountRows(r)
  PROVE  ListingOf(r)'
  <1>0. /\ made \in Seq(SUBSET Request) /\ Dated /\ Disjoint
        /\ made' = made /\ notifications' = notifications
    BY DEF IInv, TypeOK, PageInv, Dated, Disjoint, FindMany, CountRows
  <1>1. req[r].pc = "list" /\ req[r].op = "list"
    BY DEF FindMany, CountRows, IInv, LocalShape, ShapeOf
  <1>2. PICK v, u : v = req[r].view /\ u = req[r].user
    OBVIOUS
  <1>3. /\ ViewSound(v, u) /\ ViewSound(v, u)' /\ v \in View /\ req[r].code = "none"
    <2>1. ViewSound(v, u) /\ req[r].code = "none"
      BY <1>1, <1>2 DEF PageInv, ListingsSound
    <2> QED BY <2>1, ViewKept DEF ViewSound
  <1>4. ASSUME NEW w \in View, req' = [req EXCEPT ![r].view = w], ViewSound(w, u)'
        PROVE  ListingOf(r)'
    <2>1. /\ req'[r].view = w /\ req'[r].user = u /\ req'[r].pc = "list"
          /\ req'[r].code = "none"
      BY <1>1, <1>2, <1>3, <1>4, ReqType DEF RequestState
    <2>2. ViewSound(req[r].view, req[r].user)'
      BY <1>4, <2>1 DEF ViewSound
    <2> QED BY <2>1, <2>2 DEF ListingOf
  <1>5. PICK rows : rows = Matching(u, v.unread)
    OBVIOUS
  <1>6. /\ rows \in SUBSET Request /\ rows \subseteq Known
        /\ \A s \in rows : MadeFor(s, u)
    BY <1>0, <1>5 DEF Matching, Dated, IInv, RowOrigin
  <1>7. rows \subseteq Known' /\ \A s \in rows : MadeFor(s, u)'
    BY <1>0, <1>6, MadeForStays DEF Known
  <1>8. CASE FindMany(r)
    <2>1. PICK S \in PagesOf(rows, v.params) :
            req' = [req EXCEPT ![r].view = WithItems(v, S, rows)]
      BY <1>2, <1>5, <1>8 DEF FindMany, FindPage
    <2>2. PICK m \in Params : m = v.params
      BY <1>3 DEF View
    <2>3. Cardinality(S) = OnPage(Cardinality(rows), m)
      BY <1>0, <1>6, <2>1, <2>2, PageSize
    <2>4. S \in PagesOf(rows, m)'
      BY <1>0, <2>1, <2>2 DEF PagesOf, Taken, Newer, At
    <2>5. PICK w : w = WithItems(v, S, rows)
      OBVIOUS
    <2>6. /\ w \in View /\ w.items = S /\ w.atItems = rows /\ w.params = m
          /\ "total" \notin w.left => "total" \notin v.left
          /\ w.total = v.total /\ w.atTotal = v.atTotal
      <3>1. S \in SUBSET Request
        BY <1>6, <2>1 DEF PagesOf
      <3> QED BY <1>3, <1>6, <2>2, <2>5, <3>1 DEF View, WithItems
    <2>7. ViewSound(w, u)'
      BY <1>3, <1>7, <2>3, <2>4, <2>6 DEF ViewSound
    <2> QED BY <1>4, <2>1, <2>5, <2>6, <2>7
  <1>9. CASE CountRows(r)
    <2>1. req' = [req EXCEPT ![r].view = WithTotal(v, rows)]
      BY <1>2, <1>5, <1>9 DEF CountRows
    <2>2. PICK w : w = WithTotal(v, rows)
      OBVIOUS
    <2>3. Cardinality(rows) \in Nat
      BY <1>6, Counted
    <2>4. /\ w \in View /\ w.items = v.items /\ w.atItems = v.atItems
          /\ w.params = v.params
          /\ "items" \notin w.left => "items" \notin v.left
          /\ w.total = Cardinality(rows) /\ w.atTotal = rows
      BY <1>3, <1>6, <2>2, <2>3 DEF View, WithTotal
    <2>5. ViewSound(w, u)'
      BY <1>3, <2>4 DEF ViewSound
    <2> QED BY <1>4, <2>1, <2>2, <2>4, <2>5
  <1> QED BY <1>8, <1>9

LEMMA ListingsSoundStep == IInv /\ PageInv /\ [Next]_vars => ListingsSound'
  <1> SUFFICES ASSUME IInv, PageInv, [Next]_vars, NEW r \in Request
               PROVE  ListingOf(r)'
    BY DEF ListingsSound, ListingOf
  <1>1. CASE req'[r] = req[r]
    <2>1. ListingOf(r)
      BY DEF PageInv, ListingsSound, ListingOf
    <2>2. PICK v, u : v = req[r].view /\ u = req[r].user
      OBVIOUS
    <2>3. ViewSound(v, u) => ViewSound(v, u)'
      BY ViewKept
    <2>4. ViewSound(req[r].view, req[r].user) => ViewSound(req[r].view, req[r].user)'
      BY <1>1, <2>2, <2>3 DEF ViewSound
    <2> QED BY <1>1, <2>1, <2>4 DEF ListingOf
  <1>2. CASE Start(r)
    BY <1>2, ListingStart
  <1>3. CASE Fail(r)
    BY <1>3, ListingEnd DEF Fail, Codes
  <1>4. CASE Step(r)
    <2>1. CASE FindMany(r) \/ CountRows(r)
      BY <2>1, ListingQuery
    <2>2. CASE ListNotifications(r)
      BY <2>2, ListingEnd DEF ListNotifications, Answer, Codes
    <2>3. CASE ~(FindMany(r) \/ CountRows(r) \/ ListNotifications(r))
      <3>1. /\ req[r].op # "list"
            /\ \/ \E l \in Labels : Goto(r, l)
               \/ \E c \in Codes : End(r, c)
        <4>1. req[r].pc \in {"find", "write", "emit", "receiver", "insert", "mail",
                             "support.insert", "support.mail"}
          BY <1>4, <2>3 DEF Step, FindOwn, WriteRead, DeleteRow, EmitDeleted, FindReceiver,
             InsertNotification, MailReceiver, InsertSupportRequest, MailSupport
        <4>2. req[r].op # "list"
          BY <4>1 DEF IInv, LocalShape, ShapeOf
        <4>3. \/ \E l \in Labels : Goto(r, l)
              \/ \E c \in Codes : End(r, c)
          BY <1>4, <2>3 DEF Step, FindOwn, WriteRead, DeleteRow, EmitDeleted, FindReceiver,
             InsertNotification, MailReceiver, InsertSupportRequest, MailSupport,
             Answer, Labels, Codes
        <4> QED BY <4>2, <4>3
      <3>2. CASE \E l \in Labels : Goto(r, l)
        BY <3>1, <3>2, GotoEffect DEF SameRequest, ListingOf
      <3>3. CASE \E c \in Codes : End(r, c)
        BY <3>1, <3>3, ListingEnd
      <3> QED BY <3>1, <3>2, <3>3
    <2> QED BY <2>1, <2>2, <2>3
  <1> QED BY <1>1, <1>2, <1>3, <1>4, Moves

LEMMA InitPageInv == Init => PageInv
  <1> SUFFICES ASSUME Init PROVE PageInv
    OBVIOUS
  <1>1. PICK u \in User, s \in User :
          /\ notifications =
               [r \in Request |-> IF r \notin Earlier THEN None
                                  ELSE [receiver |-> u, sender |-> s, read |-> FALSE]]
          /\ req = [r \in Request |-> IF r \notin Earlier THEN Idle
                                      ELSE Record("create", "done", u, None, None,
                                                  FALSE, None, "OK")]
    BY DEF Init
  <1>2. \A r \in Request : /\ r \in Earlier => req[r].op = "create" /\ req[r].pc = "done"
                           /\ r \notin Earlier => req[r].op = "none"
                           /\ r \notin Earlier => notifications[r] = None
    BY <1>1 DEF Idle, Record
  <1>3. DOMAIN made = {1} /\ made[1] = Earlier
    BY DEF Init
  <1>4. Dated
    BY <1>2, <1>3 DEF Dated, Known
  <1>5. ListingsSound
    BY <1>2 DEF ListingsSound
  <1> QED BY <1>4, <1>5 DEF PageInv

\* PageInv holds along with IInv.
LEMMA PageInvariance == Spec => []PageInv
  <1>1. IInv /\ PageInv /\ [Next]_vars => PageInv'
    BY DatedStep, ListingsSoundStep DEF PageInv
  <1> QED BY <1>1, InitPageInv, IInvInvariant, PTL DEF Spec

(***************************************************************************)
(* Whoever lists an inbox that holds still is shown rows of their own, as  *)
(* many as the number of the page and the total promise, and on no two     *)
(* pages the same: for inboxes, pages and page sizes of any size.          *)
(***************************************************************************)
THEOREM PagesAreConsistent == Spec => []PagesAgree
  <1>1. IInv /\ PageInv => PagesAgree
    <2> SUFFICES ASSUME IInv, PageInv PROVE PagesAgree
      OBVIOUS
    <2>0. made \in Seq(SUBSET Request)
      BY DEF IInv, TypeOK
    <2>1. ASSUME NEW r \in Request, Settled(r)
          PROVE  /\ ViewSound(req[r].view, req[r].user)
                 /\ req[r].view.left = {} /\ req[r].view.atItems = req[r].view.atTotal
      BY <2>1 DEF Settled, PageInv, ListingsSound
    <2>2. ASSUME NEW r \in Request, Settled(r)
          PROVE  /\ req[r].view.items \subseteq req[r].view.atItems
                 /\ \A s \in req[r].view.items : req[s].user = req[r].user
                 /\ Cardinality(req[r].view.items) = OnPage(req[r].view.total, req[r].view.params)
      <3>1. PICK v, u : v = req[r].view /\ u = req[r].user
        OBVIOUS
      <3>2. ViewSound(v, u) /\ v.left = {} /\ v.atItems = v.atTotal
        BY <2>1, <2>2, <3>1 DEF ViewSound
      <3>3. /\ v.items \in PagesOf(v.atItems, v.params)
            /\ \A s \in v.atItems : MadeFor(s, u)
            /\ Cardinality(v.items) = OnPage(v.total, v.params)
        BY <3>2 DEF ViewSound
      <3> QED BY <3>1, <3>3 DEF PagesOf, MadeFor
    <2>3. ASSUME NEW q \in Request, NEW r \in Request, Settled(q), Settled(r),
                 NoTies(req[q].view.atItems), req[q].view.atItems = req[r].view.atItems,
                 req[q].view.params.perPage = req[r].view.params.perPage,
                 req[q].view.params.page # req[r].view.params.page
          PROVE  req[q].view.items \cap req[r].view.items = {}
      <3>1. PICK v, w : v = req[q].view /\ w = req[r].view
        OBVIOUS
      <3>2. /\ v \in View /\ v.items \in PagesOf(v.atItems, v.params)
            /\ v.atItems \subseteq Known
        BY <2>1, <2>3, <3>1 DEF ViewSound
      <3>3. w \in View /\ w.items \in PagesOf(v.atItems, w.params)
        BY <2>1, <2>3, <3>1 DEF ViewSound
      <3>4. PICK rows \in SUBSET Request, m \in Params, n \in Params :
              rows = v.atItems /\ m = v.params /\ n = w.params
        BY <3>2, <3>3 DEF View
      <3>5. NoTies(rows) /\ m.perPage = n.perPage /\ m.page # n.page
        BY <2>3, <3>1, <3>4 DEF NoTies
      <3>6. v.items \cap w.items = {}
        BY <2>0, <3>2, <3>3, <3>4, <3>5, PagesApart
      <3> QED BY <3>1, <3>6
    <2> QED BY <2>2, <2>3 DEF PagesAgree
  <1> QED BY <1>1, IInvInvariant, PageInvariance, PTL
=============================================================================
