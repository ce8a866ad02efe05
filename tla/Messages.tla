------------------------------ MODULE Messages ------------------------------
(***************************************************************************)
(* NotificationService with its controller, and SupportRequestService:     *)
(* what users are told, and what they tell.                                *)
(*                                                                         *)
(* Every request is a process that runs once; its actions are the          *)
(* stretches of code between two awaits.  createNotification is called by  *)
(* no route: a call of it stands for whatever part of a server would call  *)
(* it.  Rows are named after the request that created them.                *)
(***************************************************************************)
EXTENDS FiniteSets, Pagination, Sequences

CONSTANTS
    User,         \* users with a row in the users table
    Request,      \* the requests of the run, each handled once
    Earlier,      \* those that are over when it begins: each made a notification
    Removable,    \* the users somebody may delete from the database
    Admin,        \* the users with the role ADMIN
    Asked,        \* the listings clients ask for, valid or not
    None          \* no row, no user, no view

ASSUME MessagesAssumption ==
    /\ Removable \subseteq User /\ Admin \subseteq User
    /\ IsFiniteSet(Request) /\ Earlier \subseteq Request
    /\ Asked \subseteq [unread : BOOLEAN, page : Int \cup {Absent},
                        perPage : Int \cup {Absent}]
    /\ None \notin Request \cup User

VARIABLES
    users,        \* users: the rows that exist
    notifications,\* notifications: the rows, by the request that created them
    made,         \* the rows of each createdAt, oldest first
    support,      \* support_requests: the rows
    events,       \* what was emitted on the web socket, and by which request
    req           \* the local state of each request

vars == <<users, notifications, made, support, events, req>>

Notification == [receiver : User, sender : User, read : BOOLEAN]

Operations == {"none", "list", "toggle", "delete", "create", "contact"}

Labels == {"idle", "list", "find", "write", "emit", "receiver", "insert",
           "mail", "support.insert", "support.mail", "done"}

Codes == {"none", "OK", "INVALID_INPUT", "NOTIFICATION_NOT_FOUND", "NOT_FOUND",
          "USER_NOT_FOUND", "FAILED_INSERT", "FAILED"}

\* A listing: its parameters, the queries that have not come back, what they
\* brought, and which rows matched when each of them ran.
View == [unread : BOOLEAN, params : Params,
         left : SUBSET {"items", "total"}, items : SUBSET Request, total : Nat,
         atItems : SUBSET Request, atTotal : SUBSET Request]

RequestState == [op : Operations, pc : Labels,
                 user : User \cup {None},      \* who sends it, or receives
                 sender : User \cup {None},
                 target : Request \cup {None}, \* the row it is about
                 read : BOOLEAN,               \* the status a toggle writes
                 view : View \cup {None},
                 code : Codes]

Record(op, pc, u, sender, target, read, view, code) ==
    [op |-> op, pc |-> pc, user |-> u, sender |-> sender, target |-> target,
     read |-> read, view |-> view, code |-> code]

Idle == Record("none", "idle", None, None, None, FALSE, None, "none")

\* A request that is over and that nothing more is asked about.
Over(target, code) == Record("none", "done", None, None, target, FALSE, None, code)

-----------------------------------------------------------------------------
InFlight(r) == req[r].pc \notin {"idle", "done"}

Goto(r, label) == req' = [req EXCEPT ![r].pc = label]

\* No row came or went between the two queries of a listing.
Still(s) == s.op = "list" /\ s.view.atItems = s.view.atTotal

\* What is worth knowing of a request that is over: whose row it may have
\* made or deleted, and the page it showed of an inbox that held still.
Ended(s, c) ==
    IF s.op \in {"create", "delete"} \/ (Still(s) /\ c = "OK")
    THEN Record(s.op, "done", s.user, None, None, FALSE, s.view, c)
    ELSE Over(None, c)

End(r, c) == req' = [req EXCEPT ![r] = Ended(req[r], c)]
Begin(r, s) == req[r].pc = "idle" /\ req' = [req EXCEPT ![r] = s]

\* Nothing is left to do but to answer, and the answer may be lost.
Answer(r) == End(r, "OK") \/ End(r, "FAILED")

\* The ids somebody can have heard of: those of rows that were created.
Known == UNION {made[i] : i \in DOMAIN made}

\* The where clause of a listing.
Matching(u, unread) ==
    {s \in Request : /\ notifications[s] # None
                     /\ notifications[s].receiver = u
                     /\ unread => ~notifications[s].read}

-----------------------------------------------------------------------------
(***************************************************************************)
(* getNotifications.  The schema of the route refuses what is not a page   *)
(* or a size; both queries are sent together and each sees the table at a  *)
(* moment of its own.                                                      *)
(***************************************************************************)
ValidListing(page, perPage) ==
    /\ page = Absent \/ page >= 1
    /\ perPage = Absent \/ perPage \in 1..MAX_PER_PAGE

NoView(unread, params) ==
    [unread |-> unread, params |-> params, left |-> {"items", "total"},
     items |-> {}, total |-> 0, atItems |-> {}, atTotal |-> {}]

GetNotifications(r) ==
    /\ \E u \in users, q \in Asked :
         Begin(r, IF ValidListing(q.page, q.perPage)
                  THEN Record("list", "list", u, None, None, FALSE,
                              NoView(q.unread, normalizePagination(q.page, q.perPage)),
                              "none")
                  ELSE Over(None, "INVALID_INPUT"))
    /\ UNCHANGED <<users, notifications, made, support, events>>

\* The rows of one createdAt, and how many of the rows are newer than those.
At(rows, i) == made[i] \cap rows
Newer(rows, i) == Cardinality(UNION {At(rows, j) : j \in i + 1 .. Len(made)})

\* How many rows of one createdAt the range of a page takes.
Taken(rows, params, i) ==
    Larger(0, Smaller(Newer(rows, i) + Cardinality(At(rows, i)),
                      Offset(params) + params.perPage)
              - Larger(Newer(rows, i), Offset(params)))

\* Newest first; rows of one createdAt come in any order.
PagesOf(rows, params) ==
    {S \in SUBSET rows :
       \A i \in DOMAIN made : Cardinality(S \cap made[i]) = Taken(rows, params, i)}

\* Mutant: the pages are numbered from zero.
PageOffByOne(rows, params) ==
    PagesOf(rows, [params EXCEPT !.page = @ + 1])

FindPage(rows, params) == PagesOf(rows, params)

WithItems(v, S, rows) ==
    [v EXCEPT !.left = @ \ {"items"}, !.items = S, !.atItems = rows]

WithTotal(v, rows) ==
    [v EXCEPT !.left = @ \ {"total"}, !.total = Cardinality(rows), !.atTotal = rows]

FindMany(r) ==
    LET v == req[r].view
        rows == Matching(req[r].user, v.unread)
    IN /\ req[r].pc = "list" /\ "items" \in v.left
       /\ \E S \in FindPage(rows, v.params) :
            req' = [req EXCEPT ![r].view = WithItems(v, S, rows)]
       /\ UNCHANGED <<users, notifications, made, support, events>>

CountRows(r) ==
    LET v == req[r].view
        rows == Matching(req[r].user, v.unread)
    IN /\ req[r].pc = "list" /\ "total" \in v.left
       /\ req' = [req EXCEPT ![r].view = WithTotal(v, rows)]
       /\ UNCHANGED <<users, notifications, made, support, events>>

ListNotifications(r) ==
    /\ req[r].pc = "list" /\ req[r].view.left = {}
    /\ Answer(r)
    /\ UNCHANGED <<users, notifications, made, support, events>>

-----------------------------------------------------------------------------
(***************************************************************************)
(* toggleReadStatus and deleteNotification find the row for its receiver   *)
(* and then write it by its id; P2025 when it is gone.                     *)
(***************************************************************************)
ToggleReadStatus(r) ==
    /\ \E u \in users, s \in Known, read \in BOOLEAN :
         Begin(r, Record("toggle", "find", u, None, s, read, None, "none"))
    /\ UNCHANGED <<users, notifications, made, support, events>>

DeleteNotification(r) ==
    /\ \E u \in users, s \in Known :
         Begin(r, Record("delete", "find", u, None, s, FALSE, None, "none"))
    /\ UNCHANGED <<users, notifications, made, support, events>>

\* Mutant: the row is looked up by its id alone.
FoundById(s, u) == notifications[s] # None

Found(s, u) == notifications[s] # None /\ notifications[s].receiver = u

FindOwn(r) ==
    /\ req[r].pc = "find"
    /\ IF Found(req[r].target, req[r].user) THEN Goto(r, "write")
       ELSE End(r, "NOTIFICATION_NOT_FOUND")
    /\ UNCHANGED <<users, notifications, made, support, events>>

WriteRead(r) ==
    LET s == req[r].target IN
    /\ req[r].pc = "write" /\ req[r].op = "toggle"
    /\ IF notifications[s] = None THEN End(r, "NOT_FOUND") /\ UNCHANGED notifications
       ELSE /\ notifications' = [notifications EXCEPT ![s].read = req[r].read]
            /\ Answer(r)
    /\ UNCHANGED <<users, made, support, events>>

\* Mutant: deleteMany, which does not mind that there is no such row.
DeleteMany(r) ==
    LET s == req[r].target IN
    /\ req[r].pc = "write" /\ req[r].op = "delete"
    /\ notifications' = [notifications EXCEPT ![s] = None]
    /\ Goto(r, "emit")
    /\ UNCHANGED <<users, made, support, events>>

DeleteRow(r) ==
    LET s == req[r].target IN
    /\ req[r].pc = "write" /\ req[r].op = "delete"
    /\ IF notifications[s] = None THEN End(r, "NOT_FOUND") /\ UNCHANGED notifications
       ELSE /\ notifications' = [notifications EXCEPT ![s] = None]
            /\ Goto(r, "emit")
    /\ UNCHANGED <<users, made, support, events>>

\* The controller tells every client, on a channel named after the user.
EmitDeleted(r) ==
    /\ req[r].pc = "emit"
    /\ events' = events \cup {[channel |-> req[r].user, id |-> req[r].target, by |-> r]}
    /\ Answer(r)
    /\ UNCHANGED <<users, notifications, made, support>>

-----------------------------------------------------------------------------
(***************************************************************************)
(* createNotification.  getUserById may still have a copy of a user who    *)
(* was removed (UserCache); the foreign keys refuse the row then.          *)
(***************************************************************************)
CreateNotification(r) ==
    /\ \E u \in User, s \in users :
         Begin(r, Record("create", "receiver", u, s, None, FALSE, None, "none"))
    /\ UNCHANGED <<users, notifications, made, support, events>>

FindReceiver(r) ==
    /\ req[r].pc = "receiver"
    /\ \/ Goto(r, "insert")
       \/ req[r].user \notin users /\ End(r, "USER_NOT_FOUND")
    /\ UNCHANGED <<users, notifications, made, support, events>>

\* createdAt is that of an earlier row, or later than all of them.
Stamped(s) ==
    \/ made' = Append(made, {s})
    \/ /\ made # <<>>
       /\ made' = [made EXCEPT ![Len(made)] = @ \cup {s}]

\* Mutant: whether it is read is left to the database, which has no default.
InsertWithoutRead(r) ==
    /\ req[r].pc = "insert"
    /\ {req[r].user, req[r].sender} \subseteq users
    /\ notifications' = [notifications EXCEPT ![r] =
                           [receiver |-> req[r].user, sender |-> req[r].sender,
                            read |-> None]]
    /\ Stamped(r)
    /\ Goto(r, "mail")
    /\ UNCHANGED <<users, support, events>>

InsertNotification(r) ==
    /\ req[r].pc = "insert"
    /\ IF {req[r].user, req[r].sender} \subseteq users
       THEN /\ notifications' = [notifications EXCEPT ![r] =
                 [receiver |-> req[r].user, sender |-> req[r].sender, read |-> FALSE]]
            /\ Stamped(r)
            /\ Goto(r, "mail")
       ELSE End(r, "FAILED_INSERT") /\ UNCHANGED <<notifications, made>>
    /\ UNCHANGED <<users, support, events>>

\* sendEmail never throws, and nobody looks at what it returns.
MailReceiver(r) ==
    /\ req[r].pc = "mail"
    /\ Answer(r)
    /\ UNCHANGED <<users, notifications, made, support, events>>

-----------------------------------------------------------------------------
(***************************************************************************)
(* createSupportRequest needs no user: the row first, then two mails whose *)
(* fate changes nothing.                                                   *)
(***************************************************************************)
CreateSupportRequest(r) ==
    /\ Begin(r, Record("contact", "support.insert", None, None, None, FALSE, None, "none"))
    /\ UNCHANGED <<users, notifications, made, support, events>>

InsertSupportRequest(r) ==
    /\ req[r].pc = "support.insert"
    /\ support' = support \cup {r}
    /\ Goto(r, "support.mail")
    /\ UNCHANGED <<users, notifications, made, events>>

MailSupport(r) ==
    /\ req[r].pc = "support.mail"
    /\ Answer(r)
    /\ UNCHANGED <<users, notifications, made, support, events>>

(***************************************************************************)
(* The route names its parameter supportRequestId and the schema reads     *)
(* params.id, which no request has: the required key is always missing,    *)
(* and updateSupportRequestStatus is never called.                         *)
(***************************************************************************)
UpdateSupportRequestStatus(r) ==
    /\ Admin \cap users # {}
    /\ \E s \in support : Begin(r, Over(s, "INVALID_INPUT"))
    /\ UNCHANGED <<users, notifications, made, support, events>>

-----------------------------------------------------------------------------
\* A query throws, or the process stops.
Fail(r) == /\ InFlight(r)
           /\ End(r, "FAILED")
           /\ UNCHANGED <<users, notifications, made, support, events>>

\* A user is deleted from outside the program: onDelete Cascade, for both ends.
RemoveUser(u) ==
    /\ u \in users \cap Removable
    /\ users' = users \ {u}
    /\ notifications' =
         [s \in Request |->
            IF notifications[s] # None
                 /\ u \in {notifications[s].receiver, notifications[s].sender}
            THEN None ELSE notifications[s]]
    /\ UNCHANGED <<made, support, events, req>>

\* No request is left to run.
AtRest == (\A r \in Request : ~InFlight(r)) /\ UNCHANGED vars

-----------------------------------------------------------------------------
\* What the earlier requests have left: rows of one createdAt.
Init == /\ users = User
        /\ \E u \in User, s \in User :
             /\ notifications =
                  [r \in Request |-> IF r \notin Earlier THEN None
                                     ELSE [receiver |-> u, sender |-> s, read |-> FALSE]]
             /\ req = [r \in Request |-> IF r \notin Earlier THEN Idle
                                         ELSE Record("create", "done", u, None, None,
                                                     FALSE, None, "OK")]
        /\ made = <<Earlier>>
        /\ support = {}
        /\ events = {}

NotificationRoutes(r) ==
    GetNotifications(r) \/ ToggleReadStatus(r) \/ DeleteNotification(r)

SupportRoutes(r) == CreateSupportRequest(r) \/ UpdateSupportRequestStatus(r)

Start(r) == NotificationRoutes(r) \/ SupportRoutes(r) \/ CreateNotification(r)

Step(r) == \/ FindMany(r) \/ CountRows(r) \/ ListNotifications(r)
           \/ FindOwn(r) \/ WriteRead(r) \/ DeleteRow(r) \/ EmitDeleted(r)
           \/ FindReceiver(r) \/ InsertNotification(r) \/ MailReceiver(r)
           \/ InsertSupportRequest(r) \/ MailSupport(r)

Next == \/ \E r \in Request : Start(r) \/ Step(r) \/ Fail(r)
        \/ \E u \in User : RemoveUser(u)
        \/ AtRest

Spec == Init /\ [][Next]_vars

-----------------------------------------------------------------------------
Event == [channel : User, id : Request, by : Request]

TypeOK == /\ users \subseteq User
          /\ notifications \in [Request -> Notification \cup {None}]
          /\ made \in Seq(SUBSET Request)
          /\ support \subseteq Request
          /\ events \subseteq Event
          /\ req \in [Request -> RequestState]

(***************************************************************************)
(* Of the requests that delete one notification, however they overlap, one *)
(* is announced; it is announced on the channel of the one who received    *)
(* it, who asked for it, and the notification does not come back.          *)
(***************************************************************************)
DeletionAnnouncedOnce ==
    /\ \A e1, e2 \in events : e1.id = e2.id => e1 = e2
    /\ \A e \in events : /\ notifications[e.id] = None
                         /\ req[e.id].op = "create" /\ req[e.id].user = e.channel
                         /\ req[e.by].pc = "done" /\ req[e.by].user = e.channel

\* r listed the rows of an inbox that held still meanwhile.
Settled(r) == req[r].op = "list" /\ req[r].code = "OK"

NoTies(rows) == \A i \in DOMAIN made : Cardinality(made[i] \cap rows) <= 1

(***************************************************************************)
(* A page of an inbox that holds still is one of the user's own, has as    *)
(* many rows as its number and the total promise, and shares none with     *)
(* another page: who reads the pages one after the other sees every row    *)
(* once.  Two rows of the same millisecond may change places in between.   *)
(***************************************************************************)
PagesAgree ==
    /\ \A r \in Request : Settled(r) =>
         LET v == req[r].view IN
         /\ v.items \subseteq v.atItems
         /\ \A s \in v.items : req[s].user = req[r].user
         /\ Cardinality(v.items) = OnPage(v.total, v.params)
    /\ \A q, r \in Request :
         LET v == req[q].view
             w == req[r].view
         IN ( /\ Settled(q) /\ Settled(r) /\ NoTies(v.atItems)
              /\ v.atItems = w.atItems /\ v.params.perPage = w.params.perPage
              /\ v.params.page # w.params.page ) => v.items \cap w.items = {}

-----------------------------------------------------------------------------
(***************************************************************************)
(* What induction needs beside them.                                       *)
(***************************************************************************)
\* The label of a request tells its operation.
ShapeOf(r) ==
    /\ req[r].pc = "list" => req[r].view \in View /\ req[r].op = "list"
    /\ req[r].pc \in {"find", "write", "emit"} =>
         /\ req[r].op \in {"toggle", "delete"}
         /\ req[r].target \in Request /\ req[r].user \in User
    /\ req[r].pc = "emit" => req[r].op = "delete"
    /\ req[r].pc \in {"receiver", "insert"} =>
         /\ req[r].op = "create" /\ notifications[r] = None
         /\ req[r].user \in User /\ req[r].sender \in User
    /\ req[r].pc = "mail" => req[r].op = "create"
    /\ req[r].pc \in {"support.insert", "support.mail"} => req[r].op = "contact"
    /\ req[r].pc = "done" => req[r].op \in {"none", "list", "create", "delete"}

LocalShape == \A r \in Request : ShapeOf(r)

\* s was created, or is being answered, for its receiver u.
MadeFor(s, u) == /\ req[s].op = "create" /\ req[s].user = u
                 /\ req[s].pc \in {"mail", "done"}

\* A row has the receiver its creation named, and so has what was found.
RowOrigin ==
    /\ \A s \in Request :
         notifications[s] # None => MadeFor(s, notifications[s].receiver)
    /\ \A r \in Request :
         req[r].pc \in {"write", "emit"} => MadeFor(req[r].target, req[r].user)
    /\ \A e \in events : MadeFor(e.id, e.channel)

\* One request at most has deleted a row, and announces it or has done so.
DeletedOnce ==
    /\ \A r \in Request : req[r].pc = "emit" =>
         /\ notifications[req[r].target] = None
         /\ \A e \in events : e.id # req[r].target
    /\ \A q, r \in Request :
         (req[q].pc = "emit" /\ req[r].pc = "emit" /\ req[q].target = req[r].target)
           => q = r

IInv == TypeOK /\ LocalShape /\ RowOrigin /\ DeletedOnce /\ DeletionAnnouncedOnce

(***************************************************************************)
(* What PagesAgree needs on top of it.  Dated: a row gets its createdAt    *)
(* once.  ViewSound: what the first query of a listing brought is a page   *)
(* of the rows that matched when it ran, and stays one when rows are made  *)
(* later; the second has counted those that matched when it ran.           *)
(***************************************************************************)
Dated ==
    /\ \A i, j \in DOMAIN made : i # j => made[i] \cap made[j] = {}
    /\ \A s \in Known : req[s].op = "create" /\ req[s].pc \in {"mail", "done"}
    /\ \A s \in Request : notifications[s] # None => s \in Known

ViewSound(v, u) ==
    /\ v \in View
    /\ "items" \notin v.left =>
         /\ v.items \in PagesOf(v.atItems, v.params)
         /\ v.atItems \subseteq Known
         /\ \A s \in v.atItems : MadeFor(s, u)
         /\ Cardinality(v.items) = OnPage(Cardinality(v.atItems), v.params)
    /\ "total" \notin v.left => v.total = Cardinality(v.atTotal)

ListingsSound ==
    \A r \in Request : req[r].op = "list" =>
      /\ ViewSound(req[r].view, req[r].user)
      /\ \/ req[r].pc = "list" /\ req[r].code = "none"
         \/ /\ req[r].pc = "done" /\ req[r].view.left = {}
            /\ req[r].view.atItems = req[r].view.atTotal

PageInv == Dated /\ ListingsSound
=============================================================================
