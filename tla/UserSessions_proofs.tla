------------------------ MODULE UserSessions_proofs ------------------------
(***************************************************************************)
(* What TLAPS proves of UserSessions, for any number of users and of       *)
(* requests.                                                               *)
(***************************************************************************)
EXTENDS UserSessions, TLAPS

\* A token in a client's hands was signed for a user, by a request that is over.
LEMMA DeliveredUser ==
  ASSUME IInv, NEW t \in Request, Delivered(t)
  PROVE  req[t].user \in User /\ req[t].pc = "done"
  BY DEF Delivered, IInv, LocalShape

\* Every action keeps the types: what it writes is built from what it read.
LEMMA TypeStep == IInv /\ [Next]_vars => TypeOK'
  <1> SUFFICES ASSUME IInv, [Next]_vars PROVE TypeOK'
    OBVIOUS
  <1> USE NoneAssumption
  <1> USE DEF TypeOK, RequestState, Labels, Codes
  <1>1. ASSUME NEW r \in Request, NEW u \in User, NEW t \in Request \cup {None},
               NEW operation \in {"login", "refresh", "logout"},
               NEW label \in Labels, Begin(r, operation, label, u, t)
        PROVE  TypeOK'
    BY <1>1 DEF Begin, Idle, IInv
  <1>2. ASSUME NEW r \in Request, SignToken(r) PROVE TypeOK'
    BY <1>1, <1>2 DEF SignToken, IInv
  <1>3. ASSUME NEW r \in Request, RefreshToken(r) PROVE TypeOK'
    <2>1. PICK t \in Request :
            Delivered(t) /\ Begin(r, "refresh", "update.user", req[t].user, t)
      BY <1>3 DEF RefreshToken
    <2>2. req[t].user \in User
      BY <2>1, DeliveredUser
    <2> QED BY <1>1, <2>1, <2>2
  <1>3a. ASSUME NEW r \in Request, RefreshTokenExpired(r) PROVE TypeOK'
    <2>1. PICK t \in expired :
            /\ req' = [req EXCEPT ![r] =
                         [Idle EXCEPT !.op = "refresh", !.pc = "done",
                                      !.user = req[t].user, !.old = t,
                                      !.code = "SESSION_EXPIRED"]]
            /\ UNCHANGED <<users, sessions, expired>>
      BY <1>3a DEF RefreshTokenExpired
    <2>2. t \in Request /\ req[t].user \in User
      BY DeliveredUser DEF IInv, ExpiredDelivered
    <2>3. [Idle EXCEPT !.op = "refresh", !.pc = "done", !.user = req[t].user,
                       !.old = t, !.code = "SESSION_EXPIRED"] \in RequestState
      BY <2>2 DEF Idle
    <2> QED BY <2>1, <2>3 DEF IInv
  <1>4. ASSUME NEW r \in Request, Logout(r) PROVE TypeOK'
    <2>1. PICK t \in Request :
            Delivered(t) /\ Begin(r, "logout", "expire.user", req[t].user, None)
      BY <1>4 DEF Logout
    <2>2. req[t].user \in User
      BY <2>1, DeliveredUser
    <2> QED BY <1>1, <2>1, <2>2
  <1>5. ASSUME NEW r \in Request, StoreFindUser(r) PROVE TypeOK'
    BY <1>5 DEF StoreFindUser, Goto, End, IInv
  <1>6. ASSUME NEW r \in Request, StoreFindActive(r) PROVE TypeOK'
    BY <1>6 DEF StoreFindActive, ActiveSessions, Goto, GotoWith, IInv
  <1>7. ASSUME NEW r \in Request, StoreRetire(r) PROVE TypeOK'
    <2>1. req[r].row \in Request
      BY <1>7 DEF StoreRetire, IInv, HeldRow
    <2>2. sessions[req[r].row] # None
            => [sessions[req[r].row] EXCEPT !.status = "LOGGED_OUT"] \in Row
      BY <2>1 DEF IInv, Row, SessionStatus
    <2>3. CASE sessions[req[r].row] = None
      BY <1>7, <2>3 DEF StoreRetire, UpdateById, End, IInv
    <2>4. CASE sessions[req[r].row] # None
      BY <1>7, <2>1, <2>2, <2>4 DEF StoreRetire, UpdateById, Goto, IInv
    <2> QED BY <2>3, <2>4
  <1>8. ASSUME NEW r \in Request, StoreCreate(r) PROVE TypeOK'
    BY <1>8 DEF StoreCreate, GotoWith, End, IInv, Row, SessionStatus
  <1>9. ASSUME NEW r \in Request, UpdateFindUser(r) PROVE TypeOK'
    BY <1>9 DEF UpdateFindUser, Goto, End, IInv
  <1>10. ASSUME NEW r \in Request, UpdateFindActive(r) PROVE TypeOK'
    BY <1>10 DEF UpdateFindActive, ActiveSessions, GotoWith, End, IInv
  <1>11. ASSUME NEW r \in Request, UpdateWrite(r) PROVE TypeOK'
    <2>1. req[r].row \in Request
      BY <1>11 DEF UpdateWrite, IInv, HeldRow
    <2>2. sessions[req[r].row] # None
            => [sessions[req[r].row] EXCEPT !.refreshToken = r] \in Row
      BY <2>1 DEF IInv, Row
    <2>3. CASE sessions[req[r].row] = None
      BY <1>11, <2>3 DEF UpdateWrite, UpdateById, End, IInv
    <2>4. CASE sessions[req[r].row] # None
      BY <1>11, <2>1, <2>2, <2>4 DEF UpdateWrite, UpdateById, Goto, IInv
    <2> QED BY <2>3, <2>4
  <1>12. ASSUME NEW r \in Request, ExpireFindUser(r) PROVE TypeOK'
    BY <1>12 DEF ExpireFindUser, Goto, End, IInv
  <1>13. ASSUME NEW r \in Request, ExpireFindActive(r) PROVE TypeOK'
    BY <1>13 DEF ExpireFindActive, ActiveSessions, GotoWith, End, IInv
  <1>14. ASSUME NEW r \in Request, ExpireWrite(r) PROVE TypeOK'
    <2>1. req[r].row \in Request
      BY <1>14 DEF ExpireWrite, IInv, HeldRow
    <2>2. sessions[req[r].row] # None
            => [sessions[req[r].row] EXCEPT !.status = "LOGGED_OUT"] \in Row
      BY <2>1 DEF IInv, Row, SessionStatus
    <2>3. CASE sessions[req[r].row] = None
      BY <1>14, <2>3 DEF ExpireWrite, UpdateById, End, IInv
    <2>4. CASE sessions[req[r].row] # None
      BY <1>14, <2>1, <2>2, <2>4 DEF ExpireWrite, UpdateById, Goto, IInv
    <2> QED BY <2>3, <2>4
  <1>15. ASSUME NEW r \in Request, Answer(r) \/ Fail(r) PROVE TypeOK'
    BY <1>15 DEF Answer, Fail, End, IInv
  <1>16. ASSUME NEW t \in Request, ExpireToken(t) PROVE TypeOK'
    BY <1>16 DEF ExpireToken, IInv
  <1>17. ASSUME NEW u \in User, RemoveUser(u) PROVE TypeOK'
    BY <1>17 DEF RemoveUser, IInv
  <1>18. ASSUME UNCHANGED vars PROVE TypeOK'
    BY <1>18 DEF vars, IInv
  <1> QED
    BY <1>2, <1>3, <1>4, <1>5, <1>6, <1>7, <1>8, <1>9, <1>10, <1>11, <1>12,
       <1>13, <1>14, <1>15, <1>16, <1>17, <1>18, <1>3a DEF Next, Start, Step, AtRest

\* A step of a request changes the local state of no other request, and an
\* idle or finished one takes no step.
LEMMA OneRequest ==
  ASSUME IInv, NEW r \in Request, Start(r) \/ Step(r) \/ Fail(r)
  PROVE  /\ \A q \in Request \ {r} : req'[q] = req[q]
         /\ req[r].pc # "done" /\ req'[r].pc # "idle"
         /\ req[r].pc # "idle" => req'[r].op = req[r].op /\ req'[r].user = req[r].user
  <1> USE DEF IInv, TypeOK, RequestState
  <1>1. CASE SignToken(r)
    BY <1>1 DEF SignToken, Begin, Idle
  <1>2. CASE RefreshToken(r)
    BY <1>2 DEF RefreshToken, Begin, Idle
  <1>2a. CASE RefreshTokenExpired(r)
    BY <1>2a DEF RefreshTokenExpired, Idle
  <1>3. CASE Logout(r)
    BY <1>3 DEF Logout, Begin, Idle
  <1>4. CASE StoreFindUser(r) \/ UpdateFindUser(r) \/ ExpireFindUser(r)
    BY <1>4 DEF StoreFindUser, UpdateFindUser, ExpireFindUser, Goto, End
  <1>5. CASE StoreFindActive(r) \/ UpdateFindActive(r) \/ ExpireFindActive(r)
    BY <1>5 DEF StoreFindActive, UpdateFindActive, ExpireFindActive,
                Goto, GotoWith, End
  <1>6. CASE StoreRetire(r) \/ UpdateWrite(r) \/ ExpireWrite(r)
    BY <1>6 DEF StoreRetire, UpdateWrite, ExpireWrite, UpdateById, Goto, End
  <1>7. CASE StoreCreate(r)
    BY <1>7 DEF StoreCreate, GotoWith, End
  <1>8. CASE Answer(r) \/ Fail(r)
    BY <1>8 DEF Answer, Fail, InFlight, End
  <1> QED
    BY <1>1, <1>2, <1>2a, <1>3, <1>4, <1>5, <1>6, <1>7, <1>8 DEF Start, Step

\* The steps of Next, in the groups the proofs below go by.
LEMMA StepCases ==
  ASSUME [Next]_vars
  PROVE  \/ \E r \in Request : Start(r) \/ Step(r) \/ Fail(r)
         \/ UNCHANGED <<req, sessions, users>>
         \/ \E u \in User : RemoveUser(u)
  BY DEF Next, AtRest, ExpireToken, vars

\* The label of a request goes on telling its operation.
LEMMA LocalShapeStep == IInv /\ [Next]_vars => LocalShape'
  <1> SUFFICES ASSUME IInv, [Next]_vars PROVE LocalShape'
    OBVIOUS
  <1> USE NoneAssumption
  <1> USE DEF LocalShape, TypeOK, RequestState
  <1>1. ASSUME NEW r \in Request, Start(r) \/ Step(r) \/ Fail(r)
        PROVE  LocalShape'
    <2> SUFFICES /\ req'[r].pc # "idle" => req'[r].user \in User
                 /\ req'[r].pc \in {"store.user", "store.find", "store.retire",
                                    "store.create"} => req'[r].op = "login"
                 /\ req'[r].pc \in {"update.user", "update.find",
                                    "update.write"} => req'[r].op = "refresh"
                 /\ req'[r].pc \in {"expire.user", "expire.find",
                                    "expire.write"} => req'[r].op = "logout"
                 /\ req'[r].pc = "done" <=> req'[r].code # "none"
      BY <1>1, OneRequest DEF IInv
    <2>1. CASE SignToken(r)
      BY <2>1 DEF SignToken, Begin, Idle, IInv
    <2>2. CASE RefreshToken(r)
      BY <2>2, DeliveredUser DEF RefreshToken, Begin, Idle, IInv
    <2>3. CASE RefreshTokenExpired(r)
      BY <2>3, DeliveredUser DEF RefreshTokenExpired, ExpiredDelivered, Idle, IInv
    <2>4. CASE Logout(r)
      BY <2>4, DeliveredUser DEF Logout, Begin, Idle, IInv
    <2>5. CASE StoreFindUser(r) \/ UpdateFindUser(r) \/ ExpireFindUser(r)
      BY <2>5 DEF StoreFindUser, UpdateFindUser, ExpireFindUser, Goto, End, IInv
    <2>6. CASE StoreFindActive(r) \/ UpdateFindActive(r) \/ ExpireFindActive(r)
      BY <2>6 DEF StoreFindActive, UpdateFindActive, ExpireFindActive,
                  Goto, GotoWith, End, IInv
    <2>7. CASE StoreRetire(r) \/ UpdateWrite(r) \/ ExpireWrite(r)
      BY <2>7 DEF StoreRetire, UpdateWrite, ExpireWrite, UpdateById, Goto, End,
                  IInv
    <2>8. CASE StoreCreate(r)
      BY <2>8 DEF StoreCreate, GotoWith, End, IInv
    <2>9. CASE Answer(r) \/ Fail(r)
      BY <2>9 DEF Answer, Fail, InFlight, End, IInv
    <2> QED
      BY <1>1, <2>1, <2>2, <2>3, <2>4, <2>5, <2>6, <2>7, <2>8, <2>9
         DEF Start, Step
  <1>2. CASE UNCHANGED <<req, sessions, users>>
    BY <1>2 DEF IInv
  <1>3. ASSUME NEW u \in User, RemoveUser(u) PROVE LocalShape'
    BY <1>3 DEF RemoveUser, IInv
  <1> QED BY <1>1, <1>2, <1>3, StepCases

\* A token that is over was delivered, and a finished request stays as it is.
LEMMA ExpiredDeliveredStep == IInv /\ [Next]_vars => ExpiredDelivered'
  <1> SUFFICES ASSUME IInv, [Next]_vars,
                      NEW t \in expired'
               PROVE  t \in Request /\ Delivered(t)'
    BY DEF ExpiredDelivered
  <1>1. CASE t \in expired
    <2>1. t \in Request /\ Delivered(t) /\ req[t].pc = "done"
      BY <1>1, DeliveredUser DEF IInv, TypeOK, ExpiredDelivered
    <2>2. req'[t] = req[t]
      BY <2>1, StepCases, OneRequest DEF RemoveUser
    <2> QED BY <2>1, <2>2 DEF Delivered
  <1>2. CASE t \notin expired
    <2>1. ExpireToken(t) /\ t \in Request
      BY <1>2 DEF Next, AtRest, vars, Start, SignToken, Begin, RefreshToken, 
         RefreshTokenExpired, Logout, Step, StoreFindUser, StoreFindActive,
         StoreRetire, StoreCreate, UpdateFindUser, UpdateFindActive,
         UpdateWrite, ExpireFindUser, ExpireFindActive, ExpireWrite, Answer,
         Fail, ExpireToken, RemoveUser
    <2> QED BY <2>1 DEF ExpireToken, Delivered
  <1> QED BY <1>1, <1>2

\* The name of a session, once given, is kept, and so is its user.
LEMMA OpenedStays ==
  ASSUME IInv, [Next]_vars, NEW s \in Request, Opened(s)
  PROVE  /\ Opened(s)' /\ req'[s].user = req[s].user
         /\ req[s].op = "login" /\ req'[s].op = "login"
         /\ req'[s].pc \in {"answer", "done"}
  <1>1. req[s].op = "login" /\ req[s].pc \in {"answer", "done"}
    BY DEF IInv, RowOrigin
  <1>2. ASSUME Start(s) \/ Step(s) \/ Fail(s) PROVE Answer(s) \/ Fail(s)
    BY <1>1, <1>2 DEF Start, Step, SignToken, RefreshToken, RefreshTokenExpired,
       Logout, Begin, StoreFindUser, StoreFindActive, StoreRetire, StoreCreate,
       UpdateFindUser, UpdateFindActive, UpdateWrite,
       ExpireFindUser, ExpireFindActive, ExpireWrite
  <1>3. CASE Answer(s) \/ Fail(s)
    BY <1>1, <1>3 DEF Answer, Fail, End, Opened, IInv, TypeOK, RequestState
  <1>4. CASE req'[s] = req[s]
    BY <1>1, <1>4 DEF Opened
  <1> QED
    BY <1>2, <1>3, <1>4, StepCases, OneRequest DEF RemoveUser

\* A request begins with no session, and with none of its work done.
LEMMA StartLocal ==
  ASSUME IInv, NEW r \in Request, Start(r)
  PROVE  /\ req[r].pc = "idle" /\ req'[r].row = None
         /\ req'[r].pc \in {"store.user", "update.user", "expire.user", "done"}
         /\ req'[r].code \in {"none", "SESSION_EXPIRED"}
         /\ Admitted(req'[r].user)
         /\ UNCHANGED <<users, sessions>>
  <1> USE DEF IInv, TypeOK, Idle
  <1>1. CASE SignToken(r)
    BY <1>1 DEF SignToken, Begin
  <1>2. CASE RefreshToken(r)
    BY <1>2 DEF RefreshToken, Begin
  <1>3. CASE RefreshTokenExpired(r)
    BY <1>3 DEF RefreshTokenExpired
  <1>4. CASE Logout(r)
    BY <1>4 DEF Logout, Begin
  <1> QED BY <1>1, <1>2, <1>3, <1>4 DEF Start

\* Only the creation of the row gives the session of r its name: the sessions
\* that r finds are those of other requests.
LEMMA OpenedByCreate ==
  ASSUME IInv, NEW r \in Request, Start(r) \/ Step(r) \/ Fail(r),
         ~Opened(r), Opened(r)'
  PROVE  /\ StoreCreate(r) /\ req[r].user \in users
         /\ req'[r].op = "login" /\ req'[r].pc = "answer"
  <1> USE DEF IInv, TypeOK, RequestState, Opened
  <1>1. CASE Start(r)
    BY <1>1, StartLocal, NoneAssumption
  <1>2. CASE StoreCreate(r)
    BY <1>2 DEF StoreCreate, GotoWith, End, LocalShape
  <1>3. CASE StoreRetire(r) \/ UpdateWrite(r) \/ ExpireWrite(r)
    BY <1>3 DEF StoreRetire, UpdateWrite, ExpireWrite, UpdateById, Goto, End
  <1>4. CASE StoreFindActive(r) \/ UpdateFindActive(r) \/ ExpireFindActive(r)
    <2>1. r \notin ActiveSessions(req[r].user)
      BY DEF ActiveSessions, RowOrigin
    <2> QED
      BY <1>4, <2>1 DEF StoreFindActive, UpdateFindActive, ExpireFindActive,
                        Goto, GotoWith, End
  <1>5. CASE \/ StoreFindUser(r) \/ UpdateFindUser(r) \/ ExpireFindUser(r)
             \/ Answer(r) \/ Fail(r)
    BY <1>5 DEF StoreFindUser, UpdateFindUser, ExpireFindUser, Answer, Fail,
                Goto, End
  <1> QED BY <1>1, <1>2, <1>3, <1>4, <1>5 DEF Step

\* A request takes hold of sessions of its own user only.
LEMMA HeldRowStep == IInv /\ [Next]_vars => HeldRow'
  <1> SUFFICES ASSUME IInv, [Next]_vars PROVE HeldRow'
    OBVIOUS
  <1> USE NoneAssumption
  <1> DEFINE
        Holds(r) == /\ req[r].row # None => /\ Opened(req[r].row)
                                            /\ req[req[r].row].user = req[r].user
                    /\ ( \/ req[r].pc \in {"store.retire", "update.write",
                                            "expire.write"}
                         \/ /\ req[r].op = "logout"
                            /\ req[r].pc = "answer" \/ req[r].code = "OK" )
                       => req[r].row # None
  <1>0. \A r \in Request : Holds(r) 
    BY DEF IInv, HeldRow
  <1>1. ASSUME NEW r \in Request, req'[r] = req[r] PROVE Holds(r)'
    BY <1>0, <1>1, OpenedStays DEF IInv, TypeOK, RequestState
  <1>2. ASSUME NEW r \in Request, Start(r) \/ Step(r) \/ Fail(r)
        PROVE  Holds(r)'
    <2> USE DEF IInv, TypeOK, RequestState
    <2>1. ASSUME req'[r].row = req[r].row, req[r].pc # "idle", 
                 req'[r].pc \notin {"store.retire", "update.write", "expire.write"},
                 req'[r].op = "logout" /\ (req'[r].pc = "answer" \/ req'[r].code = "OK")
                   => req[r].row # None
          PROVE  Holds(r)'
      BY <1>0, <1>2, <2>1, OneRequest, OpenedStays
    <2>2. ASSUME NEW s \in ActiveSessions(req[r].user), req'[r].row = s,
                 req[r].pc # "idle"
          PROVE  Holds(r)'
      <3>1. s \in Request /\ Opened(s) /\ req[s].user = req[r].user
        BY DEF ActiveSessions, RowOrigin
      <3> QED BY <1>2, <2>2, <3>1, OneRequest, OpenedStays
    <2>3. CASE Start(r)
      BY <2>3, StartLocal
    <2>4. CASE StoreFindUser(r) \/ UpdateFindUser(r) \/ ExpireFindUser(r)
      BY <2>1, <2>4 DEF StoreFindUser, UpdateFindUser, ExpireFindUser, Goto, End,
                        LocalShape
    <2>5. CASE StoreFindActive(r) \/ UpdateFindActive(r) \/ ExpireFindActive(r)
      BY <2>1, <2>2, <2>5 DEF StoreFindActive, UpdateFindActive, ExpireFindActive,
                              Goto, GotoWith, End, LocalShape
    <2>6. CASE StoreRetire(r) \/ UpdateWrite(r) \/ ExpireWrite(r)
      BY <1>0, <2>1, <2>6 DEF StoreRetire, UpdateWrite, ExpireWrite, UpdateById,
                              Goto, End, LocalShape
    <2>7. CASE StoreCreate(r)
      BY <2>1, <2>7 DEF StoreCreate, GotoWith, End, LocalShape, Opened
    <2>8. CASE Answer(r) \/ Fail(r)
      BY <1>0, <2>1, <2>8 DEF Answer, Fail, InFlight, End, LocalShape
    <2> QED BY <1>2, <2>3, <2>4, <2>5, <2>6, <2>7, <2>8 DEF Step
  <1> QED BY <1>1, <1>2, StepCases, OneRequest DEF HeldRow, RemoveUser

\* What a step of a request does to the rows.
LEMMA RowEffect ==
  ASSUME IInv, NEW r \in Request, Start(r) \/ Step(r) \/ Fail(r)
  PROVE  /\ users' = users
         /\ \/ sessions' = sessions
            \/ /\ StoreCreate(r) /\ req[r].user \in users /\ Opened(r)'
               /\ sessions' = [sessions EXCEPT ![r] =
                                 [user |-> req[r].user, status |-> "ACTIVE",
                                  refreshToken |-> r]]
            \/ /\ StoreRetire(r) \/ ExpireWrite(r)
               /\ sessions[req[r].row] # None
               /\ sessions' = [sessions EXCEPT ![req[r].row] =
                    [sessions[req[r].row] EXCEPT !.status = "LOGGED_OUT"]]
            \/ /\ UpdateWrite(r)
               /\ sessions[req[r].row] # None
               /\ sessions' = [sessions EXCEPT ![req[r].row] =
                    [sessions[req[r].row] EXCEPT !.refreshToken = r]]
  <1>1. CASE Start(r)
    BY <1>1, StartLocal
  <1>2. CASE StoreCreate(r)
    BY <1>2 DEF StoreCreate, GotoWith, Opened, IInv, TypeOK, RequestState
  <1>3. CASE StoreRetire(r) \/ UpdateWrite(r) \/ ExpireWrite(r)
    BY <1>3 DEF StoreRetire, UpdateWrite, ExpireWrite, UpdateById
  <1>4. CASE \/ StoreFindUser(r) \/ UpdateFindUser(r) \/ ExpireFindUser(r)
             \/ StoreFindActive(r) \/ UpdateFindActive(r) \/ ExpireFindActive(r)
             \/ Answer(r) \/ Fail(r)
    BY <1>4 DEF StoreFindUser, UpdateFindUser, ExpireFindUser, StoreFindActive,
                UpdateFindActive, ExpireFindActive, Answer, Fail
  <1> QED BY <1>1, <1>2, <1>3, <1>4 DEF Step

\* No step of a request deletes a row, or gives it to another user.
LEMMA RowKept ==
  ASSUME IInv, NEW r \in Request, Start(r) \/ Step(r) \/ Fail(r),
         NEW s \in Request, sessions[s] # None
  PROVE  sessions'[s] # None /\ sessions'[s].user = sessions[s].user
  <1>1. sessions[s] \in Row /\ sessions \in [Request -> Row \cup {None}]
    BY DEF IInv, TypeOK
  <1>2. CASE sessions'[s] = sessions[s]
    BY <1>2
  <1>3. CASE StoreCreate(r) /\ s = r
    BY <1>3 DEF StoreCreate, IInv, RowOrigin
  <1>4. CASE sessions' = [sessions EXCEPT ![s] =
                           [sessions[s] EXCEPT !.status = "LOGGED_OUT"]]
    <2>1. sessions'[s] \in Row /\ sessions'[s].user = sessions[s].user
      BY <1>1, <1>4 DEF Row, SessionStatus
    <2> QED BY <2>1, NoneAssumption
  <1>5. CASE sessions' = [sessions EXCEPT ![s] =
                           [sessions[s] EXCEPT !.refreshToken = r]]
    <2>1. sessions'[s] \in Row /\ sessions'[s].user = sessions[s].user
      BY <1>1, <1>5 DEF Row
    <2> QED BY <2>1, NoneAssumption
  <1> QED BY <1>1, <1>2, <1>3, <1>4, <1>5, RowEffect

\* A row appears only by the creation of a login, for the user of the login.
LEMMA RowBorn ==
  ASSUME IInv, NEW r \in Request, Start(r) \/ Step(r) \/ Fail(r),
         NEW s \in Request, sessions[s] = None, sessions'[s] # None
  PROVE  s = r /\ StoreCreate(r) /\ sessions'[s].user = req[r].user
  <1>1. StoreCreate(r) /\ sessions' = [sessions EXCEPT ![r] =
                             [user |-> req[r].user, status |-> "ACTIVE",
                              refreshToken |-> r]]
    <2>1. ASSUME NEW x, NEW y, sessions[x] # None, sessions' = [sessions EXCEPT ![x] = y]
          PROVE  FALSE
      BY <2>1 DEF IInv, TypeOK
    <2> QED BY <2>1, RowEffect
  <1> QED BY <1>1 DEF IInv, TypeOK

\* The rows keep their owner, and store tokens of that owner.
LEMMA RowOriginStep == IInv /\ [Next]_vars => RowOrigin'
  <1> SUFFICES ASSUME IInv, [Next]_vars PROVE RowOrigin'
    OBVIOUS
  <1> USE NoneAssumption
  <1> DEFINE
        Origin(s) ==
          sessions[s] # None =>
            /\ Opened(s)
            /\ sessions[s].user = req[s].user
            /\ sessions[s].user \in users
            /\ sessions[s].status # "EXPIRED"
            /\ sessions[s].refreshToken \in Request
            /\ req[sessions[s].refreshToken].user = sessions[s].user
        Kept(s) == /\ sessions'[s].user = sessions[s].user
                   /\ sessions'[s].refreshToken = sessions[s].refreshToken
                   /\ sessions'[s].status \in {sessions[s].status, "LOGGED_OUT"}
  <1>0. \A s \in Request : Origin(s)
    BY DEF IInv, RowOrigin, TypeOK, Row
  \* A token keeps its subject.
  <1>1. \A t \in Request : req[t].user \in User => req'[t].user = req[t].user
    BY StepCases, OneRequest DEF RemoveUser, IInv, LocalShape, Idle
  <1>2. ASSUME NEW s \in Request, sessions[s] # None, Kept(s), users' = users
        PROVE  Origin(s)'
    BY <1>0, <1>1, <1>2, OpenedStays DEF IInv, TypeOK, Row
  <1>3. ASSUME NEW r \in Request, Start(r) \/ Step(r) \/ Fail(r),
               NEW s \in Request
        PROVE  Origin(s)'
    <2>1. CASE sessions' = sessions
      BY <1>2, <1>3, <2>1, RowEffect
    <2>2. CASE /\ StoreCreate(r) /\ req[r].user \in users /\ Opened(r)'
               /\ sessions' = [sessions EXCEPT ![r] =
                                 [user |-> req[r].user, status |-> "ACTIVE",
                                  refreshToken |-> r]]
      <3>1. req'[r].user = req[r].user
        BY <1>1, <2>2 DEF IInv, TypeOK
      <3>2. users' = users
        BY <1>3, RowEffect
      <3>3. CASE s = r
        BY <2>2, <3>1, <3>2, <3>3 DEF IInv, TypeOK
      <3>4. CASE s # r
        BY <1>2, <2>2, <3>2, <3>4 DEF IInv, TypeOK
      <3> QED BY <3>3, <3>4
    <2>3. CASE /\ StoreRetire(r) \/ ExpireWrite(r)
               /\ sessions[req[r].row] # None
               /\ sessions' = [sessions EXCEPT ![req[r].row] =
                    [sessions[req[r].row] EXCEPT !.status = "LOGGED_OUT"]]
      <3>1. req[r].row \in Request /\ sessions[req[r].row] \in Row
        BY <2>3 DEF IInv, TypeOK, RequestState, HeldRow, StoreRetire, ExpireWrite
      <3>2. sessions[s] # None => Kept(s)
        BY <2>3, <3>1 DEF IInv, TypeOK, Row
      <3>3. sessions[s] = None => sessions'[s] = None
        BY <2>3, <3>1 DEF IInv, TypeOK
      <3> QED BY <1>2, <1>3, <3>2, <3>3, RowEffect
    <2>4. CASE /\ UpdateWrite(r)
               /\ sessions[req[r].row] # None
               /\ sessions' = [sessions EXCEPT ![req[r].row] =
                    [sessions[req[r].row] EXCEPT !.refreshToken = r]]
      <3>1. CASE s = req[r].row
        <4>1. req[r].user = req[s].user /\ Opened(s)
          BY <2>4, <3>1 DEF IInv, HeldRow, UpdateWrite, TypeOK
        <4>2. req[r].user \in User /\ req'[r].user = req[r].user
          BY <1>1, <2>4 DEF UpdateWrite, IInv, LocalShape
        <4>3. sessions[s] \in Row /\ s \in Request
          BY <2>4, <3>1 DEF IInv, TypeOK
        <4>4. /\ sessions'[s].user = sessions[s].user
              /\ sessions'[s].status = sessions[s].status
              /\ sessions'[s].refreshToken = r
          BY <2>4, <3>1, <4>3 DEF IInv, TypeOK, Row
        <4>5. users' = users /\ Opened(s)' /\ req'[s].user = req[s].user
          BY <1>3, <4>1, OpenedStays, RowEffect
        <4>6. /\ sessions[s].user = req[s].user /\ sessions[s].user \in users
              /\ sessions[s].status # "EXPIRED"
          BY <1>0, <2>4, <3>1
        <4> QED BY <4>1, <4>2, <4>4, <4>5, <4>6
      <3>2. CASE s # req[r].row
        <4>1. sessions'[s] = sessions[s] /\ users' = users
          BY <1>3, <2>4, <3>2, RowEffect DEF IInv, TypeOK
        <4> QED BY <1>2, <4>1
      <3> QED BY <3>1, <3>2
    <2> QED BY <1>3, <2>1, <2>2, <2>3, <2>4, RowEffect
  <1>4. ASSUME NEW u \in User, RemoveUser(u), NEW s \in Request
        PROVE  Origin(s)'
    BY <1>0, <1>1, <1>4, OpenedStays DEF RemoveUser, IInv, TypeOK, Row
  <1>7. ASSUME NEW s \in Request, UNCHANGED <<req, sessions, users>>
        PROVE  Origin(s)'
    BY <1>0, <1>7 DEF Opened
  <1>5. \A s \in Request : Origin(s)'
    BY <1>3, <1>4, <1>7, StepCases
  <1>6. ASSUME NEW r \in Request, Opened(r)'
        PROVE  req'[r].op = "login" /\ req'[r].pc \in {"answer", "done"}
    <2>1. CASE req'[r] = req[r]
      BY <1>6, <2>1 DEF IInv, RowOrigin, Opened
    <2>2. CASE Start(r) \/ Step(r) \/ Fail(r)
      <3>1. CASE Opened(r)
        BY <3>1, OpenedStays
      <3>2. CASE ~Opened(r)
        BY <1>6, <2>2, <3>2, OpenedByCreate
      <3> QED BY <3>1, <3>2
    <2> QED BY <2>1, <2>2, StepCases, OneRequest DEF RemoveUser
  <1>8. ASSUME NEW s \in Request, Opened(s)', req'[s].user \in users'
        PROVE  sessions'[s] # None
    <2>1. CASE UNCHANGED <<req, sessions, users>>
      BY <1>8, <2>1 DEF IInv, RowOrigin, Opened
    <2>2. CASE \E u \in User : RemoveUser(u)
      <3>1. PICK u \in User : RemoveUser(u)
        BY <2>2
      <3>2. Opened(s) /\ req[s].user \in users /\ req[s].user # u
        BY <1>8, <3>1 DEF RemoveUser, Opened
      <3>3. sessions[s] # None /\ sessions[s].user = req[s].user
        BY <3>2 DEF IInv, RowOrigin
      <3> QED BY <3>1, <3>2, <3>3 DEF RemoveUser, IInv, TypeOK
    <2>3. ASSUME NEW r \in Request, Start(r) \/ Step(r) \/ Fail(r)
          PROVE  sessions'[s] # None
      <3>1. users' = users /\ \A x \in Request : sessions[x] # None
                                                => sessions'[x] # None
        <4>1. \A x \in Request : sessions[x] # None => sessions[x] \in Row
          BY DEF IInv, TypeOK
        <4>2. TypeOK'
          BY TypeStep
        <4>3. users' = users
          BY <2>3, RowEffect
        <4>4. ASSUME NEW x \in Request, sessions[x] # None
              PROVE  sessions'[x] # None
          BY <2>3, <4>1, <4>4, RowKept
        <4> QED BY <4>3, <4>4
      <3>2. CASE Opened(s)
        BY <1>8, <3>1, <3>2, OpenedStays DEF IInv, RowOrigin
      <3>3. CASE ~Opened(s)
        <4>1. s = r
          BY <1>8, <2>3, <3>3, OneRequest DEF Opened
        <4>2. StoreCreate(r) /\ req[r].user \in users
          BY <1>8, <2>3, <3>3, <4>1, OpenedByCreate
        <4>3. [user |-> req[r].user, status |-> "ACTIVE", refreshToken |-> r] \in Row
          BY <4>2 DEF Row, SessionStatus, IInv, TypeOK
        <4> QED BY <4>1, <4>2, <4>3 DEF StoreCreate, IInv, TypeOK
      <3> QED BY <3>2, <3>3
    <2> QED BY <2>1, <2>2, <2>3, StepCases
  <1> QED BY <1>5, <1>6, <1>8 DEF RowOrigin

\* No write of another request reopens a session a logout has closed.
LEMMA LogoutSticksStep == IInv /\ [Next]_vars => LogoutSticks'
  <1> SUFFICES ASSUME IInv, [Next]_vars,
                      NEW q \in Request, req'[q].op = "logout",
                      req'[q].pc = "answer" \/ req'[q].code = "OK"
               PROVE  \/ sessions'[req'[q].row] = None
                      \/ sessions'[req'[q].row].status = "LOGGED_OUT"
    BY DEF LogoutSticks
  <1> DEFINE Closed(s) == sessions[s] = None \/ sessions[s].status = "LOGGED_OUT"
  \* A closed session stays closed.
  <1>1. ASSUME NEW s \in Request, Opened(s), Closed(s) PROVE Closed(s)'
    <2>1. CASE UNCHANGED <<req, sessions, users>> \/ \E u \in User : RemoveUser(u)
      BY <1>1, <2>1 DEF RemoveUser, IInv, TypeOK
    <2>2. ASSUME NEW r \in Request, Start(r) \/ Step(r) \/ Fail(r)
          PROVE  Closed(s)'
      <3>1. StoreCreate(r) => s # r
        BY <1>1 DEF IInv, RowOrigin, StoreCreate
      <3>2. StoreRetire(r) \/ ExpireWrite(r) \/ UpdateWrite(r)
              => req[r].row \in Request
        BY DEF IInv, TypeOK, RequestState, HeldRow, StoreRetire, ExpireWrite,
               UpdateWrite
      <3>3. \A x \in Request : sessions[x] # None => sessions[x] \in Row
        BY DEF IInv, TypeOK
      <3>4. CASE sessions'[s] = sessions[s]
        BY <1>1, <3>4
      <3>5. CASE StoreCreate(r) /\ sessions' = [sessions EXCEPT ![r] =
                                 [user |-> req[r].user, status |-> "ACTIVE",
                                  refreshToken |-> r]]
        BY <1>1, <3>1, <3>5 DEF IInv, TypeOK
      <3>6. CASE /\ sessions[req[r].row] # None /\ req[r].row \in Request
                 /\ sessions' = [sessions EXCEPT ![req[r].row] =
                      [sessions[req[r].row] EXCEPT !.status = "LOGGED_OUT"]]
        BY <1>1, <3>3, <3>6 DEF IInv, TypeOK, Row
      <3>7. CASE /\ sessions[req[r].row] # None /\ req[r].row \in Request
                 /\ sessions' = [sessions EXCEPT ![req[r].row] =
                      [sessions[req[r].row] EXCEPT !.refreshToken = r]]
        BY <1>1, <3>3, <3>7 DEF IInv, TypeOK, Row
      <3> QED BY <2>2, <3>2, <3>4, <3>5, <3>6, <3>7, RowEffect
    <2> QED BY <1>1, <2>1, <2>2, StepCases
  <1>2. CASE req'[q] = req[q]
    BY <1>1, <1>2 DEF IInv, LogoutSticks, HeldRow, TypeOK, RequestState
  <1>3. CASE Start(q) \/ Step(q) \/ Fail(q)
    <2>1. CASE Start(q)
      BY <2>1, StartLocal
    <2>2. CASE ExpireWrite(q)
      <3>1. req[q].row \in Request
        BY <2>2 DEF ExpireWrite, HeldRow, IInv, TypeOK, RequestState
      <3>2. req'[q].row = req[q].row
        BY <2>2 DEF ExpireWrite, UpdateById, Goto, End, IInv, TypeOK, RequestState
      <3>3. CASE sessions[req[q].row] = None
        BY <2>2, <3>2, <3>3 DEF ExpireWrite, UpdateById
      <3>4. CASE sessions[req[q].row] # None
        BY <2>2, <3>1, <3>2, <3>4 DEF ExpireWrite, UpdateById, IInv, TypeOK, Row
      <3> QED BY <3>3, <3>4
    <2>3. CASE Answer(q)
      <3>1. req[q].op = "logout" /\ req'[q].row = req[q].row
        BY <2>3 DEF Answer, End, IInv, TypeOK, RequestState
      <3>2. req[q].row \in Request /\ Opened(req[q].row) /\ Closed(req[q].row)
        BY <2>3, <3>1 DEF Answer, IInv, LogoutSticks, HeldRow, TypeOK, RequestState
      <3> QED BY <1>1, <3>1, <3>2
    <2>4. CASE \/ StoreFindUser(q) \/ StoreFindActive(q) \/ StoreRetire(q)
               \/ StoreCreate(q) \/ UpdateFindUser(q) \/ UpdateFindActive(q)
               \/ UpdateWrite(q)
      BY <2>4, OneRequest DEF StoreFindUser, StoreFindActive, StoreRetire,
         StoreCreate, UpdateFindUser, UpdateFindActive, UpdateWrite, IInv,
         LocalShape, Step
    <2>5. CASE ExpireFindUser(q) \/ ExpireFindActive(q) \/ Fail(q)
      BY <2>5 DEF ExpireFindUser, ExpireFindActive, Fail, InFlight, Goto,
         GotoWith, End, IInv, LocalShape, TypeOK, RequestState
    <2> QED BY <1>3, <2>1, <2>2, <2>3, <2>4, <2>5 DEF Step
  <1> QED BY <1>2, <1>3, StepCases, OneRequest DEF RemoveUser

\* The invariant holds of the empty table.
LEMMA InitIInv == Init => IInv
  BY NoneAssumption
     DEF Init, IInv, TypeOK, RequestState, Labels, Codes, Idle, LocalShape,
         ExpiredDelivered, HeldRow, RowOrigin, Opened, LogoutSticks

\* The invariant is inductive.
LEMMA Invariance == Spec => []IInv
  <1>1. IInv /\ [Next]_vars => IInv'
    BY TypeStep, LocalShapeStep, ExpiredDeliveredStep, HeldRowStep,
       RowOriginStep, LogoutSticksStep DEF IInv
  <1> QED BY <1>1, InitIInv, PTL DEF Spec

(***************************************************************************)
(* Every variable has its type in every reachable state.                   *)
(***************************************************************************)
THEOREM TypeCorrect == Spec => []TypeOK
  BY Invariance, PTL DEF IInv

(***************************************************************************)
(* Requests of different users never touch each other's sessions, however  *)
(* many of them run.                                                       *)
(***************************************************************************)
THEOREM Isolation == Spec => []UserIsolation
  <1>1. IInv => UserIsolation
    BY DEF IInv, HeldRow, RowOrigin, UserIsolation, TypeOK, RequestState
  <1> QED BY <1>1, Invariance, PTL

(***************************************************************************)
(* A session that a logout closed is never written back to life.           *)
(***************************************************************************)
THEOREM LogoutFinal == Spec => []LogoutSticks
  BY Invariance, PTL DEF IInv

-----------------------------------------------------------------------------
(***************************************************************************)
(* The sessions of one user, seen from the steps of the requests.          *)
(***************************************************************************)
LEMMA ActiveUnchanged ==
  ASSUME IInv, NEW r \in Request, Start(r) \/ Step(r) \/ Fail(r), NEW u \in User,
         req[r].user # u \/ ~(StoreRetire(r) \/ StoreCreate(r) \/ ExpireWrite(r))
  PROVE  ActiveSessions(u)' = ActiveSessions(u)
  <1>1. ASSUME sessions' = sessions PROVE ActiveSessions(u)' = ActiveSessions(u)
    BY <1>1 DEF ActiveSessions
  <1>2. \A s \in Request : sessions[s] # None => sessions[s] \in Row
    BY DEF IInv, TypeOK
  <1>3. CASE StoreCreate(r) /\ req[r].user # u
             /\ sessions' = [sessions EXCEPT ![r] =
                              [user |-> req[r].user, status |-> "ACTIVE",
                               refreshToken |-> r]]
    <2>1. sessions[r] = None
      BY <1>3 DEF IInv, RowOrigin, StoreCreate
    <2> QED BY <1>3, <2>1 DEF ActiveSessions, IInv, TypeOK
  <1>4. StoreRetire(r) \/ UpdateWrite(r) \/ ExpireWrite(r)
          => req[r].row \in Request
             /\ (sessions[req[r].row] # None
                   => sessions[req[r].row].user = req[r].user)
    BY DEF StoreRetire, UpdateWrite, ExpireWrite, IInv, TypeOK, RequestState,
           HeldRow, RowOrigin
  <1>5. CASE /\ StoreRetire(r) \/ ExpireWrite(r)
             /\ sessions[req[r].row] # None
             /\ sessions' = [sessions EXCEPT ![req[r].row] =
                  [sessions[req[r].row] EXCEPT !.status = "LOGGED_OUT"]]
    BY <1>2, <1>4, <1>5 DEF ActiveSessions, IInv, TypeOK, Row
  <1>6. CASE /\ UpdateWrite(r)
             /\ sessions[req[r].row] # None
             /\ sessions' = [sessions EXCEPT ![req[r].row] =
                  [sessions[req[r].row] EXCEPT !.refreshToken = r]]
    <2> DEFINE x == req[r].row
    <2>1. \A s \in Request \ {x} : sessions'[s] = sessions[s]
      BY <1>4, <1>6 DEF IInv, TypeOK
    <2>2. /\ x \in Request /\ sessions[x] \in Row /\ sessions'[x] # None
          /\ sessions'[x].user = sessions[x].user
          /\ sessions'[x].status = sessions[x].status
      BY <1>2, <1>4, <1>6, NoneAssumption DEF IInv, TypeOK, Row
    <2> QED BY <1>6, <2>1, <2>2 DEF ActiveSessions
  <1> QED BY <1>1, <1>3, <1>5, <1>6, RowEffect

\* Closing the session r found takes that one away, and no other.
LEMMA ActiveClosed ==
  ASSUME IInv, NEW r \in Request, StoreRetire(r) \/ ExpireWrite(r)
  PROVE  ActiveSessions(req[r].user)' = ActiveSessions(req[r].user) \ {req[r].row}
  <1>1. /\ req[r].row \in Request
        /\ \A s \in Request : sessions[s] # None => sessions[s] \in Row
    BY DEF StoreRetire, ExpireWrite, IInv, TypeOK, RequestState, HeldRow
  <1>2. req[r].user = req'[r].user
    BY OneRequest DEF Step, StoreRetire, ExpireWrite
  <1>3. CASE sessions[req[r].row] = None
    BY <1>1, <1>2, <1>3 DEF StoreRetire, ExpireWrite, UpdateById, ActiveSessions
  <1>4. CASE sessions[req[r].row] # None
    <2>1. sessions' = [sessions EXCEPT ![req[r].row] =
                        [sessions[req[r].row] EXCEPT !.status = "LOGGED_OUT"]]
      BY <1>4 DEF StoreRetire, ExpireWrite, UpdateById
    <2> QED BY <1>1, <1>2, <2>1 DEF ActiveSessions, IInv, TypeOK, Row
  <1> QED BY <1>3, <1>4

\* Creating the row of r adds r to its user's ACTIVE sessions, and nothing else.
LEMMA ActiveCreated ==
  ASSUME IInv, NEW r \in Request, StoreCreate(r)
  PROVE  /\ req'[r].user = req[r].user
         /\ ActiveSessions(req[r].user)' =
              IF req[r].user \in users THEN ActiveSessions(req[r].user) \cup {r}
                                       ELSE ActiveSessions(req[r].user)
  <1>1. req'[r].user = req[r].user
    BY OneRequest DEF Step, StoreCreate
  <1>2. CASE req[r].user \in users
    <2>1. sessions' = [sessions EXCEPT ![r] =
                        [user |-> req[r].user, status |-> "ACTIVE",
                         refreshToken |-> r]]
      BY <1>2 DEF StoreCreate
    <2>2. [user |-> req[r].user, status |-> "ACTIVE", refreshToken |-> r] \in Row
      BY <1>2 DEF Row, SessionStatus, IInv, TypeOK
    <2>3. sessions'[r] # None /\ sessions'[r].user = req[r].user
          /\ sessions'[r].status = "ACTIVE"
      BY <2>1, <2>2, NoneAssumption DEF IInv, TypeOK
    <2>4. \A s \in Request \ {r} : sessions'[s] = sessions[s]
      BY <2>1 DEF IInv, TypeOK
    <2> QED BY <1>1, <1>2, <2>3, <2>4 DEF ActiveSessions
  <1>3. CASE req[r].user \notin users
    BY <1>1, <1>3 DEF StoreCreate, ActiveSessions
  <1> QED BY <1>1, <1>2, <1>3

\* A request that is before a write now was so before, or has just taken the
\* step of the code that leads there.
LEMMA Arrival ==
  ASSUME IInv, NEW r \in Request, Start(r) \/ Step(r) \/ Fail(r)
  PROVE  /\ req'[r].pc = "store.create" =>
              \/ StoreFindActive(r) /\ ActiveSessions(req[r].user) = {}
              \/ StoreRetire(r)
         /\ req'[r].pc \in {"store.retire", "expire.write"} =>
              /\ StoreFindActive(r) \/ ExpireFindActive(r)
              /\ req'[r].row \in ActiveSessions(req[r].user)
         /\ InFlight(r)' => Start(r) \/ InFlight(r)
  <1> USE DEF IInv, TypeOK, RequestState, InFlight
  <1>1. CASE Start(r)
    BY <1>1, StartLocal
  <1>2. CASE StoreFindUser(r) \/ UpdateFindUser(r) \/ ExpireFindUser(r)
    BY <1>2 DEF StoreFindUser, UpdateFindUser, ExpireFindUser, Goto, End
  <1>3. CASE StoreFindActive(r) \/ UpdateFindActive(r) \/ ExpireFindActive(r)
    BY <1>3 DEF StoreFindActive, UpdateFindActive, ExpireFindActive,
                Goto, GotoWith, End
  <1>4. CASE StoreRetire(r) \/ UpdateWrite(r) \/ ExpireWrite(r)
    BY <1>4 DEF StoreRetire, UpdateWrite, ExpireWrite, UpdateById, Goto, End
  <1>5. CASE StoreCreate(r)
    BY <1>5 DEF StoreCreate, GotoWith, End
  <1>6. CASE Answer(r) \/ Fail(r)
    BY <1>6 DEF Answer, Fail, End
  <1> QED BY <1>1, <1>2, <1>3, <1>4, <1>5, <1>6 DEF Step

\* A request that is over takes no step.
LEMMA StartOrInFlight ==
  ASSUME NEW r \in Request, Start(r) \/ Step(r) \/ Fail(r)
  PROVE  Start(r) \/ InFlight(r)
  BY DEF InFlight, Step, Fail, StoreFindUser, StoreFindActive, StoreRetire,
         StoreCreate, UpdateFindUser, UpdateFindActive, UpdateWrite,
         ExpireFindUser, ExpireFindActive, ExpireWrite, Answer

\* With one request of a calm user at a time, what was read stays true until the write.
LEMMA CalmStep ==
  ASSUME IInv, CalmInv, [Next]_vars
  PROVE  CalmInv'
  <1> DEFINE
        Alone == \A q, r \in Request :
                   ( InFlight(q) /\ InFlight(r) /\ req[q].user = req[r].user
                     /\ req[r].user \in Calm ) => q = r
        AtCreate(q) == (req[q].pc = "store.create" /\ req[q].user \in Calm)
                         => ActiveSessions(req[q].user) = {}
        AtClose(q) == ( req[q].pc \in {"store.retire", "expire.write"}
                        /\ req[q].user \in Calm )
                        => ActiveSessions(req[q].user) \subseteq {req[q].row}
        Single(u) == \A s1, s2 \in ActiveSessions(u) : s1 = s2
  <1>0. /\ Alone
        /\ \A q \in Request : AtCreate(q) /\ AtClose(q)
        /\ \A u \in Calm : Single(u)
    BY DEF CalmInv, CalmSingleSession
  <1>1. CASE UNCHANGED <<req, sessions, users>>
    BY <1>1 DEF CalmInv, CalmSingleSession, ActiveSessions, InFlight
  <1>2. CASE \E u \in User : RemoveUser(u)
    <2>1. req' = req
      BY <1>2 DEF RemoveUser
    <2>2. \A s \in Request : sessions'[s] # None => sessions'[s] = sessions[s]
      BY <1>2 DEF RemoveUser, IInv, TypeOK
    <2>3. ASSUME NEW u PROVE ActiveSessions(u)' \subseteq ActiveSessions(u)
      BY <2>2 DEF ActiveSessions
    <2>4. Alone'
      BY <1>0, <2>1 DEF InFlight
    <2>5. ASSUME NEW q \in Request PROVE AtCreate(q)' /\ AtClose(q)'
      <3>1. ActiveSessions(req[q].user)' \subseteq ActiveSessions(req[q].user)
        BY <2>1, <2>2 DEF ActiveSessions
      <3> QED BY <1>0, <2>1, <3>1
    <2>6. ASSUME NEW u \in Calm PROVE Single(u)'
      BY <1>0, <2>3
    <2> QED BY <2>4, <2>5, <2>6 DEF CalmInv, CalmSingleSession
  <1>3. ASSUME NEW r \in Request, Start(r) \/ Step(r) \/ Fail(r)
        PROVE  CalmInv'
    <2>1. \A q \in Request \ {r} : req'[q] = req[q]
      BY <1>3, OneRequest
    <2>2. InFlight(r)' /\ req'[r].user \in Calm =>
              \A q \in Request \ {r} : InFlight(q) => req[q].user # req'[r].user
      <3>1. CASE Start(r)
        BY <3>1, StartLocal DEF Admitted
      <3>2. CASE InFlight(r)
        BY <1>0, <1>3, <3>2, OneRequest DEF InFlight
      <3> QED BY <1>3, <3>1, <3>2, Arrival
    <2>3. Alone'
      BY <1>0, <2>1, <2>2 DEF InFlight
    <2>4. ASSUME NEW u \in User, req[r].user # u \/ Start(r)
          PROVE  ActiveSessions(u)' = ActiveSessions(u)
      <3>1. Start(r) => ~(StoreRetire(r) \/ StoreCreate(r) \/ ExpireWrite(r))
        BY StartLocal DEF StoreRetire, StoreCreate, ExpireWrite
      <3> QED BY <1>3, <2>4, <3>1, ActiveUnchanged
    <2>5. ASSUME NEW q \in Request, q # r PROVE AtCreate(q)' /\ AtClose(q)'
      <3>1. SUFFICES ASSUME req[q].pc \in {"store.create", "store.retire",
                                          "expire.write"},
                            req[q].user \in Calm
                     PROVE  ActiveSessions(req[q].user)' = ActiveSessions(req[q].user)
        BY <1>0, <2>1, <2>5 DEF ActiveSessions
      <3>2. req[q].user \in User /\ InFlight(q) /\ req'[q] = req[q]
        BY <2>1, <2>5, <3>1 DEF IInv, LocalShape, InFlight
      <3>3. Start(r) \/ req[q].user # req[r].user
        BY <1>0, <1>3, <2>5, <3>1, <3>2, StartOrInFlight
      <3> QED BY <2>4, <3>2, <3>3 DEF ActiveSessions
    <2>6. req[r].pc # "idle" => req'[r].user = req[r].user /\ req[r].user \in User
      BY <1>3, OneRequest DEF IInv, LocalShape
    <2>7. AtCreate(r)'
      <3> SUFFICES ASSUME req'[r].pc = "store.create", req'[r].user \in Calm
                   PROVE  ActiveSessions(req[r].user)' = {} /\ req[r].pc # "idle"
        BY <2>6 DEF ActiveSessions
      <3>1. CASE StoreFindActive(r) /\ ActiveSessions(req[r].user) = {}
        BY <3>1 DEF StoreFindActive, ActiveSessions, IInv, TypeOK, RequestState,
                    Goto, GotoWith
      <3>2. CASE StoreRetire(r)
        <4>0. req[r].user \in Calm
          BY <2>6, <3>2 DEF StoreRetire
        <4>1. ActiveSessions(req[r].user) \subseteq {req[r].row}
          BY <1>0, <3>2, <4>0 DEF StoreRetire
        <4> QED BY <3>2, <4>1, ActiveClosed DEF StoreRetire
      <3> QED BY <1>3, <3>1, <3>2, Arrival
    <2>8. AtClose(r)'
      <3> SUFFICES ASSUME req'[r].pc \in {"store.retire", "expire.write"},
                          req'[r].user \in Calm
                   PROVE  /\ ActiveSessions(req[r].user)' \subseteq {req'[r].row}
                          /\ req[r].pc # "idle"
        BY <2>6 DEF ActiveSessions
      <3>1. /\ StoreFindActive(r) \/ ExpireFindActive(r)
            /\ req'[r].row \in ActiveSessions(req[r].user)
        BY <1>3, Arrival
      <3>2. req[r].pc \in {"store.find", "expire.find"} /\ sessions' = sessions
        BY <3>1 DEF StoreFindActive, ExpireFindActive
      <3>3. req[r].user \in User /\ req'[r].user = req[r].user
        BY <2>6, <3>2
      <3> QED BY <1>0, <3>1, <3>2, <3>3 DEF ActiveSessions
    <2>9. ASSUME NEW u \in Calm PROVE Single(u)'
      <3>1. CASE ActiveSessions(u)' = ActiveSessions(u)
        BY <1>0, <3>1
      <3>2. CASE StoreCreate(r) /\ req[r].user = u
        <4>1. ActiveSessions(u) = {}
          BY <1>0, <3>2 DEF StoreCreate
        <4>2. ActiveSessions(u)' \subseteq {r}
          BY <2>6, <3>2, <4>1, ActiveCreated DEF ActiveSessions
        <4> QED BY <4>2
      <3>3. CASE (StoreRetire(r) \/ ExpireWrite(r)) /\ req[r].user = u
        <4>1. ActiveSessions(u)' \subseteq ActiveSessions(u)
          BY <2>6, <3>3, ActiveClosed DEF ActiveSessions, StoreRetire, ExpireWrite
        <4> QED BY <1>0, <4>1
      <3> QED BY <1>3, <3>1, <3>2, <3>3, ActiveUnchanged, CalmAssumption
    <2> QED BY <2>3, <2>5, <2>7, <2>8, <2>9 DEF CalmInv, CalmSingleSession
  <1> QED BY <1>1, <1>2, <1>3, StepCases

(***************************************************************************)
(* When a user's requests come one at a time, the user never has two       *)
(* ACTIVE sessions: failed requests, expired tokens and deleted users      *)
(* included, and whatever the requests of other users do meanwhile.        *)
(***************************************************************************)
THEOREM CalmUserOneSession == Spec => []CalmSingleSession
  <1>1. Init => CalmInv
    BY NoneAssumption DEF Init, Idle, CalmInv, CalmSingleSession,
                          ActiveSessions, InFlight
  <1>2. IInv /\ CalmInv /\ [Next]_vars => CalmInv'
    BY CalmStep
  <1>3. CalmInv => CalmSingleSession
    BY DEF CalmInv
  <1> QED BY <1>1, <1>2, <1>3, Invariance, PTL DEF Spec

(***************************************************************************)
(* And then a logout that closes a session leaves its user with none.      *)
(***************************************************************************)
THEOREM CalmUserLogout == Spec => CalmLogoutClosesAll
  <1>1. Init => CalmInv
    BY NoneAssumption DEF Init, Idle, CalmInv, CalmSingleSession,
                          ActiveSessions, InFlight
  <1>2. IInv /\ CalmInv /\ [Next]_vars => CalmInv'
    BY CalmStep
  <1>3. ASSUME IInv, CalmInv, [Next]_vars, NEW r \in Request,
               req[r].user \in Calm, req[r].pc = "expire.write", req'[r].pc = "answer"
        PROVE  ActiveSessions(req[r].user)' = {}
    <2>1. ExpireWrite(r)
      <3>1. Start(r) \/ Step(r) \/ Fail(r)
        BY <1>3, StepCases, OneRequest DEF RemoveUser
      <3>2. ~Start(r)
        BY <1>3, StartLocal
      <3>3. ~Fail(r)
        BY <1>3 DEF Fail, End, IInv, TypeOK, RequestState
      <3> QED
        BY <1>3, <3>1, <3>2, <3>3
           DEF Step, StoreFindUser, StoreFindActive, StoreRetire, StoreCreate,
               UpdateFindUser, UpdateFindActive, UpdateWrite, ExpireFindUser,
               ExpireFindActive, Answer
    <2>2. ActiveSessions(req[r].user) \subseteq {req[r].row}
      BY <1>3 DEF CalmInv
    <2> QED BY <1>3, <2>1, <2>2, ActiveClosed
  <1>4. IInv /\ CalmInv /\ [Next]_vars
          => [\A r \in Request :
                ( req[r].user \in Calm /\ req[r].pc = "expire.write"
                  /\ req'[r].pc = "answer" )
                  => ActiveSessions(req[r].user)' = {}]_vars
    BY <1>3
  <1> QED
    BY <1>1, <1>2, <1>4, Invariance, PTL DEF Spec, CalmLogoutClosesAll

-----------------------------------------------------------------------------
\* A login that retires a session goes on to create its own, or fails.
LEMMA NoLockoutStep ==
  ASSUME IInv, NoLockout, [Next]_vars
  PROVE  NoLockout'
  <1> DEFINE
        Quiet(u) == \A q \in Request : req[q].user = u =>
                      /\ req[q].op # "logout"
                      /\ ~(req[q].op = "login" /\ req[q].code = "FAILED"
                                               /\ ~Opened(q))
        HasRow(u) == \E s \in Request : sessions[s] # None /\ sessions[s].user = u
        Pending(u) == \E q \in Request :
                        req[q].pc = "store.create" /\ req[q].user = u
        Safe(u) == ActiveSessions(u) # {} \/ Pending(u)
  <1> SUFFICES ASSUME NEW u \in User, HasRow(u)', Quiet(u)'
               PROVE  Safe(u)'
    BY DEF NoLockout
  <1>1. CASE UNCHANGED <<req, sessions, users>>
    BY <1>1 DEF NoLockout, Opened, ActiveSessions
  <1>2. ASSUME NEW v \in User, RemoveUser(v) PROVE Safe(u)'
    <2>1. u # v
      BY <1>2 DEF RemoveUser, IInv, TypeOK
    <2>2. /\ req' = req
          /\ \A s \in Request : (sessions[s] # None /\ sessions[s].user = u)
                                  => sessions'[s] = sessions[s]
          /\ \A s \in Request : sessions'[s] # None => sessions'[s] = sessions[s]
      BY <1>2, <2>1 DEF RemoveUser, IInv, TypeOK
    <2>3. HasRow(u) /\ Quiet(u)
      BY <2>2 DEF Opened
    <2>4. Safe(u)
      BY <2>3 DEF NoLockout
    <2> QED BY <2>2, <2>4 DEF ActiveSessions
  <1>3. ASSUME NEW r \in Request, Start(r) \/ Step(r) \/ Fail(r)
        PROVE  Safe(u)'
    <2>1. \A q \in Request \ {r} : req'[q] = req[q]
      BY <1>3, OneRequest
    <2>2. req[r].pc # "idle" => req'[r].op = req[r].op /\ req'[r].user = req[r].user
      BY <1>3, OneRequest
    <2>3. Quiet(u)
      <3> SUFFICES ASSUME req[r].user = u
                   PROVE  /\ req[r].op # "logout"
                          /\ ~(req[r].op = "login" /\ req[r].code = "FAILED"
                                                   /\ ~Opened(r))
        BY <2>1 DEF Opened
      <3>1. req[r].pc # "idle" /\ req[r].pc # "done"
        BY <1>3, OneRequest, NoneAssumption DEF IInv, LocalShape, Idle
      <3> QED BY <2>2, <3>1 DEF IInv, LocalShape
    <2>4. CASE StoreCreate(r) /\ req[r].user = u
      <3>1. u \in users
        <4>1. users' = users
          BY <1>3, RowEffect
        <4>2. RowOrigin'
          BY RowOriginStep
        <4> QED BY <4>1, <4>2 DEF RowOrigin
      <3> QED BY <2>4, <3>1, ActiveCreated DEF ActiveSessions
    <2>5. CASE StoreRetire(r) /\ req[r].user = u
      <3>1. CASE sessions[req[r].row] = None
        <4>1. req[r].row \in Request
          BY <2>5 DEF StoreRetire, IInv, HeldRow, TypeOK, RequestState
        <4>2. u \notin users
          BY <2>5, <3>1, <4>1, NoneAssumption DEF IInv, HeldRow, RowOrigin
        <4>3. u \in users'
          BY RowOriginStep DEF RowOrigin
        <4> QED BY <1>3, <4>2, <4>3, RowEffect
      <3>2. CASE sessions[req[r].row] # None
        <4>1. req'[r].pc = "store.create" /\ req'[r].user = u
          BY <2>2, <2>5, <3>2 DEF StoreRetire, UpdateById, Goto, IInv, TypeOK,
             RequestState
        <4> QED BY <4>1
      <3> QED BY <3>1, <3>2
    <2>6. ~ExpireWrite(r) \/ req[r].user # u
      BY <2>3 DEF ExpireWrite, IInv, LocalShape
    <2>7. CASE req[r].user # u \/ ~(StoreRetire(r) \/ StoreCreate(r))
      <3>1. ActiveSessions(u)' = ActiveSessions(u)
        BY <1>3, <2>6, <2>7, ActiveUnchanged
      <3>2. HasRow(u)
        <4>1. PICK s \in Request : sessions'[s] # None /\ sessions'[s].user = u
          OBVIOUS
        <4>2. CASE sessions[s] # None
          BY <1>3, <4>1, <4>2, RowKept
        <4>3. CASE sessions[s] = None
          <5>1. s = r /\ StoreCreate(r) /\ sessions'[s].user = req[r].user
            BY <1>3, <4>1, <4>3, RowBorn
          <5> QED BY <2>7, <4>1, <5>1
        <4> QED BY <1>3, <4>1, <4>2, <4>3, RowKept
      <3>3. Safe(u)
        BY <2>3, <3>2 DEF NoLockout
      <3>4. CASE Pending(u)
        <4>1. PICK q \in Request : req[q].pc = "store.create" /\ req[q].user = u
          BY <3>4
        <4>2. CASE q # r
          BY <2>1, <4>1, <4>2
        <4>3. CASE q = r
          <5>0. ~Start(r) /\ ~StoreRetire(r) /\ ~StoreCreate(r)
            BY <2>7, <4>1, <4>3, StartLocal
          <5>1. Fail(r)
            BY <1>3, <4>1, <4>3, <5>0
               DEF Step, StoreFindUser, StoreFindActive, UpdateFindUser,
                   UpdateFindActive, UpdateWrite, ExpireFindUser,
                   ExpireFindActive, ExpireWrite, Answer
          <5>2. req[r].op = "login" /\ ~Opened(r)
            BY <4>1, <4>3 DEF IInv, LocalShape, RowOrigin
          <5>3. req'[r].code = "FAILED" /\ ~Opened(r)'
            BY <5>1, <5>2 DEF Fail, End, Opened, IInv, TypeOK, RequestState
          <5>4. req'[r].op = "login" /\ req'[r].user = u
            BY <2>2, <4>1, <4>3, <5>2
          <5> QED BY <5>3, <5>4
        <4> QED BY <4>2, <4>3
      <3> QED BY <3>1, <3>3, <3>4
    <2> QED BY <2>4, <2>5, <2>7
  <1> QED BY <1>1, <1>2, <1>3, StepCases

(***************************************************************************)
(* Logins that race never leave a user without a session, as long as they  *)
(* run to their end and nobody logs out: for any number of them.           *)
(***************************************************************************)
THEOREM NeverLockedOut == Spec => []NoLockout
  <1>1. Init => NoLockout
    BY DEF Init, NoLockout
  <1> QED BY <1>1, NoLockoutStep, Invariance, PTL DEF Spec

-----------------------------------------------------------------------------
(***************************************************************************)
(* The refinement: what the requests do to the table is what the           *)
(* lifecycle of a session allows.                                          *)
(***************************************************************************)
LEMMA LifecycleInit == Init => Lifecycle!LifeInit
  BY NoneAssumption
     DEF Init, Idle, Lifecycle!LifeInit, statusBar, ownerBar, Opened

\* Each step is one of the lifecycle, or leaves every status as it was.
LEMMA LifecycleStep ==
  ASSUME IInv, [Next]_vars
  PROVE  [Lifecycle!LifeNext]_(Lifecycle!lifeVars)
  <1> USE DEF Lifecycle!lifeVars
  <1> SUFFICES Lifecycle!LifeNext \/ (statusBar' = statusBar /\ ownerBar' = ownerBar)
    OBVIOUS
  <1>1. CASE UNCHANGED <<req, sessions, users>>
    BY <1>1 DEF statusBar, ownerBar, Opened
  <1>2. ASSUME NEW u \in User, RemoveUser(u) PROVE Lifecycle!Forget(u)
    <2>1. req' = req /\ ownerBar' = ownerBar
      BY <1>2 DEF RemoveUser, ownerBar, Opened
    <2>2. ASSUME NEW s \in Request
          PROVE  statusBar'[s] = IF ownerBar[s] = u THEN "deleted" ELSE statusBar[s]
      <3>1. CASE sessions[s] # None
        <4>1. Opened(s) /\ sessions[s].user = req[s].user
          BY <3>1 DEF IInv, RowOrigin
        <4>2. sessions'[s] = IF req[s].user = u THEN None ELSE sessions[s]
          BY <1>2, <3>1, <4>1 DEF RemoveUser
        <4> QED BY <2>1, <3>1, <4>1, <4>2 DEF statusBar, ownerBar, Opened
      <3>2. CASE sessions[s] = None
        <4>1. sessions'[s] = None
          BY <1>2, <3>2 DEF RemoveUser
        <4>2. ownerBar[s] = u => Opened(s)
          BY NoneAssumption DEF ownerBar
        <4> QED BY <2>1, <3>2, <4>1, <4>2 DEF statusBar, Opened
      <3> QED BY <3>1, <3>2
    <2> QED BY <2>1, <2>2 DEF Lifecycle!Forget, statusBar
  <1>3. ASSUME NEW r \in Request, Start(r) \/ Step(r) \/ Fail(r)
        PROVE  \/ \E s \in Request : \/ \E u \in User : Lifecycle!Open(s, u)
                                     \/ Lifecycle!Close(s)
               \/ statusBar' = statusBar /\ ownerBar' = ownerBar
    <2>1. \A s \in Request \ {r} : req'[s] = req[s]
      BY <1>3, OneRequest
    <2>2. CASE Opened(r)' /\ ~Opened(r)
      <3>1. StoreCreate(r) /\ req[r].user \in users /\ req[r].user \in User
        BY <1>3, <2>2, OpenedByCreate DEF IInv, TypeOK
      <3>2. sessions[r] = None /\ req'[r].user = req[r].user
        BY <2>2, <3>1, ActiveCreated DEF IInv, RowOrigin
      <3>3. sessions' = [sessions EXCEPT ![r] =
                          [user |-> req[r].user, status |-> "ACTIVE",
                           refreshToken |-> r]]
        BY <3>1 DEF StoreCreate
      <3>4. [user |-> req[r].user, status |-> "ACTIVE", refreshToken |-> r] \in Row
        BY <3>1 DEF Row, SessionStatus
      <3>5. statusBar[r] = "unborn" /\ statusBar' = [statusBar EXCEPT ![r] = "ACTIVE"]
        BY <2>1, <2>2, <3>2, <3>3, <3>4, NoneAssumption
           DEF statusBar, Opened, IInv, TypeOK
      <3>6. ownerBar' = [ownerBar EXCEPT ![r] = req[r].user]
        BY <2>1, <2>2, <3>2 DEF ownerBar, Opened
      <3> QED BY <3>1, <3>5, <3>6 DEF Lifecycle!Open
    <2>3. CASE Opened(r)' <=> Opened(r)
      <3>1. \A s \in Request : /\ Opened(s)' <=> Opened(s)
                               /\ Opened(s) => req'[s].user = req[s].user
        BY <2>1, <2>3, OpenedStays DEF Opened
      <3>2. ownerBar' = ownerBar
        BY <3>1 DEF ownerBar
      <3>3. CASE sessions' = sessions
        BY <3>1, <3>2, <3>3 DEF statusBar
      <3>4. ~(StoreCreate(r) /\ Opened(r)')
        BY <2>3 DEF StoreCreate, IInv, RowOrigin
      <3>5. \A s \in Request : sessions[s] # None => sessions[s] \in Row
        BY DEF IInv, TypeOK
      <3> DEFINE x == req[r].row
      <3>6. CASE /\ StoreRetire(r) \/ ExpireWrite(r)
                 /\ sessions[x] # None
                 /\ sessions' = [sessions EXCEPT ![x] =
                                  [sessions[x] EXCEPT !.status = "LOGGED_OUT"]]
        <4>1. x \in Request /\ sessions[x] \in Row /\ sessions[x].status # "EXPIRED"
          <5>1. x \in Request
            BY <3>6 DEF StoreRetire, ExpireWrite, IInv, HeldRow, TypeOK,
                        RequestState
          <5> QED BY <3>5, <3>6, <5>1 DEF IInv, RowOrigin
        <4>2. sessions'[x] \in Row /\ sessions'[x].status = "LOGGED_OUT"
          BY <3>6, <4>1 DEF Row, SessionStatus, IInv, TypeOK
        <4>3. \A s \in Request \ {x} : sessions'[s] = sessions[s]
          BY <3>6, <4>1 DEF IInv, TypeOK
        <4>4. statusBar' = [statusBar EXCEPT ![x] = "LOGGED_OUT"]
          BY <3>1, <4>1, <4>2, <4>3, NoneAssumption DEF statusBar
        <4>5. statusBar[x] \in {"ACTIVE", "LOGGED_OUT"}
          BY <3>6, <4>1 DEF statusBar, Row, SessionStatus
        <4>6. CASE statusBar[x] = "ACTIVE"
          <5>1. PICK s \in Request : s = x
            BY <4>1
          <5>2. Lifecycle!Close(s)
            BY <3>2, <4>4, <4>6, <5>1 DEF Lifecycle!Close
          <5> QED BY <5>2
        <4>7. CASE statusBar[x] = "LOGGED_OUT"
          BY <3>2, <4>1, <4>4, <4>7 DEF statusBar
        <4> QED BY <4>5, <4>6, <4>7
      <3>7. CASE /\ UpdateWrite(r)
                 /\ sessions[x] # None
                 /\ sessions' = [sessions EXCEPT ![x] =
                                  [sessions[x] EXCEPT !.refreshToken = r]]
        <4>1. x \in Request /\ sessions[x] \in Row
          BY <3>5, <3>7 DEF UpdateWrite, IInv, HeldRow, TypeOK, RequestState
        <4>2. sessions'[x] \in Row /\ sessions'[x].status = sessions[x].status
          BY <3>7, <4>1 DEF Row, IInv, TypeOK
        <4>3. \A s \in Request \ {x} : sessions'[s] = sessions[s]
          BY <3>7, <4>1 DEF IInv, TypeOK
        <4>4. statusBar' = statusBar
          BY <3>1, <3>7, <4>1, <4>2, <4>3, NoneAssumption DEF statusBar
        <4> QED BY <3>2, <4>4
      <3> QED BY <1>3, <3>3, <3>4, <3>6, <3>7, RowEffect
    <2> QED BY <2>2, <2>3, OpenedStays
  <1> QED BY <1>1, <1>2, <1>3, StepCases DEF Lifecycle!LifeNext

(***************************************************************************)
(* The session service implements SessionLifecycle.                        *)
(***************************************************************************)
THEOREM Refinement == Spec => ImplementsLifecycle
  <1>1. IInv /\ [Next]_vars => [Lifecycle!LifeNext]_(Lifecycle!lifeVars)
    BY LifecycleStep
  <1> QED
    BY <1>1, LifecycleInit, Invariance, PTL
       DEF Spec, ImplementsLifecycle, Lifecycle!LifeSpec
=============================================================================
