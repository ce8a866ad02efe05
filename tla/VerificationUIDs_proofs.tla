---------------------- MODULE VerificationUIDs_proofs ----------------------
(***************************************************************************)
(* What TLAPS proves of VerificationUIDs, for any number of addresses and  *)
(* of requests.                                                            *)
(***************************************************************************)
EXTENDS VerificationUIDs, TLAPS

USE NoneAssumption

\* The steps of Next, in the groups the proofs below go by.
LEMMA StepCases ==
  ASSUME [Next]_vars
  PROVE  \/ \E r \in Request : Start(r) \/ Step(r)
         \/ \E u \in User : RemoveUser(u)
         \/ UNCHANGED vars
  BY DEF Next, AtRest

\* The type of req alone.
LEMMA ReqType == IInv => req \in [Request -> RequestState]
  BY DEF IInv, TypeOK

\* A request that has not begun holds nothing.
LEMMA IdleHolds ==
  ASSUME IInv, NEW q \in Request, req[q].pc = "idle"
  PROVE  /\ req[q].op = "none" /\ req[q].user = None /\ ~req[q].kept
         /\ req[q].code = "none"
  <1>1. req[q] = Idle
    BY DEF IInv, LocalShape
  <1> QED BY <1>1 DEF Idle

\* What Begin leaves behind.
LEMMA BeginEffect ==
  ASSUME IInv, NEW r \in Request, NEW operation, NEW label, NEW u, NEW t,
         Begin(r, operation, label, u, t)
  PROVE  /\ req[r].pc = "idle"
         /\ UNCHANGED <<account, password, verified, uids, mailed>>
         /\ req' = [req EXCEPT ![r] =
                      [op |-> operation, pc |-> label, user |-> u, link |-> t,
                       row |-> None, kept |-> FALSE, code |-> "none"]]
         /\ req'[r] = [op |-> operation, pc |-> label, user |-> u, link |-> t,
                       row |-> None, kept |-> FALSE, code |-> "none"]
  BY ReqType DEF Begin

\* A request starts from nothing; a link it presents was mailed to its user.
LEMMA StartEffect ==
  ASSUME IInv, NEW r \in Request, Start(r)
  PROVE  /\ req[r].pc = "idle"
         /\ UNCHANGED <<account, password, verified, uids, mailed>>
         /\ req' \in [Request -> RequestState]
         /\ \A q \in Request \ {r} : req'[q] = req[q]
         /\ req'[r].op \in Issuing \cup Using
         /\ req'[r].pc \in {"register.find", "issue.find", "uid.verify"}
         /\ req'[r].user \in User
         /\ req'[r].code = "none"
         /\ req'[r].pc = "register.find" => /\ req'[r].op = "register"
                                            /\ account[req'[r].user] # "removed"
         /\ req'[r].pc = "issue.find" => req'[r].op \in {"forgot", "resend"}
         /\ req'[r].op \in Using <=> req'[r].pc = "uid.verify"
         /\ req'[r].op \in Using => /\ req'[r].link \in mailed
                                    /\ req'[r].user = req[req'[r].link].user
  <1> USE DEF Issuing, Using
  <1>1. CASE Register(r)
    <2>1. PICK u \in User : /\ account[u] # "removed"
                            /\ Begin(r, "register", "register.find", u, None)
      BY <1>1 DEF Register
    <2>2. [op |-> "register", pc |-> "register.find", user |-> u, link |-> None,
           row |-> None, kept |-> FALSE, code |-> "none"] \in RequestState
      BY DEF RequestState, Labels, Codes
    <2> QED BY <2>1, <2>2, BeginEffect, ReqType
  <1>2. CASE Forgot(r) \/ Resend(r)
    <2>1. PICK u \in User, o \in {"forgot", "resend"} :
            Begin(r, o, "issue.find", u, None)
      BY <1>2 DEF Forgot, Resend
    <2>2. [op |-> o, pc |-> "issue.find", user |-> u, link |-> None,
           row |-> None, kept |-> FALSE, code |-> "none"] \in RequestState
      BY DEF RequestState, Labels, Codes
    <2> QED BY <2>1, <2>2, BeginEffect, ReqType
  <1>3. CASE ResetPassword(r) \/ VerifyEmail(r)
    <2>1. PICK t \in mailed, o \in {"reset", "verifyEmail"} :
            Begin(r, o, "uid.verify", req[t].user, t)
      BY <1>3 DEF ResetPassword, VerifyEmail
    <2>2. t \in Request /\ req[t].user \in User
      BY DEF IInv, TypeOK, RowOrigin, LocalShape
    <2>3. /\ req[r].pc = "idle"
          /\ UNCHANGED <<account, password, verified, uids, mailed>>
          /\ req' = [req EXCEPT ![r] =
                       [op |-> o, pc |-> "uid.verify", user |-> req[t].user,
                        link |-> t, row |-> None, kept |-> FALSE, code |-> "none"]]
      BY <2>1 DEF Begin
    <2>4. [op |-> o, pc |-> "uid.verify", user |-> req[t].user, link |-> t,
           row |-> None, kept |-> FALSE, code |-> "none"] \in RequestState
      BY <2>2 DEF RequestState, Labels, Codes
    <2>5. /\ req' \in [Request -> RequestState]
          /\ \A q \in Request \ {r} : req'[q] = req[q]
          /\ req'[r] = [op |-> o, pc |-> "uid.verify", user |-> req[t].user,
                        link |-> t, row |-> None, kept |-> FALSE, code |-> "none"]
      BY <2>3, <2>4, ReqType
    <2> QED BY <2>2, <2>3, <2>5
  <1> QED BY <1>1, <1>2, <1>3 DEF Start

\* A step of a request touches no other request, and does not change what the
\* request set out to do, nor for whom.
LEMMA OneRequest ==
  ASSUME IInv, NEW r \in Request, Start(r) \/ Step(r)
  PROVE  /\ \A q \in Request \ {r} : req'[q] = req[q]
         /\ req'[r].pc # "idle"
         /\ req[r].pc # "done"
         /\ req[r].pc # "idle" => /\ req'[r].op = req[r].op
                                  /\ req'[r].user = req[r].user
                                  /\ req'[r].link = req[r].link
                                  /\ req[r].kept => req'[r].kept
  <1> USE DEF IInv, TypeOK, RequestState
  <1>1. CASE Start(r)
    BY <1>1, StartEffect DEF Idle
  <1>2. CASE RegisterFind(r) \/ RegisterCreate(r) \/ IssueFind(r)
    BY <1>2 DEF RegisterFind, RegisterCreate, IssueFind, Goto, End
  <1>3. CASE ClearFind(r) \/ ClearDelete(r) \/ ClearFails(r)
    BY <1>3 DEF ClearFind, ClearDelete, ClearFails, AfterClear, Goto
  <1>4. CASE UidCreate(r) \/ Mail(r) \/ UidCreateFails(r)
    BY <1>4 DEF UidCreate, Mail, UidCreateFails, NotSent, Goto, End
  <1>5. CASE VerifyUID(r)
    <2>1. req[r].pc = "uid.verify" /\ req[r].op \in Using /\ req[r].link \in Request
      BY <1>5 DEF VerifyUID, LocalShape, LinkHeld
    <2>2. uids[req[r].link] # None => uids[req[r].link].user = req[r].user
      BY <2>1 DEF LinkHeld, RowOrigin
    <2> QED BY <1>5, <2>1, <2>2 DEF VerifyUID, End
  <1>6. CASE UserFind(r) \/ UserWrite(r) \/ Answer(r) \/ Fail(r)
    BY <1>6 DEF UserFind, UserWrite, Answer, Fail, InFlight, Goto, End
  <1> QED BY <1>1, <1>2, <1>3, <1>4, <1>5, <1>6 DEF Step

\* What a request set out to do, and for whom, it keeps.
LEMMA Kept ==
  ASSUME IInv, [Next]_vars, NEW q \in Request, req[q].pc # "idle"
  PROVE  /\ req'[q].op = req[q].op
         /\ req'[q].user = req[q].user
         /\ req'[q].link = req[q].link
         /\ req'[q].pc # "idle"
         /\ TypeOf(q)' = TypeOf(q)
         /\ req[q].kept => req'[q].kept
         /\ req[q].pc = "done" => req'[q] = req[q]
         /\ mailed \subseteq mailed'
  <1>1. CASE \E r \in Request : Start(r) \/ Step(r)
    <2>1. mailed \subseteq mailed'
      BY <1>1, StartEffect
         DEF Step, RegisterFind, RegisterCreate, IssueFind, ClearFind,
             ClearDelete, ClearFails, UidCreate, Mail, UidCreateFails, VerifyUID,
             UserFind, UserWrite, Answer, Fail
    <2> QED BY <1>1, <2>1, OneRequest DEF TypeOf
  <1>2. CASE (\E u \in User : RemoveUser(u)) \/ UNCHANGED vars
    BY <1>2 DEF RemoveUser, vars, TypeOf
  <1> QED BY <1>1, <1>2, StepCases

-----------------------------------------------------------------------------
\* Every action keeps the types.
LEMMA TypeStep == IInv /\ [Next]_vars => TypeOK'
  <1> SUFFICES ASSUME IInv, [Next]_vars PROVE TypeOK'
    OBVIOUS
  <1> USE DEF TypeOK, RequestState, Labels, Codes, Issuing, Using
  <1>1. ASSUME NEW r \in Request, Start(r) PROVE TypeOK'
    BY <1>1, StartEffect DEF Idle, IInv
  <1>2. ASSUME NEW r \in Request, RegisterFind(r) \/ RegisterCreate(r) \/ IssueFind(r)
        PROVE  TypeOK'
    BY <1>2 DEF RegisterFind, RegisterCreate, IssueFind, Goto, End, IInv
  <1>3. ASSUME NEW r \in Request, ClearFind(r) \/ ClearDelete(r) \/ ClearFails(r)
        PROVE  TypeOK'
    BY <1>3 DEF ClearFind, ClearDelete, ClearFails, AfterClear, RowsOf, Goto, IInv
  <1>4. ASSUME NEW r \in Request, UidCreate(r) \/ Mail(r) \/ UidCreateFails(r)
        PROVE  TypeOK'
    <2>1. req[r].user \in User
      BY <1>4 DEF UidCreate, Mail, UidCreateFails, IInv, LocalShape
    <2>2. [user |-> req[r].user, type |-> TypeOf(r)] \in Row
      BY <2>1 DEF Row, UidType, TypeOf
    <2> QED BY <1>4, <2>2 DEF UidCreate, Mail, UidCreateFails, NotSent, Goto, End, IInv
  <1>5. ASSUME NEW r \in Request, VerifyUID(r) PROVE TypeOK'
    <2>1. req[r].link \in Request
      BY <1>5 DEF VerifyUID, IInv, LocalShape, LinkHeld
    <2>2. uids[req[r].link] # None => uids[req[r].link].user \in User
      BY <2>1 DEF IInv, Row
    <2> QED BY <1>5, <2>1, <2>2 DEF VerifyUID, End, IInv
  <1>6. ASSUME NEW r \in Request,
               UserFind(r) \/ UserWrite(r) \/ Answer(r) \/ Fail(r)
        PROVE  TypeOK'
    <2>1. req[r].pc = "user.write" => req[r].user \in User
      BY DEF IInv, LocalShape
    <2> QED BY <1>6, <2>1 DEF UserFind, UserWrite, Answer, Fail, Goto, End, IInv
  <1>7. ASSUME NEW u \in User, RemoveUser(u) PROVE TypeOK'
    BY <1>7 DEF RemoveUser, IInv
  <1>8. CASE UNCHANGED vars
    BY <1>8 DEF vars, IInv
  <1> QED BY <1>1, <1>2, <1>3, <1>4, <1>5, <1>6, <1>7, <1>8, StepCases DEF Step

\* The label of a request goes on telling its operation.
LEMMA LocalShapeStep == IInv /\ [Next]_vars => LocalShape'
  <1> SUFFICES ASSUME IInv, [Next]_vars PROVE LocalShape'
    OBVIOUS
  <1> USE DEF LocalShape, TypeOK, RequestState, Issuing, Using
  <1>1. ASSUME NEW r \in Request, Start(r) PROVE LocalShape'
    <2>1. LocalShape /\ \A q \in Request \ {r} : req'[q] = req[q]
      BY <1>1, StartEffect DEF IInv
    <2>2. /\ req'[r].pc \in {"register.find", "issue.find", "uid.verify"}
          /\ req'[r].op \in Issuing \cup Using /\ req'[r].user \in User
          /\ req'[r].code = "none"
          /\ req'[r].pc = "register.find" => req'[r].op = "register"
          /\ req'[r].pc = "issue.find" => req'[r].op \in {"forgot", "resend"}
          /\ req'[r].op \in Using <=> req'[r].pc = "uid.verify"
      BY <1>1, StartEffect
    <2> QED BY <2>1, <2>2
  <1>2. ASSUME NEW r \in Request, Step(r) PROVE LocalShape'
    <2> DEFINE Shape(s) ==
          /\ s.pc # "idle" => s.user \in User /\ s.op # "none"
          /\ s.pc = "done" <=> s.code # "none"
          /\ s.pc \in {"register.find", "register.create"} => s.op = "register"
          /\ s.pc = "issue.find" => s.op \in {"forgot", "resend"}
          /\ s.pc \in {"uid.verify", "user.find", "user.write"} => s.op \in Using
          /\ s.pc \in {"uid.create", "mail"} => s.op \in Issuing
    <2>0. Shape(req[r])
      BY DEF IInv
    <2> SUFFICES Shape(req'[r])
      BY <1>2, OneRequest DEF IInv
    <2>1. CASE RegisterFind(r) \/ RegisterCreate(r) \/ IssueFind(r)
      BY <2>0, <2>1 DEF RegisterFind, RegisterCreate, IssueFind, Goto, End, IInv
    <2>2. CASE ClearFind(r) \/ ClearDelete(r) \/ ClearFails(r)
      BY <2>0, <2>2 DEF ClearFind, ClearDelete, ClearFails, AfterClear, Goto, IInv
    <2>3. CASE UidCreate(r) \/ Mail(r) \/ UidCreateFails(r)
      BY <2>0, <2>3 DEF UidCreate, Mail, UidCreateFails, NotSent, Goto, End, IInv
    <2>4. CASE VerifyUID(r)
      <3>1. req'[r].user = req[r].user /\ req'[r].op = req[r].op
        BY <1>2, <2>4, OneRequest DEF VerifyUID
      <3> QED BY <2>0, <2>4, <3>1 DEF VerifyUID, End, IInv
    <2>5. CASE UserFind(r) \/ UserWrite(r) \/ Answer(r) \/ Fail(r)
      BY <2>0, <2>5 DEF UserFind, UserWrite, Answer, Fail, InFlight, Goto, End, IInv
    <2> QED BY <1>2, <2>1, <2>2, <2>3, <2>4, <2>5 DEF Step
  <1>3. CASE (\E u \in User : RemoveUser(u)) \/ UNCHANGED vars
    BY <1>3 DEF RemoveUser, vars, IInv
  <1> QED BY <1>1, <1>2, <1>3, StepCases

\* What a step of a request does to the table, and to the links mailed.
LEMMA RowEffect ==
  ASSUME IInv, NEW r \in Request, Start(r) \/ Step(r)
  PROVE  /\ \/ uids' = uids
            \/ /\ UidCreate(r) /\ req'[r].pc = "mail"
               /\ uids' = [uids EXCEPT ![r] = [user |-> req[r].user,
                                               type |-> TypeOf(r)]]
            \/ /\ ClearDelete(r)
               /\ uids' = [uids EXCEPT ![req[r].row] = None]
         /\ \/ mailed' = mailed
            \/ Mail(r) /\ mailed' = mailed \cup {r} /\ req'[r].pc = "answer"
  <1>1. CASE Start(r)
    BY <1>1, StartEffect
  <1>2. CASE UidCreate(r)
    BY <1>2, ReqType DEF UidCreate, Goto, RequestState
  <1>3. CASE Mail(r)
    BY <1>3, ReqType DEF Mail, Goto, RequestState
  <1>4. CASE ClearDelete(r)
    BY <1>4 DEF ClearDelete
  <1>5. CASE \/ RegisterFind(r) \/ RegisterCreate(r) \/ IssueFind(r)
             \/ ClearFind(r) \/ ClearFails(r) \/ UidCreateFails(r) \/ VerifyUID(r)
             \/ UserFind(r) \/ UserWrite(r) \/ Answer(r) \/ Fail(r)
    BY <1>5 DEF RegisterFind, RegisterCreate, IssueFind, ClearFind, ClearFails,
                UidCreateFails, VerifyUID, UserFind, UserWrite, Answer, Fail
  <1> QED BY <1>1, <1>2, <1>3, <1>4, <1>5 DEF Step

\* A request that is past the creation of its row does not go back before it.
LEMMA PastCreate ==
  ASSUME IInv, NEW r \in Request, Start(r) \/ Step(r), req[r].op \in Issuing,
         req[r].pc \in {"mail", "answer", "done"}
  PROVE  /\ req'[r].pc \in {"mail", "answer", "done"}
         /\ req[r].pc \in {"answer", "done"} => req'[r].pc \in {"answer", "done"}
  <1>1. Mail(r) \/ UidCreateFails(r) \/ Answer(r) \/ Fail(r)
    BY StartEffect
       DEF Step, RegisterFind, RegisterCreate, IssueFind, ClearFind, ClearDelete,
           ClearFails, UidCreate, VerifyUID, UserFind, UserWrite
  <1> QED BY <1>1, ReqType DEF Mail, UidCreateFails, NotSent, Answer, Fail, Goto, End,
                               RequestState

\* The rows keep the user and the type of the request that made them.
LEMMA RowOriginStep == IInv /\ [Next]_vars => RowOrigin'
  <1> SUFFICES ASSUME IInv, [Next]_vars PROVE RowOrigin'
    OBVIOUS
  <1> DEFINE Past(s) == req[s].op \in Issuing
                        /\ req[s].pc \in {"mail", "answer", "done"}
  <1>1. ASSUME NEW s \in Request, Past(s)
        PROVE  /\ Past(s)' /\ req'[s].user = req[s].user /\ TypeOf(s)' = TypeOf(s)
               /\ req[s].pc \in {"answer", "done"} => req'[s].pc \in {"answer", "done"}
    <2>1. CASE \E r \in Request : Start(r) \/ Step(r)
      BY <1>1, <2>1, PastCreate, OneRequest, Kept
    <2>2. CASE (\E u \in User : RemoveUser(u)) \/ UNCHANGED vars
      BY <1>1, <2>2 DEF RemoveUser, vars, TypeOf
    <2> QED BY <2>1, <2>2, StepCases
  <1>2. ASSUME NEW s \in Request, uids'[s] # None
        PROVE  /\ req'[s].op \in Issuing
               /\ uids'[s] = [user |-> req'[s].user, type |-> TypeOf(s)']
               /\ req'[s].pc \in {"mail", "answer", "done"}
    <2>1. CASE uids'[s] = uids[s]
      BY <1>1, <1>2, <2>1 DEF IInv, RowOrigin
    <2>2. CASE uids'[s] # uids[s]
      <3>1. PICK r \in Request :
              /\ UidCreate(r) /\ req'[r].pc = "mail"
              /\ uids' = [uids EXCEPT ![r] = [user |-> req[r].user,
                                              type |-> TypeOf(r)]]
        BY <1>2, <2>2, StepCases, RowEffect DEF RemoveUser, vars, IInv, TypeOK
      <3>2. s = r
        BY <2>2, <3>1 DEF IInv, TypeOK
      <3>3. req[r].pc = "uid.create" /\ req[r].op \in Issuing
        BY <3>1 DEF UidCreate, IInv, LocalShape
      <3> QED BY <3>1, <3>2, <3>3, Kept DEF IInv, TypeOK
    <2> QED BY <2>1, <2>2
  <1>3. ASSUME NEW t \in mailed'
        PROVE  req'[t].op \in Issuing /\ req'[t].pc \in {"answer", "done"}
    <2>1. CASE t \in mailed
      BY <1>1, <2>1 DEF IInv, RowOrigin, TypeOK
    <2>2. CASE t \notin mailed
      <3>1. Mail(t) /\ req'[t].pc = "answer" /\ t \in Request
        BY <2>2, StepCases, RowEffect DEF RemoveUser, vars
      <3> QED BY <3>1, Kept DEF Mail, IInv, LocalShape
    <2> QED BY <2>1, <2>2
  <1> QED BY <1>2, <1>3 DEF RowOrigin

\* What a request has found out about its link stays so.
LEMMA LinkHeldStep == IInv /\ [Next]_vars => LinkHeld'
  <1> SUFFICES ASSUME IInv, [Next]_vars PROVE LinkHeld'
    OBVIOUS
  <1> DEFINE
        Found(r) == \/ req[r].pc \in {"user.find", "user.write", "clear.find",
                                      "clear.delete", "answer"}
                    \/ req[r].code = "OK"
        Link(r) == req[r].op \in Using =>
                     /\ req[r].link \in mailed
                     /\ req[r].user = req[req[r].link].user
                     /\ Found(r) => TypeOf(req[r].link) = TypeOf(r)
        Clear(r) == req[r].pc = "clear.delete" =>
                      /\ req[r].row \in Request
                      /\ req[req[r].row].op \in Issuing
                      /\ req[req[r].row].user = req[r].user
                      /\ TypeOf(req[r].row) = TypeOf(r)
  <1>0. \A r \in Request : Link(r) /\ Clear(r)
    BY DEF IInv, LinkHeld
  <1>1. \A t \in mailed : /\ t \in Request /\ t \in mailed'
                          /\ req'[t].user = req[t].user
                          /\ TypeOf(t)' = TypeOf(t)
    BY Kept DEF IInv, TypeOK, RowOrigin
  <1>2. \A s \in Request : req[s].op \in Issuing =>
          /\ req'[s].op = req[s].op /\ req'[s].user = req[s].user
          /\ TypeOf(s)' = TypeOf(s)
    <2>1. \A s \in Request : req[s].op \in Issuing => req[s].pc # "idle"
      BY IdleHolds DEF Issuing
    <2> QED BY <2>1, Kept
  <1>3. ASSUME NEW r \in Request, req'[r] = req[r] PROVE Link(r)' /\ Clear(r)'
    BY <1>0, <1>1, <1>2, <1>3 DEF TypeOf
  <1>4. ASSUME NEW r \in Request, Start(r) PROVE Link(r)' /\ Clear(r)'
    BY <1>1, <1>4, StartEffect DEF Issuing, Using
  <1>5. ASSUME NEW r \in Request, Step(r) PROVE Link(r)'
    <2> SUFFICES ASSUME req[r].op \in Using, Found(r)' PROVE Found(r) \/ VerifyUID(r)
      <3>1. ASSUME VerifyUID(r), Found(r)', req[r].op \in Using
            PROVE  TypeOf(req[r].link) = TypeOf(r)
        BY <1>0, <1>5, <3>1, ReqType DEF VerifyUID, End, RequestState, IInv,
           RowOrigin, LocalShape, TypeOK
      <3>2. req[r].pc # "idle"
        BY <1>5 DEF Step, RegisterFind, RegisterCreate, IssueFind, ClearFind,
           ClearDelete, ClearFails, UidCreate, Mail, UidCreateFails, VerifyUID,
           UserFind, UserWrite, Answer, Fail, InFlight
      <3> QED BY <1>0, <1>1, <3>1, <3>2, Kept
    <2>1. ~(RegisterFind(r) \/ RegisterCreate(r) \/ IssueFind(r) \/ UidCreate(r)
              \/ Mail(r) \/ UidCreateFails(r))
      BY DEF RegisterFind, RegisterCreate, IssueFind, UidCreate, Mail, UidCreateFails,
             IInv, LocalShape, Issuing, Using
    <2>2. CASE ClearFind(r) \/ ClearDelete(r) \/ ClearFails(r) \/ UserFind(r)
               \/ UserWrite(r) \/ Answer(r)
      BY <2>2 DEF ClearFind, ClearDelete, ClearFails, UserFind, UserWrite, Answer
    <2>3. CASE Fail(r)
      BY <2>3, ReqType DEF Fail, InFlight, End, RequestState
    <2> QED BY <1>5, <2>1, <2>2, <2>3 DEF Step
  <1>6. ASSUME NEW r \in Request, Step(r) PROVE Clear(r)'
    <2> SUFFICES ASSUME req'[r].pc = "clear.delete" PROVE Clear(r)'
      OBVIOUS
    <2>1. ClearFind(r)
      BY <1>6, ReqType
         DEF Step, RegisterFind, RegisterCreate, IssueFind, ClearFind, ClearDelete,
             ClearFails, AfterClear, UidCreate, Mail, UidCreateFails, NotSent, VerifyUID,
             UserFind, UserWrite, Answer, Fail, Goto, End, RequestState
    <2>2. PICK s \in RowsOf(req[r].user, TypeOf(r)) :
            req' = [req EXCEPT ![r].pc = "clear.delete", ![r].row = s]
      BY <2>1, ReqType DEF ClearFind, Goto, AfterClear, RequestState
    <2>3. s \in Request /\ req[s].op \in Issuing /\ req[s].user = req[r].user
          /\ TypeOf(s) = TypeOf(r)
      <3>1. /\ s \in Request /\ uids[s] # None
            /\ uids[s].user = req[r].user /\ uids[s].type = TypeOf(r)
        BY DEF RowsOf
      <3>2. req[s].op \in Issuing
            /\ uids[s] = [user |-> req[s].user, type |-> TypeOf(s)]
        BY <3>1 DEF IInv, RowOrigin
      <3> QED BY <3>1, <3>2
    <2>4. req'[r].row = s /\ req'[r].user = req[r].user /\ TypeOf(r)' = TypeOf(r)
      BY <2>2, ReqType DEF RequestState, TypeOf
    <2> QED BY <1>2, <2>3, <2>4 DEF TypeOf
  <1>7. \A r \in Request : Link(r)' /\ Clear(r)'
    <2>1. CASE \E r \in Request : Start(r) \/ Step(r)
      BY <1>3, <1>4, <1>5, <1>6, <2>1, OneRequest
    <2>2. CASE (\E u \in User : RemoveUser(u)) \/ UNCHANGED vars
      BY <1>3, <2>2 DEF RemoveUser, vars
    <2> QED BY <2>1, <2>2, StepCases
  <1> QED BY <1>7 DEF LinkHeld

\* What became of an address changes by a registration, or by a removal.
LEMMA AccountEffect ==
  ASSUME IInv, [Next]_vars, NEW u \in User, account'[u] # account[u]
  PROVE  \/ \E r \in Request : RegisterCreate(r) /\ req[r].user = u
         \/ RemoveUser(u)
  <1>1. ASSUME NEW r \in Request, Start(r) \/ Step(r), ~RegisterCreate(r)
        PROVE  account' = account
    BY <1>1, StartEffect
       DEF Step, RegisterFind, IssueFind, ClearFind, ClearDelete, ClearFails,
           UidCreate, Mail, UidCreateFails, VerifyUID, UserFind, UserWrite, Answer, Fail
  <1>2. ASSUME NEW r \in Request, RegisterCreate(r) PROVE req[r].user = u
    BY <1>2 DEF RegisterCreate, IInv, TypeOK
  <1>3. ASSUME NEW v \in User, RemoveUser(v) PROVE v = u
    BY <1>3 DEF RemoveUser, IInv, TypeOK
  <1> QED BY <1>1, <1>2, <1>3, StepCases DEF vars

\* An account is created once, by one request.
LEMMA AccountOriginStep == IInv /\ [Next]_vars => AccountOrigin'
  <1> SUFFICES ASSUME IInv, [Next]_vars PROVE AccountOrigin'
    OBVIOUS
  <1> DEFINE Before(r) == req[r].pc \in {"register.find", "register.create"}
  <1>1. ASSUME NEW r \in Request, Step(r)
        PROVE  /\ Registered(r)' => Registered(r) \/ RegisterCreate(r)
               /\ Before(r)' => Before(r)
               /\ req[r].pc # "idle"
    <2> USE DEF Registered, IInv, LocalShape
    <2>1. CASE RegisterFind(r)
      BY <2>1, ReqType DEF RegisterFind, Goto, End, RequestState
    <2>2. CASE RegisterCreate(r) \/ IssueFind(r)
      BY <2>2, ReqType DEF RegisterCreate, IssueFind, Goto, End, RequestState
    <2>3. CASE ClearFind(r) \/ ClearDelete(r) \/ ClearFails(r)
      BY <2>3, ReqType DEF ClearFind, ClearDelete, ClearFails, AfterClear, Goto,
                           RequestState
    <2>4. CASE UidCreate(r) \/ Mail(r) \/ UidCreateFails(r)
      BY <2>4, ReqType DEF UidCreate, Mail, UidCreateFails, NotSent, Goto, End,
                           RequestState
    <2>5. CASE VerifyUID(r) \/ UserFind(r) \/ UserWrite(r)
      BY <2>5, ReqType DEF VerifyUID, UserFind, UserWrite, Goto, End,
                           RequestState, Using
    <2>6. CASE Answer(r) \/ Fail(r)
      BY <2>6, ReqType DEF Answer, Fail, InFlight, End, RequestState
    <2> QED BY <1>1, <2>1, <2>2, <2>3, <2>4, <2>5, <2>6 DEF Step
  <1>2. ASSUME NEW r \in Request, RegisterCreate(r), Registered(r)'
        PROVE  /\ account[req[r].user] = "free"
               /\ account' = [account EXCEPT ![req[r].user] = "open"]
               /\ req'[r].user = req[r].user
    <2>1. req[r].pc = "register.create" /\ req[r].user \in User
      BY <1>2 DEF RegisterCreate, IInv, LocalShape
    <2>2. account[req[r].user] # "open"
      BY <1>2, <2>1, ReqType DEF RegisterCreate, End, Registered, RequestState
    <2>3. account[req[r].user] \in {"free", "open", "removed"}
      BY <2>1 DEF IInv, TypeOK
    <2> QED
      BY <1>2, <2>1, <2>2, <2>3, Kept DEF RegisterCreate, IInv, AccountOrigin
  \* A request that is registered now was so before, or has just become so.
  <1>3. ASSUME NEW q \in Request, Registered(q)'
        PROVE  /\ Registered(q) \/ RegisterCreate(q)
               /\ req'[q].user = req[q].user /\ req[q].user \in User
    <2>1. CASE Start(q)
      BY <1>3, <2>1, StartEffect DEF Registered
    <2>2. CASE Step(q)
      BY <1>1, <1>3, <2>2, Kept DEF IInv, LocalShape
    <2>3. CASE req'[q] = req[q]
      BY <1>3, <2>3 DEF Registered, IInv, LocalShape, Idle
    <2> QED BY <2>1, <2>2, <2>3, StepCases, OneRequest DEF RemoveUser, vars
  <1>4. ASSUME NEW q \in Request, Registered(q)'
        PROVE  account'[req'[q].user] # "free"
    <2>1. account[req[q].user] # "free" \/ account'[req[q].user] = "open"
      BY <1>2, <1>3, <1>4 DEF IInv, AccountOrigin, TypeOK
    <2>2. CASE account'[req[q].user] = account[req[q].user]
      BY <1>3, <1>4, <2>1, <2>2
    <2>3. CASE account'[req[q].user] # account[req[q].user]
      BY <1>3, <1>4, <2>3, AccountEffect DEF RegisterCreate, RemoveUser, IInv, TypeOK
    <2> QED BY <2>2, <2>3
  <1>5. ASSUME NEW q \in Request, Before(q)'
        PROVE  account'[req'[q].user] # "removed"
    <2>1. CASE Start(q)
      BY <1>5, <2>1, StartEffect
    <2>2. CASE ~Start(q)
      <3>1. Before(q) /\ req'[q].user = req[q].user /\ req[q].user \in User
        <4>1. Before(q)
          BY <1>1, <1>5, <2>2, StepCases, OneRequest DEF RemoveUser, vars
        <4> QED BY <4>1, Kept DEF IInv, LocalShape
      <3>2. account[req[q].user] # "removed" /\ ~RemoveUser(req[q].user)
        BY <3>1 DEF IInv, AccountOrigin, RemoveUser
      <3> QED BY <3>1, <3>2, AccountEffect DEF RegisterCreate, IInv, TypeOK
    <2> QED BY <2>1, <2>2
  <1>6. ASSUME NEW r1 \in Request, NEW r2 \in Request, Registered(r1)',
               Registered(r2)', req'[r1].user = req'[r2].user
        PROVE  r1 = r2
    <2>1. CASE Registered(r1) /\ Registered(r2)
      BY <1>3, <1>6, <2>1 DEF IInv, AccountOrigin
    <2>2. CASE RegisterCreate(r1)
      <3>1. ~Registered(r2)
        BY <1>2, <1>3, <1>6, <2>2 DEF IInv, AccountOrigin
      <3>2. r1 = r2 \/ req'[r2] = req[r2]
        BY <2>2, OneRequest DEF Step
      <3> QED BY <1>6, <3>1, <3>2 DEF Registered
    <2>3. CASE RegisterCreate(r2)
      <3>1. ~Registered(r1)
        BY <1>2, <1>3, <1>6, <2>3 DEF IInv, AccountOrigin
      <3>2. r1 = r2 \/ req'[r1] = req[r1]
        BY <2>3, OneRequest DEF Step
      <3> QED BY <1>6, <3>1, <3>2 DEF Registered
    <2> QED BY <1>3, <1>6, <2>1, <2>2, <2>3
  <1> QED BY <1>4, <1>5, <1>6 DEF AccountOrigin

\* A password and a verification rest on a link that stays what it was.
LEMMA ProvenByMailStep == IInv /\ [Next]_vars => ProvenByMail'
  <1> SUFFICES ASSUME IInv, [Next]_vars PROVE ProvenByMail'
    OBVIOUS
  <1>1. ASSUME NEW r \in Request, req[r].op \in Using, NEW u, Proves(r, u)
        PROVE  Proves(r, u)' /\ req'[r].op = req[r].op
    <2>1. req[r].pc # "idle"
      BY <1>1, IdleHolds DEF Using
    <2>2. req[r].link \in Request /\ req[req[r].link].pc # "idle"
      BY <1>1 DEF Proves, IInv, TypeOK, RowOrigin
    <2> DEFINE t == req[r].link
    <2>3. req'[r].link = t /\ req'[t].op = req[t].op /\ req'[t].user = req[t].user
      BY <2>1, <2>2, Kept
    <2>4. TypeOf(t)' = TypeOf(t) /\ TypeOf(r)' = TypeOf(r) /\ t \in mailed'
      BY <1>1, <2>1, <2>2, <2>3, Kept DEF Proves, TypeOf
    <2> QED BY <1>1, <2>1, <2>3, <2>4, Kept DEF Proves, TypeOf
  <1>2. ASSUME NEW r \in Request, UserWrite(r)
        PROVE  Proves(r, req[r].user) /\ req[r].op \in Using /\ req[r].user \in User
    BY <1>2 DEF UserWrite, Proves, IInv, LocalShape, LinkHeld, RowOrigin
  <1>3. \/ UNCHANGED <<password, verified>>
        \/ \E r \in Request :
             /\ UserWrite(r)
             /\ \/ /\ req[r].op = "reset" /\ verified' = verified
                   /\ password' = [password EXCEPT ![req[r].user] = r]
                \/ /\ req[r].op = "verifyEmail" /\ password' = password
                   /\ verified' = verified \cup {req[r].user}
    BY StepCases, StartEffect
       DEF Step, RegisterFind, RegisterCreate, IssueFind, ClearFind, ClearDelete,
           ClearFails, UidCreate, Mail, UidCreateFails, VerifyUID, UserFind, UserWrite,
           Answer, Fail, RemoveUser, vars
  <1>4. ASSUME NEW u \in User, NEW q \in Request, password'[u] = q
        PROVE  req'[q].op = "reset" /\ Proves(q, u)'
    <2>1. req[q].op = "reset" /\ Proves(q, u)
      BY <1>2, <1>3, <1>4 DEF IInv, ProvenByMail, TypeOK
    <2> QED BY <1>1, <2>1 DEF Using
  <1>5. ASSUME NEW u \in verified'
        PROVE  \E r \in Request : req'[r].op = "verifyEmail" /\ Proves(r, u)'
    <2>1. PICK q \in Request : req[q].op = "verifyEmail" /\ Proves(q, u)
      BY <1>2, <1>3 DEF IInv, ProvenByMail
    <2> QED BY <1>1, <2>1 DEF Using
  <1> QED BY <1>4, <1>5 DEF ProvenByMail

\* The invariant holds at the start,
LEMMA InitIInv == Init => IInv
  BY DEF Init, IInv, TypeOK, RequestState, Labels, Codes, Idle, LocalShape,
         RowOrigin, LinkHeld, AccountOrigin, Registered, ProvenByMail, Using

\* and is inductive.
LEMMA Invariance == Spec => []IInv
  <1>1. IInv /\ [Next]_vars => IInv'
    BY TypeStep, LocalShapeStep, RowOriginStep, LinkHeldStep, AccountOriginStep,
       ProvenByMailStep DEF IInv
  <1> QED BY <1>1, InitIInv, PTL DEF Spec

-----------------------------------------------------------------------------
(***************************************************************************)
(* LinkInv, which is inductive in the states of IInv.                      *)
(***************************************************************************)
\* The labels that a step of request r goes between.
Path(r) ==
  \/ /\ req'[r].code = "none"
     /\ \/ req[r].pc = "register.find" /\ req'[r].pc = "register.create"
        \/ /\ req[r].pc = "register.create" /\ req'[r].pc = "clear.find"
           /\ account' = [account EXCEPT ![req[r].user] = "open"]
        \/ /\ req[r].pc = "issue.find" /\ req'[r].pc = "clear.find"
           /\ account[req[r].user] = "open"
        \/ /\ req[r].pc = "clear.find" /\ req'[r].pc = "clear.delete"
           /\ req'[r].row \in RowsOf(req[r].user, TypeOf(r))
        \/ /\ req[r].pc = "clear.find" /\ req'[r].pc = AfterClear(r)
           /\ ~req'[r].kept => RowsOf(req[r].user, TypeOf(r)) = {}
        \/ /\ req[r].pc = "clear.delete" /\ req'[r].pc = AfterClear(r)
           /\ ~req'[r].kept => uids' = [uids EXCEPT ![req[r].row] = None]
        \/ /\ req[r].pc = "uid.create" /\ req'[r].pc = "mail"
           /\ account[req[r].user] = "open"
           /\ uids' = [uids EXCEPT ![r] = [user |-> req[r].user, type |-> TypeOf(r)]]
        \/ req[r].pc \in {"uid.create", "mail"} /\ req'[r].pc = "answer"
        \/ req[r].pc = "uid.verify" /\ req'[r].pc = "user.find"
        \/ req[r].pc = "user.find" /\ req'[r].pc = "user.write"
        \/ req[r].pc = "user.write" /\ req'[r].pc = "clear.find"
  \/ /\ req'[r].pc = "done"
     /\ req'[r].code = "OK" => req[r].pc \in {"answer", "issue.find"}
     /\ req'[r].code \in {"USER_ALREADY_REGISTERED", "CONFLICT"}
          => req[r].pc \in {"register.find", "register.create"}

LEMMA StepPath ==
  ASSUME IInv, NEW r \in Request, Step(r)
  PROVE  Path(r) /\ InFlight(r)
  <1>0. PICK y \in RequestState : y = req[r]
    BY ReqType
  <1>1. ASSUME NEW l, Goto(r, l) PROVE req'[r].pc = l /\ req'[r].code = req[r].code
    BY <1>0, <1>1, ReqType DEF Goto, RequestState
  <1>2. ASSUME NEW c, End(r, c) PROVE req'[r].pc = "done" /\ req'[r].code = c
    BY <1>0, <1>2, ReqType DEF End, RequestState
  <1>3. req[r].pc # "done" => req[r].code = "none"
    BY DEF IInv, LocalShape
  <1> USE <1>1, <1>2, <1>3 DEF Path, InFlight
  <1>4. CASE RegisterFind(r) \/ RegisterCreate(r) \/ IssueFind(r)
    BY <1>4 DEF RegisterFind, RegisterCreate, IssueFind
  <1>5. CASE ClearFind(r)
    <2>1. CASE RowsOf(req[r].user, TypeOf(r)) = {} /\ Goto(r, AfterClear(r))
      BY <1>5, <2>1 DEF ClearFind
    <2>2. CASE \E s \in RowsOf(req[r].user, TypeOf(r)) :
                 req' = [req EXCEPT ![r].pc = "clear.delete", ![r].row = s]
      <3>1. PICK s \in RowsOf(req[r].user, TypeOf(r)) :
              req' = [req EXCEPT ![r].pc = "clear.delete", ![r].row = s]
        BY <2>2
      <3>2. req'[r] = [y EXCEPT !.pc = "clear.delete", !.row = s]
        BY <1>0, <3>1, ReqType
      <3>3. req'[r].pc = "clear.delete" /\ req'[r].row = s /\ req'[r].code = req[r].code
        BY <1>0, <3>2 DEF RequestState
      <3> QED BY <1>5, <3>3 DEF ClearFind
    <2> QED BY <1>5, <2>1, <2>2 DEF ClearFind
  <1>6. CASE ClearDelete(r)
    BY <1>6 DEF ClearDelete
  <1>11. CASE ClearFails(r)
    <2>1. req'[r] = [y EXCEPT !.pc = AfterClear(r), !.kept = TRUE]
      BY <1>0, <1>11, ReqType DEF ClearFails
    <2>2. req'[r].pc = AfterClear(r) /\ req'[r].kept /\ req'[r].code = req[r].code
      BY <1>0, <2>1 DEF RequestState
    <2> QED BY <1>11, <2>2 DEF ClearFails
  <1>7. CASE UidCreate(r) \/ UidCreateFails(r)
    BY <1>7 DEF UidCreate, UidCreateFails, NotSent
  <1>8. CASE Mail(r) \/ UserFind(r) \/ UserWrite(r) \/ Answer(r)
    BY <1>8 DEF Mail, UserFind, UserWrite, Answer
  <1>9. CASE VerifyUID(r)
    <2>1. CASE End(r, "VERIFICATION_UID_NOT_FOUND")
      BY <1>9, <2>1 DEF VerifyUID
    <2>2. CASE ~End(r, "VERIFICATION_UID_NOT_FOUND")
      <3>1. req' = [req EXCEPT ![r].pc = "user.find",
                               ![r].user = uids[req[r].link].user]
        BY <1>9, <2>2 DEF VerifyUID
      <3>2. req'[r] = [y EXCEPT !.pc = "user.find", !.user = uids[req[r].link].user]
        BY <1>0, <3>1, ReqType
      <3>3. req'[r].pc = "user.find" /\ req'[r].code = req[r].code
        BY <1>0, <3>2 DEF RequestState
      <3> QED BY <1>9, <3>3 DEF VerifyUID
    <2> QED BY <2>1, <2>2
  <1>10. CASE Fail(r)
    BY <1>10 DEF Fail
  <1> QED BY <1>4, <1>5, <1>6, <1>7, <1>8, <1>9, <1>10, <1>11 DEF Step

\* A request is as it was, or begins, or takes a step.
LEMMA Moves ==
  ASSUME IInv, [Next]_vars, NEW q \in Request
  PROVE  req'[q] = req[q] \/ Start(q) \/ Step(q)
  BY StepCases, OneRequest DEF RemoveUser, vars

\* A link is mailed by the step of its request from the label mail.
LEMMA MailedBy ==
  ASSUME IInv, [Next]_vars, NEW t \in mailed'
  PROVE  /\ t \in Request
         /\ t \in mailed \/ (Mail(t) /\ req'[t].pc = "answer")
  <1>1. CASE \E r \in Request : Start(r) \/ Step(r)
    <2>1. PICK r \in Request : Start(r) \/ Step(r)
      BY <1>1
    <2>2. \/ mailed' = mailed
          \/ Mail(r) /\ mailed' = mailed \cup {r} /\ req'[r].pc = "answer"
      BY <2>1, RowEffect
    <2>3. t \in mailed \/ (t = r /\ Mail(r) /\ req'[r].pc = "answer")
      BY <2>2
    <2>4. mailed \subseteq Request
      BY DEF IInv, TypeOK
    <2> QED BY <2>3, <2>4
  <1>2. CASE (\E u \in User : RemoveUser(u)) \/ UNCHANGED vars
    BY <1>2 DEF RemoveUser, vars, IInv, TypeOK
  <1> QED BY <1>1, <1>2, StepCases

\* An account that is open or removed is not free again.
LEMMA NotFree ==
  ASSUME IInv, [Next]_vars, NEW u \in User, account[u] # "free"
  PROVE  account'[u] # "free"
  BY AccountEffect DEF RegisterCreate, RemoveUser, IInv, TypeOK

LEMMA AccountHeldStep == IInv /\ LinkInv /\ [Next]_vars => AccountHeld'
  <1> DEFINE Held(t) == \/ req[t].op \in Issuing /\ req[t].pc \in {"clear.find", "clear.delete"}
                        \/ Started(t)
  <1> SUFFICES ASSUME IInv, LinkInv, [Next]_vars, NEW t \in Request, Held(t)'
               PROVE  account'[req'[t].user] # "free"
    BY DEF AccountHeld
  <1>1. ASSUME Held(t), req'[t].user = req[t].user PROVE account'[req'[t].user] # "free"
    <2>1. req[t].user \in User
      BY <1>1 DEF Started, IInv, LocalShape, Issuing, Idle
    <2>2. account[req[t].user] # "free"
      BY <1>1 DEF LinkInv, AccountHeld
    <2> QED BY <1>1, <2>1, <2>2, NotFree
  <1>2. CASE req'[t] = req[t]
    <2>1. Held(t)
      BY <1>2, MailedBy DEF Mail, Started
    <2> QED BY <1>1, <1>2, <2>1
  <1>3. CASE Start(t)
    <2>1. t \notin mailed'
      BY <1>3, StartEffect DEF IInv, RowOrigin
    <2> QED BY <1>3, <2>1, StartEffect DEF Started
  <1>4. CASE Step(t)
    <2>1. /\ req'[t].user = req[t].user /\ req'[t].op = req[t].op
          /\ req[t].user \in User
      BY <1>4, StepPath, Kept DEF InFlight, IInv, LocalShape
    <2>2. CASE t \in mailed'
      <3>1. Held(t)
        BY <2>1, <2>2, MailedBy DEF Mail, Started, IInv, RowOrigin, LocalShape
      <3> QED BY <1>1, <2>1, <3>1
    <2>3. CASE t \notin mailed'
      <3>1. \/ Held(t) \/ account[req[t].user] = "open"
            \/ account' = [account EXCEPT ![req[t].user] = "open"]
        BY <1>4, <2>1, <2>3, StepPath
           DEF Path, AfterClear, Started, Issuing, Using, IInv, LocalShape
      <3> QED BY <1>1, <2>1, <3>1, NotFree DEF IInv, TypeOK
    <2> QED BY <2>2, <2>3
  <1> QED BY <1>2, <1>3, <1>4, Moves

\* What breaks off stays broken off, when it is to mail a link.
LEMMA BrokenOff ==
  ASSUME IInv, [Next]_vars, NEW r \in Request, BrokeOff(r), req[r].op \in Issuing
  PROVE  BrokeOff(r)'
  <1>1. r \notin mailed'
    BY MailedBy DEF BrokeOff, Mail
  <1>2. CASE req'[r] = req[r]
    BY <1>1, <1>2 DEF BrokeOff
  <1>3. CASE Start(r)
    BY <1>3, StartEffect DEF BrokeOff
  <1>4. CASE Step(r)
    BY <1>1, <1>4, StepPath DEF BrokeOff, Path, AfterClear
  <1> QED BY <1>2, <1>3, <1>4, Moves

\* A request about to create its link, or to mail it, does so or breaks off.
LEMMA GoesOn ==
  ASSUME IInv, [Next]_vars, NEW r \in Request, ~BrokeOff(r)',
         req[r].pc \in {"uid.create", "mail"}
  PROVE  \/ req'[r] = req[r]
         \/ /\ req[r].pc = "uid.create" /\ req'[r].pc = "mail"
            /\ uids' = [uids EXCEPT ![r] = [user |-> req[r].user, type |-> TypeOf(r)]]
         \/ req[r].pc = "mail" /\ r \in mailed'
  <1>1. CASE Start(r)
    BY <1>1, StartEffect
  <1>2. CASE Step(r)
    <2>1. req'[r].pc \in {"answer", "done"} => r \in mailed'
      BY <1>2, StepPath DEF Path, BrokeOff
    <2>2. req[r].pc = "uid.create" => r \notin mailed'
      BY MailedBy DEF Mail, IInv, RowOrigin
    <2> QED BY <1>2, <2>1, <2>2, StepPath DEF Path
  <1> QED BY <1>1, <1>2, Moves

\* The last link goes when the next is on its way, unless it is used.
LEMMA LinkSurvivesStep == IInv /\ LinkInv /\ [Next]_vars => LinkSurvives'
  <1> SUFFICES ASSUME IInv, LinkInv, [Next]_vars, NEW u \in User, NEW type \in UidType,
                      account'[u] = "open", OnlyIssues(u, type)',
                      NEW t \in Request, Started(t)', req'[t].user = u,
                      TypeOf(t)' = type
               PROVE  HasLink(u, type)'
    BY DEF LinkSurvives
  <1>1. ASSUME NEW q \in Request, req[q].user = u, TypeOf(q) = type
        PROVE  /\ req[q].op \in Issuing /\ ~BrokeOff(q)
               /\ req'[q].user = u /\ TypeOf(q)' = type /\ ~BrokeOff(q)'
    <2>1. req[q].pc # "idle"
      BY <1>1, IdleHolds
    <2>2. req'[q].op = req[q].op /\ req'[q].user = u /\ TypeOf(q)' = type
      BY <1>1, <2>1, Kept
    <2>3. req[q].op \in Issuing /\ ~BrokeOff(q)'
      BY <2>2 DEF OnlyIssues
    <2> QED BY <2>2, <2>3, BrokenOff
  <1>2. OnlyIssues(u, type)
    BY <1>1 DEF OnlyIssues
  <1>3. CASE req'[t].pc = "uid.create"
    BY <1>3 DEF HasLink
  <1>4. CASE req'[t].pc # "uid.create"
    <2>1. Started(t) /\ req[t].user = u /\ TypeOf(t) = type
      <3>1. CASE req'[t] = req[t]
        BY <3>1, MailedBy DEF Mail, Started, TypeOf
      <3>2. CASE Start(t)
        <4>1. t \notin mailed'
          BY <3>2, StartEffect DEF IInv, RowOrigin
        <4> QED BY <3>2, <4>1, StartEffect DEF Started
      <3>3. CASE Step(t)
        <4>1. /\ req'[t].user = req[t].user /\ req'[t].op = req[t].op
              /\ TypeOf(t)' = TypeOf(t)
          BY <3>3, StepPath, Kept DEF InFlight
        <4>2. CASE t \in mailed'
          BY <4>1, <4>2, MailedBy DEF Mail, Started
        <4>3. CASE t \notin mailed'
          BY <1>4, <3>3, <4>1, <4>3, StepPath DEF Path, AfterClear, Started
        <4> QED BY <4>2, <4>3
      <3> QED BY <3>1, <3>2, <3>3, Moves
    <2>2. account[u] = "open"
      <3>1. account[u] # "free"
        BY <2>1 DEF LinkInv, AccountHeld
      <3>2. ASSUME account[u] = "removed" PROVE FALSE
        BY <3>2, AccountEffect DEF RegisterCreate, RemoveUser, IInv, AccountOrigin
      <3> QED BY <3>1, <3>2 DEF IInv, TypeOK
    <2>3. HasLink(u, type)
      BY <1>2, <2>1, <2>2 DEF LinkInv, LinkSurvives
    <2>4. ASSUME NEW r \in Request, req[r].pc = "uid.create", req[r].user = u,
                 TypeOf(r) = type
          PROVE  HasLink(u, type)'
      <3>1. CASE req'[r] = req[r]
        BY <1>1, <2>4, <3>1 DEF HasLink
      <3>2. CASE /\ req'[r].pc = "mail"
                 /\ uids' = [uids EXCEPT ![r] = [user |-> u, type |-> type]]
        <4>1. [user |-> u, type |-> type] \in Row
          BY DEF Row
        <4>2. uids'[r] = [user |-> u, type |-> type] /\ uids'[r] # None
          BY <3>2, <4>1 DEF IInv, TypeOK
        <4> QED BY <3>2, <4>2 DEF HasLink, RowsOf
      <3> QED BY <1>1, <2>4, <3>1, <3>2, GoesOn
    <2>5. ASSUME NEW r \in Request, r \in RowsOf(u, type), r \in mailed \/ req[r].pc = "mail"
          PROVE  HasLink(u, type)'
      <3>1. /\ uids[r] = [user |-> u, type |-> type] /\ uids[r] # None
            /\ req[r].user = u /\ TypeOf(r) = type
        <4>1. /\ uids[r] # None /\ uids[r].user = u /\ uids[r].type = type
          BY <2>5 DEF RowsOf
        <4>2. uids[r] = [user |-> req[r].user, type |-> TypeOf(r)]
          BY <4>1 DEF IInv, RowOrigin
        <4> QED BY <4>1, <4>2
      <3>2. r \in mailed' \/ req'[r].pc = "mail"
        <4>1. mailed \subseteq mailed'
          BY <3>1, Kept, IdleHolds
        <4> QED BY <1>1, <2>5, <3>1, <4>1, GoesOn
      <3>3. CASE uids'[r] = uids[r]
        BY <3>1, <3>2, <3>3 DEF HasLink, RowsOf
      <3>4. CASE uids'[r] # uids[r]
        <4>1. ~RemoveUser(u)
          BY DEF RemoveUser, IInv, TypeOK
        <4>2. ASSUME NEW v \in User, RemoveUser(v) PROVE FALSE
          <5>1. v # u
            BY <4>1, <4>2
          <5>2. uids'[r] = IF uids[r].user = v THEN None ELSE uids[r]
            BY <3>1, <4>2 DEF RemoveUser
          <5> QED BY <3>1, <3>4, <5>1, <5>2
        <4>3. PICK q \in Request : Start(q) \/ Step(q)
          BY <3>4, <4>2, StepCases DEF vars
        <4>4. ~UidCreate(r)
          BY <3>1 DEF UidCreate, IInv, RowOrigin
        <4>5. CASE UidCreate(q) /\ uids' = [uids EXCEPT ![q] = [user |-> req[q].user,
                                                              type |-> TypeOf(q)]]
          BY <3>4, <4>4, <4>5 DEF IInv, TypeOK
        <4>6. CASE ClearDelete(q) /\ uids' = [uids EXCEPT ![req[q].row] = None]
          <5>1. req[q].pc = "clear.delete" /\ req[q].row = r
            BY <3>4, <4>6 DEF ClearDelete, IInv, TypeOK
          <5>2. req[q].user = u /\ TypeOf(q) = type
            BY <3>1, <5>1 DEF IInv, LinkHeld
          <5>3. req[q].op \in Issuing
            BY <1>1, <5>2
          <5>4. req'[q].pc = "uid.create"
            BY <4>6, <5>3, ReqType DEF ClearDelete, Goto, AfterClear, RequestState
          <5> QED BY <1>1, <5>2, <5>4 DEF HasLink
        <4> QED BY <3>4, <4>3, <4>5, <4>6, RowEffect
      <3> QED BY <3>3, <3>4
    <2> QED BY <2>3, <2>4, <2>5 DEF HasLink
  <1> QED BY <1>3, <1>4

-----------------------------------------------------------------------------
\* A request of a calm user begins when no other is in flight.
LEMMA StartAdmitted ==
  ASSUME IInv, NEW r \in Request, Start(r)
  PROVE  Admitted(req'[r].user)
  <1>1. ASSUME NEW o, NEW l, NEW u, NEW t, Begin(r, o, l, u, t)
        PROVE  Admitted(req'[r].user)
    <2>1. req'[r] = [op |-> o, pc |-> l, user |-> u, link |-> t, row |-> None,
                     kept |-> FALSE, code |-> "none"]
      BY <1>1, BeginEffect
    <2>2. req'[r].user = u
      BY <2>1
    <2>3. Admitted(u)
      BY <1>1 DEF Begin
    <2> QED BY <2>2, <2>3
  <1>2. CASE Register(r)
    BY <1>1, <1>2 DEF Register
  <1>3. CASE Forgot(r) \/ Resend(r)
    BY <1>1, <1>3 DEF Forgot, Resend
  <1>4. CASE ResetPassword(r) \/ VerifyEmail(r)
    BY <1>1, <1>4 DEF ResetPassword, VerifyEmail
  <1> QED BY <1>2, <1>3, <1>4 DEF Start

LEMMA CalmAloneStep == IInv /\ LinkInv /\ [Next]_vars => CalmAlone'
  <1> SUFFICES ASSUME IInv, LinkInv, [Next]_vars, NEW q \in Request, NEW r \in Request,
                      InFlight(q)', InFlight(r)', req'[q].user = req'[r].user,
                      req'[r].user \in Calm
               PROVE  q = r
    BY DEF CalmAlone
  <1>1. ASSUME NEW p \in Request, InFlight(p)'
        PROVE  \/ InFlight(p) /\ req'[p].user = req[p].user
               \/ Start(p) /\ Admitted(req'[p].user)
    BY <1>1, Moves, StepPath, Kept, StartAdmitted DEF InFlight
  <1>2. ASSUME NEW x \in Request, NEW y \in Request, x # y, Start(x),
               Admitted(req'[x].user), req'[x].user \in Calm,
               req'[x].user = req'[y].user, InFlight(y)'
        PROVE  FALSE
    <2>1. req'[y] = req[y]
      BY <1>2, StartEffect
    <2> QED BY <1>2, <2>1 DEF Admitted, InFlight
  <1>3. CASE InFlight(q) /\ InFlight(r) /\ req'[q].user = req[q].user
                /\ req'[r].user = req[r].user
    BY <1>3 DEF LinkInv, CalmAlone
  <1> QED BY <1>1, <1>2, <1>3

\* A row that is there was there before, or is created by its request.
LEMMA Rows ==
  ASSUME IInv, [Next]_vars, NEW u \in User, NEW type \in UidType,
         NEW s \in RowsOf(u, type)'
  PROVE  /\ s \in Request
         /\ \/ s \in RowsOf(u, type) /\ uids'[s] = uids[s]
            \/ /\ UidCreate(s) /\ req[s].pc = "uid.create" /\ req'[s].pc = "mail"
               /\ req[s].user = u /\ TypeOf(s) = type
  <1>1. s \in Request /\ uids'[s] # None /\ uids'[s].user = u /\ uids'[s].type = type
    BY DEF RowsOf
  <1>2. CASE uids'[s] = uids[s]
    BY <1>1, <1>2 DEF RowsOf
  <1>3. CASE uids'[s] # uids[s]
    <2>1. PICK q \in Request : Start(q) \/ Step(q)
      BY <1>1, <1>3, StepCases DEF RemoveUser, vars
    <2>2. CASE /\ UidCreate(q) /\ req'[q].pc = "mail"
               /\ uids' = [uids EXCEPT ![q] = [user |-> req[q].user, type |-> TypeOf(q)]]
      <3>1. q = s
        BY <1>3, <2>2 DEF IInv, TypeOK
      <3>2. uids'[s] = [user |-> req[s].user, type |-> TypeOf(s)]
        BY <2>2, <3>1 DEF IInv, TypeOK
      <3> QED BY <1>1, <2>2, <3>1, <3>2 DEF UidCreate
    <2>3. CASE ClearDelete(q) /\ uids' = [uids EXCEPT ![req[q].row] = None]
      BY <1>1, <1>3, <2>3 DEF IInv, TypeOK
    <2> QED BY <1>3, <2>1, <2>2, <2>3, RowEffect
  <1> QED BY <1>1, <1>2, <1>3

\* A clear that has thrown has done so for good.
LEMMA CleanBefore ==
  ASSUME IInv, [Next]_vars, NEW u \in User, NEW type \in UidType, Clean(u, type)'
  PROVE  Clean(u, type)
  <1> SUFFICES ASSUME NEW q \in Request, req[q].user = u, TypeOf(q) = type, req[q].kept
               PROVE  FALSE
    BY DEF Clean
  <1>1. req[q].pc # "idle"
    BY IdleHolds
  <1> QED BY <1>1, Kept DEF Clean

\* A calm user's row is found by clear and deleted before the next is created.
LEMMA CalmRowsStep == IInv /\ LinkInv /\ [Next]_vars => CalmRows'
  <1> SUFFICES ASSUME IInv, LinkInv, [Next]_vars PROVE CalmRows'
    OBVIOUS
  <1>0. /\ \A r \in Request : TypeOf(r) \in UidType /\ TypeOf(r)' \in UidType
        /\ \A u \in Calm : u \in User
    BY CalmAssumption DEF TypeOf, UidType
  <1>1. ASSUME NEW q \in Request, NEW s \in Request, UidCreate(s), req'[s].pc = "mail",
               Start(q) \/ Step(q)
        PROVE  q = s
    BY <1>1, OneRequest DEF UidCreate
  <1>2. ASSUME NEW u \in Calm, NEW type \in UidType, Clean(u, type)',
               NEW s1 \in RowsOf(u, type)', NEW s2 \in RowsOf(u, type)'
        PROVE  s1 = s2
    <2>0. Clean(u, type)
      BY <1>0, <1>2, CleanBefore
    <2>1. CASE s1 \in RowsOf(u, type) /\ s2 \in RowsOf(u, type)
      BY <2>0, <2>1 DEF LinkInv, CalmRows, RowsOf
    <2>2. ASSUME NEW x \in Request, NEW y \in Request, y \in RowsOf(u, type),
                 req[x].pc = "uid.create", req[x].user = u, TypeOf(x) = type
          PROVE  FALSE
      BY <2>0, <2>2 DEF LinkInv, CalmRows
    <2>3. CASE s1 \in Request /\ s2 \in Request /\ UidCreate(s1) /\ UidCreate(s2)
               /\ req'[s1].pc = "mail" /\ req'[s2].pc = "mail"
      BY <1>1, <2>3 DEF Step
    <2> QED BY <1>0, <2>1, <2>2, <2>3, Rows
  <1>3. ASSUME NEW r \in Request, NEW u \in Calm, NEW type \in UidType,
               u = req'[r].user, type = TypeOf(r)', Clean(u, type)',
               NEW s \in RowsOf(u, type)'
        PROVE  /\ req'[r].pc # "uid.create"
               /\ req'[r].pc = "clear.delete" => s = req'[r].row
               /\ (req'[r].op \in Using /\ (req'[r].pc = "answer" \/ req'[r].code = "OK"))
                    => s # req'[r].link
    <2>0. s \in Request
      BY DEF RowsOf
    <2>5. Clean(u, type) /\ ~req'[r].kept
      BY <1>0, <1>3, CleanBefore DEF Clean
    <2>1. \/ s \in RowsOf(u, type) /\ uids'[s] = uids[s]
          \/ /\ UidCreate(s) /\ req[s].pc = "uid.create" /\ req'[s].pc = "mail"
             /\ req[s].user = u
      BY <1>0, Rows
    <2>2. CASE Start(r)
      BY <2>2, StartEffect
    <2>3. CASE req'[r] = req[r]
      <3>1. u = req[r].user /\ type = TypeOf(r)
        BY <1>3, <2>3 DEF TypeOf
      <3>2. CASE s \in RowsOf(u, type)
        BY <2>0, <2>3, <2>5, <3>1, <3>2 DEF LinkInv, CalmRows
      <3>3. CASE /\ UidCreate(s) /\ req[s].pc = "uid.create" /\ req'[s].pc = "mail"
                 /\ req[s].user = u
        <4>1. InFlight(r) => r = s
          BY <2>0, <3>1, <3>3 DEF LinkInv, CalmAlone, InFlight
        <4>2. r # s
          BY <2>3, <3>3
        <4>3. req[r].op \in Using => s # req[r].link
          BY <2>0, <3>3 DEF IInv, LinkHeld, RowOrigin
        <4> QED BY <2>3, <4>1, <4>2, <4>3 DEF InFlight
      <3> QED BY <2>1, <3>2, <3>3
    <2>4. CASE Step(r)
      <3>1. /\ u = req[r].user /\ type = TypeOf(r)
            /\ req'[r].op = req[r].op /\ req'[r].link = req[r].link
        BY <1>3, <2>4, StepPath, Kept DEF InFlight
      <3>2. CASE UidCreate(s) /\ req[s].pc = "uid.create" /\ req'[s].pc = "mail"
        <4>1. r = s
          BY <2>0, <1>1, <2>4, <3>2
        <4>2. req[r].op \notin Using /\ req'[r].pc = "mail"
          BY <3>2, <4>1 DEF IInv, LocalShape, Issuing, Using
        <4> QED BY <3>1, <4>2
      <3>3. CASE s \in RowsOf(u, type) /\ uids'[s] = uids[s]
        <4>1. uids[s] # None
          BY <3>3 DEF RowsOf
        <4>2. ~ /\ req[r].pc = "clear.find"
                /\ RowsOf(req[r].user, TypeOf(r)) = {}
          BY <3>1, <3>3
        <4>3. ~ /\ req[r].pc = "clear.delete"
                /\ uids' = [uids EXCEPT ![req[r].row] = None]
          <5>1. req[r].pc = "clear.delete" => s = req[r].row
            BY <2>0, <2>5, <3>1, <3>3 DEF LinkInv, CalmRows
          <5> QED BY <2>0, <3>3, <4>1, <5>1 DEF IInv, TypeOK
        <4>4. CASE req'[r].code = "none"
          <5>1. req'[r].pc # "uid.create"
            BY <2>4, <2>5, <3>1, <4>2, <4>3, <4>4, StepPath DEF Path, AfterClear
          <5>2. req'[r].pc = "clear.delete" => s = req'[r].row
            <6>1. req'[r].pc = "clear.delete" => req'[r].row \in RowsOf(u, type)
              BY <2>4, <3>1, StepPath DEF Path, AfterClear
            <6> QED BY <2>0, <2>5, <3>3, <6>1 DEF LinkInv, CalmRows, RowsOf
          <5>3. req'[r].pc = "answer" => req[r].op \notin Using
            BY <2>4, <2>5, <3>1, <4>2, <4>3, <4>4, StepPath
               DEF Path, AfterClear, IInv, LocalShape, Issuing, Using
          <5> QED BY <3>1, <4>4, <5>1, <5>2, <5>3
        <4>5. CASE req'[r].pc = "done"
          <5>1. (req'[r].code = "OK" /\ req[r].op \in Using) => req[r].pc = "answer"
            BY <2>4, <4>5, StepPath DEF Path, IInv, LocalShape, Using
          <5>2. (req[r].op \in Using /\ req[r].pc = "answer") => s # req[r].link
            BY <2>0, <2>5, <3>1, <3>3 DEF LinkInv, CalmRows
          <5> QED BY <3>1, <4>5, <5>1, <5>2
        <4> QED BY <2>4, <4>4, <4>5, StepPath DEF Path
      <3> QED BY <2>1, <3>2, <3>3
    <2> QED BY <2>2, <2>3, <2>4, Moves
  <1>4. ASSUME NEW r \in Request, NEW s \in Request, req'[r].user \in Calm,
               Clean(req[r].user, TypeOf(r))', s \in RowsOf(req[r].user, TypeOf(r))'
        PROVE  /\ req'[r].pc # "uid.create"
               /\ req'[r].pc = "clear.delete" => s = req'[r].row
               /\ (req'[r].op \in Using /\ (req'[r].pc = "answer" \/ req'[r].code = "OK"))
                    => s # req'[r].link
    <2>1. PICK u \in Calm, type \in UidType : u = req'[r].user /\ type = TypeOf(r)'
      BY <1>0, <1>4
    <2>2. s \in RowsOf(u, type)' /\ Clean(u, type)'
      BY <1>4, <2>1 DEF RowsOf, Clean
    <2> QED BY <1>3, <2>1, <2>2
  <1> QED BY <1>2, <1>4 DEF CalmRows

LEMMA InitLinkInv == Init => LinkInv
  BY DEF Init, LinkInv, AccountHeld, LinkSurvives, CalmAlone, CalmRows, Started, InFlight,
         RowsOf, Idle, Issuing, Using

LEMMA LinkInvariance == Spec => []LinkInv
  <1>1. IInv /\ LinkInv /\ [Next]_vars => LinkInv'
    BY AccountHeldStep, LinkSurvivesStep, CalmAloneStep, CalmRowsStep DEF LinkInv
  <1> QED BY <1>1, Invariance, InitLinkInv, PTL DEF Spec

-----------------------------------------------------------------------------
(***************************************************************************)
(* Every variable has its type in every reachable state.                   *)
(***************************************************************************)
THEOREM TypeCorrect == Spec => []TypeOK
  BY Invariance, PTL DEF IInv

(***************************************************************************)
(* Passwords change and addresses are verified only by a link mailed for   *)
(* that purpose to that address, however many are out at the time.         *)
(***************************************************************************)
THEOREM OnlyByMail == Spec => []ProvenByMail
  BY Invariance, PTL DEF IInv

(***************************************************************************)
(* Registrations that race for one address create one account.             *)
(***************************************************************************)
THEOREM OneAccount == Spec => []OneAccountPerAddress
  <1>1. IInv => OneAccountPerAddress
    BY DEF IInv, AccountOrigin, Registered, OneAccountPerAddress
  <1> QED BY <1>1, Invariance, PTL

(***************************************************************************)
(* No request deletes the link of another purpose or of another user.      *)
(***************************************************************************)
THEOREM OwnLinksOnly == Spec => ClearedByItsOwn
  <1> DEFINE
        Own == \A s \in Request :
                 (uids[s] # None /\ uids'[s] = None) =>
                   \/ account'[uids[s].user] = "removed"
                   \/ \E r \in Request : /\ req[r].pc = "clear.delete"
                                         /\ req'[r].pc = AfterClear(r)
                                         /\ req[r].user = uids[s].user
                                         /\ TypeOf(r) = uids[s].type
  <1>1. ASSUME IInv, [Next]_vars, NEW s \in Request, uids[s] # None, uids'[s] = None
        PROVE  \/ account'[uids[s].user] = "removed"
               \/ \E r \in Request : /\ req[r].pc = "clear.delete"
                                     /\ req'[r].pc = AfterClear(r)
                                     /\ req[r].user = uids[s].user
                                     /\ TypeOf(r) = uids[s].type
    <2>1. CASE \E r \in Request : ClearDelete(r) /\ s = req[r].row
      <3>1. PICK r \in Request : ClearDelete(r) /\ s = req[r].row
        BY <2>1
      <3>2. req[r].pc = "clear.delete" /\ req'[r].pc = AfterClear(r)
        BY <3>1, <1>1, ReqType DEF ClearDelete, Goto
      <3>3. req[s].user = req[r].user /\ TypeOf(s) = TypeOf(r)
        BY <1>1, <3>1, <3>2 DEF IInv, LinkHeld
      <3>4. uids[s] = [user |-> req[s].user, type |-> TypeOf(s)]
        BY <1>1 DEF IInv, RowOrigin
      <3> QED BY <3>2, <3>3, <3>4
    <2>2. CASE \E u \in User : RemoveUser(u)
      BY <1>1, <2>2 DEF RemoveUser, IInv, TypeOK
    <2>3. CASE UNCHANGED vars
      BY <1>1, <2>3 DEF vars
    <2>4. CASE \E r \in Request : Start(r) \/ Step(r)
      <3>1. PICK r \in Request : Start(r) \/ Step(r)
        BY <2>4
      <3>2. ASSUME UidCreate(r), uids' = [uids EXCEPT ![r] =
                       [user |-> req[r].user, type |-> TypeOf(r)]]
            PROVE  FALSE
        <4>1. uids[r] = None
          BY <1>1, <3>2 DEF UidCreate, IInv, RowOrigin
        <4> QED BY <1>1, <3>2, <4>1 DEF IInv, TypeOK
      <3>3. ClearDelete(r) /\ uids' = [uids EXCEPT ![req[r].row] = None]
        BY <1>1, <3>1, <3>2, RowEffect
      <3>4. s = req[r].row
        BY <1>1, <3>3 DEF IInv, TypeOK
      <3> QED BY <2>1, <3>3, <3>4
    <2> QED BY <1>1, <2>2, <2>3, <2>4, StepCases
  <1>2. IInv /\ [Next]_vars => [Own]_vars
    BY <1>1
  <1> QED BY <1>2, Invariance, PTL DEF Spec, ClearedByItsOwn

(***************************************************************************)
(* sendForgotPasswordEmail, resendVerificationEmail and register delete    *)
(* the link before their own; of any number that overlap, one leaves a     *)
(* link that opens: nobody is left with dead links only.                   *)
(***************************************************************************)
THEOREM LinkRemains == Spec => []SomeLinkSurvives
  <1>1. IInv /\ LinkInv => SomeLinkSurvives
    BY DEF IInv, LinkInv, LinkSurvives, SomeLinkSurvives, Started, RowOrigin, TypeOK
  <1> QED BY <1>1, Invariance, LinkInvariance, PTL

(***************************************************************************)
(* clearVerificationUID deletes any row of the user and purpose, and its   *)
(* caller does not look at what it returns; for a user whose requests do   *)
(* not overlap, and as long as no such deletion has thrown, it is the row  *)
(* that was accepted.                                                      *)
(***************************************************************************)
THEOREM CalmLinksAreDeleted == Spec => []CalmLinkDeleted
  <1>1. ASSUME IInv, LinkInv, NEW r \in Request, req[r].user \in Calm,
               Clean(req[r].user, TypeOf(r)), req[r].op \in Using, req[r].code = "OK"
        PROVE  uids[req[r].link] = None
    <2>1. /\ req[r].link \in Request /\ TypeOf(req[r].link) = TypeOf(r)
          /\ req[req[r].link].user = req[r].user
      BY <1>1 DEF IInv, LinkHeld, TypeOK
    <2>2. ASSUME uids[req[r].link] # None
          PROVE  req[r].link \in RowsOf(req[r].user, TypeOf(r))
      <3>1. uids[req[r].link] = [user |-> req[r].user, type |-> TypeOf(r)]
        BY <1>1, <2>1, <2>2 DEF IInv, RowOrigin
      <3> QED BY <2>1, <2>2, <3>1 DEF RowsOf
    <2> QED BY <1>1, <2>1, <2>2 DEF LinkInv, CalmRows
  <1>2. IInv /\ LinkInv => CalmLinkDeleted
    BY <1>1 DEF CalmLinkDeleted, LinkDeleted
  <1> QED BY <1>2, Invariance, LinkInvariance, PTL
=============================================================================
