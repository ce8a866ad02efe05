------------------------- MODULE OneTimeCodes_proofs -------------------------
(***************************************************************************)
(* What TLAPS proves of OneTimeCodes, for any number of users, requests    *)
(* and codes.                                                              *)
(***************************************************************************)
EXTENDS OneTimeCodes, TLAPS

USE NoneAssumption

\* The steps of Next, in the groups the proofs below go by.
LEMMA StepCases ==
  ASSUME [Next]_vars
  PROVE  \/ \E r \in Request : Start(r) \/ Step(r) \/ Fail(r)
         \/ \E r \in Request : ExpireCode(r)
         \/ \E u \in User : RemoveUser(u)
         \/ UNCHANGED vars
  BY DEF Next, AtRest

\* The type of req alone.
LEMMA ReqType == IInv => req \in [Request -> RequestState]
  BY DEF IInv, TypeOK

LEMMA BeginEffect ==
  ASSUME IInv, NEW r \in Request,
         NEW o \in {"resendLogin", "verifyLogin", "sendPhone", "verifyPhone"},
         NEW l \in {"login.user", "phone.clear", "phone.find"},
         NEW u \in User, NEW c \in Code \cup {None},
         NEW p \in Phone \cup {None}, NEW remember \in BOOLEAN,
         Begin(r, o, l, u, c, p, remember)
  PROVE  /\ req[r].pc = "idle" /\ UNCHANGED tables /\ Admitted(u)
         /\ req' \in [Request -> RequestState]
         /\ \A q \in Request \ {r} : req'[q] = req[q]
         /\ req'[r].op = o /\ req'[r].pc = l /\ req'[r].user = u
         /\ req'[r].phone = p /\ req'[r].row = None /\ req'[r].answer = "none"
  <1> DEFINE s == [op |-> o, pc |-> l, user |-> u, code |-> c, phone |-> p,
                   remember |-> remember, row |-> None, answer |-> "none"]
  <1>1. s \in RequestState
    BY DEF RequestState, Labels
  <1>2. /\ req[r].pc = "idle" /\ req' = [req EXCEPT ![r] = s]
        /\ UNCHANGED tables /\ Admitted(u)
    BY DEF Begin
  <1>3. /\ req' \in [Request -> RequestState] /\ req'[r] = s
        /\ \A q \in Request \ {r} : req'[q] = req[q]
    <2> HIDE DEF s, RequestState
    <2> QED BY <1>1, <1>2, ReqType
  <1> QED BY <1>2, <1>3

\* A request starts from nothing, at a moment its user agreed to.
LEMMA StartEffect ==
  ASSUME IInv, NEW r \in Request, Start(r)
  PROVE  /\ req[r].pc = "idle"
         /\ UNCHANGED tables
         /\ req' \in [Request -> RequestState]
         /\ \A q \in Request \ {r} : req'[q] = req[q]
         /\ \E u \in User : Admitted(u) /\ req'[r].user = u
         /\ req'[r].answer = "none" /\ req'[r].row = None
         /\ \/ req'[r].pc = "login.user" /\ req'[r].op \in {"resendLogin", "verifyLogin"}
            \/ /\ req'[r].pc = "phone.clear" /\ req'[r].op = "sendPhone"
               /\ req'[r].phone \in Phone
            \/ req'[r].pc = "phone.find" /\ req'[r].op = "verifyPhone"
  <1>2. CASE ResendLoginCode(r)
    <2>1. PICK u \in User : Begin(r, "resendLogin", "login.user", u, None, None, FALSE)
      BY <1>2 DEF ResendLoginCode
    <2> QED BY <2>1, BeginEffect
  <1>3. CASE VerifyLoginCode(r)
    <2>1. PICK u \in User, c \in Code, remember \in BOOLEAN :
            Begin(r, "verifyLogin", "login.user", u, c, None, remember)
      BY <1>3 DEF VerifyLoginCode
    <2> QED BY <2>1, BeginEffect
  <1>4. CASE SendPhoneVerificationCode(r)
    <2>1. PICK u \in User, p \in Phone :
            Begin(r, "sendPhone", "phone.clear", u, None, p, FALSE)
      BY <1>4 DEF SendPhoneVerificationCode
    <2>2. /\ req[r].pc = "idle" /\ UNCHANGED tables /\ Admitted(u)
          /\ req' \in [Request -> RequestState]
          /\ \A q \in Request \ {r} : req'[q] = req[q]
          /\ req'[r].op = "sendPhone" /\ req'[r].pc = "phone.clear"
          /\ req'[r].user = u /\ req'[r].phone = p
          /\ req'[r].row = None /\ req'[r].answer = "none"
      BY <2>1, BeginEffect
    <2> QED BY <2>2
  <1>5. CASE VerifyPhoneCode(r)
    <2>1. PICK u \in User, c \in Code :
            Begin(r, "verifyPhone", "phone.find", u, c, None, FALSE)
      BY <1>5 DEF VerifyPhoneCode
    <2> QED BY <2>1, BeginEffect
  <1> QED BY <1>2, <1>3, <1>4, <1>5 DEF Start

-----------------------------------------------------------------------------
(***************************************************************************)
(* What a step leaves of its request.                                      *)
(***************************************************************************)
Others(r) == \A q \in Request \ {r} : req'[q] = req[q]

\* What it set out to do, and for whom.
Same(r) == /\ req'[r].op = req[r].op /\ req'[r].user = req[r].user
           /\ req'[r].code = req[r].code /\ req'[r].remember = req[r].remember

OneChanged(r) == /\ req' \in [Request -> RequestState]
                 /\ Others(r)
                 /\ Same(r)
                 /\ req[r].pc \notin {"idle", "done"}

\* A change of one request, whose new state has its type.
LEMMA Change ==
  ASSUME IInv, NEW r \in Request, NEW s \in RequestState,
         req'[r] = s, Others(r), req' = [q \in Request |-> req'[q]]
  PROVE  req' \in [Request -> RequestState]
  <1> HIDE DEF RequestState
  <1> QED BY ReqType DEF Others

\* It goes to a label,
LEMMA GotoEffect ==
  ASSUME IInv, NEW r \in Request, NEW l \in Labels \ {"idle"}, Goto(r, l), InFlight(r)
  PROVE  /\ OneChanged(r)
         /\ req'[r].pc = l
         /\ req'[r].phone = req[r].phone /\ req'[r].row = req[r].row
         /\ req'[r].answer = req[r].answer
  <1>1. PICK y \in RequestState : y = req[r]
    BY ReqType
  <1>2. req'[r] = [y EXCEPT !.pc = l]
    BY <1>1, ReqType DEF Goto
  <1>3. [y EXCEPT !.pc = l] \in RequestState
    BY <1>1 DEF RequestState
  <1>4. Others(r) /\ req' = [q \in Request |-> req'[q]]
    BY ReqType DEF Goto, Others
  <1>5. req' \in [Request -> RequestState]
    BY <1>2, <1>3, <1>4, Change
  <1>6. /\ Same(r)
        /\ req'[r].pc = l
        /\ req'[r].phone = req[r].phone /\ req'[r].row = req[r].row
        /\ req'[r].answer = req[r].answer
    BY <1>1, <1>2 DEF RequestState, Same
  <1> QED BY <1>4, <1>5, <1>6 DEF OneChanged, InFlight

\* to a label with a row it has found,
LEMMA GotoWithEffect ==
  ASSUME IInv, NEW r \in Request, NEW l \in Labels \ {"idle"}, NEW t \in Request,
         GotoWith(r, l, t), InFlight(r)
  PROVE  /\ OneChanged(r)
         /\ req'[r].pc = l /\ req'[r].row = t
         /\ req'[r].phone = req[r].phone /\ req'[r].answer = req[r].answer
  <1>1. PICK y \in RequestState : y = req[r]
    BY ReqType
  <1>2. req'[r] = [y EXCEPT !.pc = l, !.row = t]
    BY <1>1, ReqType DEF GotoWith
  <1>3. [y EXCEPT !.pc = l, !.row = t] \in RequestState
    BY <1>1 DEF RequestState
  <1>4. Others(r) /\ req' = [q \in Request |-> req'[q]]
    BY ReqType DEF GotoWith, Others
  <1>5. req' \in [Request -> RequestState]
    BY <1>2, <1>3, <1>4, Change
  <1>6. /\ Same(r)
        /\ req'[r].pc = l /\ req'[r].row = t
        /\ req'[r].phone = req[r].phone /\ req'[r].answer = req[r].answer
    BY <1>1, <1>2 DEF RequestState, Same
  <1> QED BY <1>4, <1>5, <1>6 DEF OneChanged, InFlight

Answers == {"OK", "INVALID_INPUT", "SESSION_EXPIRED", "USER_NOT_FOUND", "NOT_FOUND",
            "FAILED"}

\* or is answered.
LEMMA EndEffect ==
  ASSUME IInv, NEW r \in Request, NEW a \in Answers, End(r, a), InFlight(r)
  PROVE  /\ OneChanged(r)
         /\ req'[r].pc = "done" /\ req'[r].answer = a
         /\ req'[r].phone = req[r].phone /\ req'[r].row = req[r].row
  <1>1. PICK y \in RequestState : y = req[r]
    BY ReqType
  <1>2. req'[r] = [y EXCEPT !.pc = "done", !.answer = a]
    BY <1>1, ReqType DEF End
  <1>3. [y EXCEPT !.pc = "done", !.answer = a] \in RequestState
    <2>1. /\ "done" \in Labels
          /\ a \in {"none", "OK", "INVALID_INPUT", "SESSION_EXPIRED",
                    "USER_NOT_FOUND", "NOT_FOUND", "FAILED"}
      BY DEF Labels, Answers
    <2> QED BY <1>1, <2>1 DEF RequestState
  <1>4. Others(r) /\ req' = [q \in Request |-> req'[q]]
    BY ReqType DEF End, Others
  <1>5. req' \in [Request -> RequestState]
    BY <1>2, <1>3, <1>4, Change
  <1>6. /\ Same(r)
        /\ req'[r].pc = "done" /\ req'[r].answer = a
        /\ req'[r].phone = req[r].phone /\ req'[r].row = req[r].row
    BY <1>1, <1>2 DEF RequestState, Same
  <1> QED BY <1>4, <1>5, <1>6 DEF OneChanged, InFlight

-----------------------------------------------------------------------------
(***************************************************************************)
(* What a step does: the label it goes to, and the rows it writes.         *)
(***************************************************************************)
Onward(p, q) ==
    \/ p = "login.user" /\ q \in {"login.clear", "login.find"}
    \/ p = "login.clear" /\ q = "login.create"
    \/ p = "login.create" /\ q = "send"
    \/ p = "login.find" /\ q = "login.delete"
    \/ p = "login.delete" /\ q \in {"device.clear", "sign"}
    \/ p = "device.clear" /\ q \in {"device.create", "sign"}
    \/ p = "device.create" /\ q = "sign"
    \/ p = "sign" /\ q = "answer"
    \/ p = "phone.clear" /\ q = "phone.create"
    \/ p = "phone.create" /\ q = "send"
    \/ p = "phone.find" /\ q = "phone.user"
    \/ p = "phone.user" /\ q = "phone.write"
    \/ p = "phone.write" /\ q = "phone.delete"
    \/ p = "phone.delete" /\ q = "answer"
    \/ p = "send" /\ q = "answer"

Path(r) ==
    /\ OneChanged(r)
    /\ \/ /\ Onward(req[r].pc, req'[r].pc) /\ req'[r].answer = "none"
          /\ req[r].pc = "login.user" =>
               (req'[r].pc = "login.clear" <=> req[r].op = "resendLogin")
       \/ /\ req'[r].pc = "done" /\ req'[r].answer \in Answers
          /\ req'[r].answer = "OK" => req[r].pc = "answer"
          /\ req[r].pc = "login.create" => req'[r].answer = "FAILED"

LoginChange(r) ==
    \/ /\ login' = login
       /\ req[r].pc \in {"login.clear", "login.create", "login.delete"} =>
            req'[r].pc = "done"
    \/ /\ req[r].pc = "login.clear" /\ req'[r].pc = "login.create"
       /\ login' = [s \in Request |->
                      IF login[s] # None /\ login[s].user = req[r].user
                      THEN None ELSE login[s]]
    \/ /\ req[r].pc = "login.create" /\ req'[r].pc = "send"
       /\ \E row \in LoginRow : /\ row.user = req[r].user
                               /\ login' = [login EXCEPT ![r] = row]
    \/ /\ req[r].pc = "login.delete" /\ req'[r].pc \in {"device.clear", "sign"}
       /\ login[req[r].row] # None
       /\ login' = [login EXCEPT ![req[r].row] = None]

PhoneChange(r) ==
    \/ /\ phone' = phone
       /\ req[r].pc \in {"phone.clear", "phone.create", "phone.delete"} =>
            req'[r].pc = "done"
    \/ /\ req[r].pc = "phone.clear" /\ req'[r].pc = "phone.create"
       /\ phone' = [s \in Request |->
                      IF phone[s] # None /\ phone[s].user = req[r].user
                      THEN None ELSE phone[s]]
    \/ /\ req[r].pc = "phone.create" /\ req'[r].pc = "send"
       /\ \E row \in PhoneRow : /\ row.user = req[r].user
                               /\ row.phoneNumber = req[r].phone
                               /\ phone' = [phone EXCEPT ![r] = row]
    \/ /\ req[r].pc = "phone.delete" /\ req'[r].pc = "answer"
       /\ phone[req[r].row] # None
       /\ phone' = [phone EXCEPT ![req[r].row] = None]

RowChange(r) ==
    \/ /\ req'[r].row = req[r].row /\ req'[r].phone = req[r].phone
       /\ req'[r].pc \notin {"login.delete", "phone.user"}
    \/ /\ req[r].pc = "login.find" /\ req'[r].pc = "login.delete"
       /\ req'[r].row \in LoginMatches(r) /\ req'[r].phone = req[r].phone
    \/ /\ req[r].pc = "phone.find" /\ req'[r].pc = "phone.user"
       /\ req'[r].row \in PhoneMatches(r)
       /\ req'[r].phone = phone[req'[r].row].phoneNumber

NumberChange(r) ==
    \/ number' = number
    \/ /\ req[r].pc = "phone.write" /\ req'[r].pc = "phone.delete"
       /\ number' = [number EXCEPT ![req[r].user] = req[r].phone]

Effect(r) == /\ Path(r) /\ LoginChange(r) /\ PhoneChange(r) /\ RowChange(r)
             /\ NumberChange(r)
             /\ users' = users /\ expired' = expired
             /\ created' \in Nat /\ device' \subseteq Request

\* A step that writes nothing, and gives its request no row.
LEMMA QuietGoto ==
  ASSUME IInv, NEW r \in Request, NEW l \in Labels, Goto(r, l), UNCHANGED tables,
         Onward(req[r].pc, l),
         req[r].pc \in {"login.user", "device.clear", "device.create", "sign",
                       "phone.user", "send"},
         req[r].pc = "login.user" => (l = "login.clear" <=> req[r].op = "resendLogin")
  PROVE  Effect(r)
  <1>1. InFlight(r) /\ l # "idle" /\ req[r].answer = "none"
    BY DEF InFlight, Onward, IInv, LocalShape
  <1>2. /\ OneChanged(r)
        /\ req'[r].pc = l
        /\ req'[r].phone = req[r].phone /\ req'[r].row = req[r].row
        /\ req'[r].answer = req[r].answer
    BY <1>1, GotoEffect
  <1>3. Path(r)
    BY <1>1, <1>2 DEF Path
  <1>4. LoginChange(r) /\ PhoneChange(r) /\ RowChange(r) /\ NumberChange(r)
    BY <1>2 DEF LoginChange, PhoneChange, RowChange, NumberChange, tables, Onward
  <1> QED BY <1>3, <1>4 DEF Effect, tables, IInv, TypeOK

\* An answer changes no row.
LEMMA QuietEnd ==
  ASSUME IInv, NEW r \in Request, NEW a \in Answers, End(r, a), InFlight(r),
         UNCHANGED tables, a = "OK" => req[r].pc = "answer",
         req[r].pc = "login.create" => a = "FAILED"
  PROVE  Effect(r)
  <1>1. /\ OneChanged(r)
        /\ req'[r].pc = "done" /\ req'[r].answer = a
        /\ req'[r].phone = req[r].phone /\ req'[r].row = req[r].row
    BY EndEffect
  <1>2. Path(r)
    BY <1>1 DEF Path
  <1>3. LoginChange(r) /\ PhoneChange(r) /\ RowChange(r) /\ NumberChange(r)
    BY <1>1 DEF LoginChange, PhoneChange, RowChange, NumberChange, tables
  <1> QED BY <1>2, <1>3 DEF Effect, tables, IInv, TypeOK

\* A step of a request in flight goes to a label and is not answered.
LEMMA Going ==
  ASSUME IInv, NEW r \in Request, NEW l \in Labels, Goto(r, l), Onward(req[r].pc, l)
  PROVE  /\ OneChanged(r)
         /\ req'[r].pc = l
         /\ req'[r].phone = req[r].phone /\ req'[r].row = req[r].row
         /\ req'[r].answer = "none"
  <1>1. InFlight(r) /\ l # "idle" /\ req[r].answer = "none"
    BY DEF InFlight, Onward, IInv, LocalShape
  <1> QED BY <1>1, GotoEffect

LEMMA StepEffect ==
  ASSUME IInv, NEW r \in Request, Step(r) \/ Fail(r)
  PROVE  Effect(r)
  <1> USE DEF Onward
  <1>f. InFlight(r)
    BY DEF Step, Fail, InFlight, LoginUser, LoginClear, LoginCreate, LoginFind,
           LoginDelete, DeviceClear, DeviceCreate, DeviceFails, Sign, PhoneClear,
           PhoneCreate, PhoneFind, PhoneUser, PhoneWrite, PhoneDelete, Send, Answer
  <1>l. {"login.clear", "login.create", "login.find", "login.delete", "device.clear",
         "device.create", "sign", "phone.create", "phone.user", "phone.write",
         "phone.delete", "send", "answer"} \subseteq Labels
    BY DEF Labels
  <1>t. req[r].user \in User /\ req[r].answer = "none"
    BY <1>f DEF InFlight, IInv, LocalShape
  <1>1. CASE LoginUser(r)
    <2>1. req[r].pc = "login.user" /\ UNCHANGED tables
      BY <1>1 DEF LoginUser
    <2>2. \/ End(r, "USER_NOT_FOUND")
          \/ Goto(r, "login.clear") /\ req[r].op = "resendLogin"
          \/ Goto(r, "login.find") /\ req[r].op # "resendLogin"
      BY <1>1 DEF LoginUser
    <2> QED BY <1>f, <1>l, <2>1, <2>2, QuietGoto, QuietEnd DEF Answers
  <1>2. CASE LoginClear(r)
    <2>1. /\ OneChanged(r) /\ req'[r].pc = "login.create"
          /\ req'[r].phone = req[r].phone /\ req'[r].row = req[r].row
          /\ req'[r].answer = "none"
      BY <1>l, <1>2, Going DEF LoginClear
    <2> QED BY <1>2, <2>1
         DEF LoginClear, Effect, Path, LoginChange, PhoneChange, RowChange, NumberChange,
             IInv, TypeOK
  <1>3. CASE LoginCreate(r)
    <2>1. /\ OneChanged(r) /\ req'[r].pc = "send"
          /\ req'[r].phone = req[r].phone /\ req'[r].row = req[r].row
          /\ req'[r].answer = "none"
      BY <1>l, <1>3, Going DEF LoginCreate
    <2>2. PICK c \in Code :
            login' = [login EXCEPT ![r] = [user |-> req[r].user, code |-> c,
                                           createdAt |-> created]]
      BY <1>3 DEF LoginCreate
    <2>3. [user |-> req[r].user, code |-> c, createdAt |-> created] \in LoginRow
      BY <1>t DEF LoginRow, IInv, TypeOK
    <2>4. LoginChange(r)
      BY <1>3, <2>1, <2>2, <2>3 DEF LoginChange, LoginCreate
    <2> QED BY <1>3, <2>1, <2>4
         DEF LoginCreate, Effect, Path, PhoneChange, RowChange, NumberChange, IInv, TypeOK
  <1>4. CASE LoginFind(r)
    <2>1. req[r].pc = "login.find" /\ UNCHANGED tables
      BY <1>4 DEF LoginFind
    <2>2. \/ End(r, "INVALID_INPUT") \/ End(r, "SESSION_EXPIRED")
          \/ \E s \in LoginMatches(r) : GotoWith(r, "login.delete", s)
      BY <1>4 DEF LoginFind
    <2>3. CASE End(r, "INVALID_INPUT") \/ End(r, "SESSION_EXPIRED")
      BY <1>f, <2>1, <2>3, QuietEnd DEF Answers
    <2>4. CASE \E s \in LoginMatches(r) : GotoWith(r, "login.delete", s)
      <3>1. PICK s \in LoginMatches(r) : GotoWith(r, "login.delete", s)
        BY <2>4
      <3>2. s \in Request
        BY DEF LoginMatches
      <3>3. /\ OneChanged(r)
            /\ req'[r].pc = "login.delete" /\ req'[r].row = s
            /\ req'[r].phone = req[r].phone /\ req'[r].answer = req[r].answer
        BY <1>f, <1>l, <3>1, <3>2, GotoWithEffect
      <3> QED BY <1>t, <2>1, <3>3
           DEF Effect, Path, LoginChange, PhoneChange, RowChange, NumberChange, tables,
               IInv, TypeOK
    <2> QED BY <2>2, <2>3, <2>4
  <1>5. CASE LoginDelete(r)
    <2>1. CASE login[req[r].row] = None
      BY <1>f, <1>5, <2>1, QuietEnd DEF LoginDelete, Answers, tables
    <2>2. CASE login[req[r].row] # None
      <3>1. PICK l \in {"device.clear", "sign"} : Goto(r, l)
        BY <1>5, <2>2 DEF LoginDelete
      <3>2. /\ OneChanged(r) /\ req'[r].pc = l
          /\ req'[r].phone = req[r].phone /\ req'[r].row = req[r].row
          /\ req'[r].answer = "none"
        BY <1>l, <1>5, <3>1, Going DEF LoginDelete
      <3> QED BY <1>5, <2>2, <3>2
           DEF LoginDelete, Effect, Path, LoginChange, PhoneChange, RowChange,
               NumberChange, IInv, TypeOK
    <2> QED BY <2>1, <2>2
  <1>6. CASE DeviceClear(r) \/ DeviceFails(r) \/ Send(r)
    BY <1>l, <1>6, QuietGoto DEF DeviceClear, DeviceFails, Send
  <1>7. CASE DeviceCreate(r)
    <2>1. /\ OneChanged(r) /\ req'[r].pc = "sign"
          /\ req'[r].phone = req[r].phone /\ req'[r].row = req[r].row
          /\ req'[r].answer = "none"
      BY <1>l, <1>7, Going DEF DeviceCreate
    <2> QED BY <1>7, <2>1
         DEF DeviceCreate, Effect, Path, LoginChange, PhoneChange, RowChange, NumberChange,
             IInv, TypeOK
  <1>8. CASE Sign(r)
    BY <1>f, <1>l, <1>8, QuietGoto, QuietEnd DEF Sign, Answers
  <1>9. CASE PhoneClear(r)
    <2>1. /\ OneChanged(r) /\ req'[r].pc = "phone.create"
          /\ req'[r].phone = req[r].phone /\ req'[r].row = req[r].row
          /\ req'[r].answer = "none"
      BY <1>l, <1>9, Going DEF PhoneClear
    <2> QED BY <1>9, <2>1
         DEF PhoneClear, Effect, Path, LoginChange, PhoneChange, RowChange, NumberChange,
             IInv, TypeOK
  <1>10. CASE PhoneCreate(r)
    <2>1. /\ OneChanged(r) /\ req'[r].pc = "send"
          /\ req'[r].phone = req[r].phone /\ req'[r].row = req[r].row
          /\ req'[r].answer = "none"
      BY <1>l, <1>10, Going DEF PhoneCreate
    <2>2. PICK c \in Code :
            phone' = [phone EXCEPT ![r] = [user |-> req[r].user, code |-> c,
                                           phoneNumber |-> req[r].phone]]
      BY <1>10 DEF PhoneCreate
    <2>3. req[r].phone \in Phone
      BY <1>10 DEF PhoneCreate, IInv, LocalShape
    <2>4. [user |-> req[r].user, code |-> c, phoneNumber |-> req[r].phone] \in PhoneRow
      BY <1>t, <2>3 DEF PhoneRow
    <2>5. PhoneChange(r)
      BY <1>10, <2>1, <2>2, <2>4 DEF PhoneChange, PhoneCreate
    <2> QED BY <1>10, <2>1, <2>5
         DEF PhoneCreate, Effect, Path, LoginChange, RowChange, NumberChange, IInv, TypeOK
  <1>11. CASE PhoneFind(r)
    <2>1. req[r].pc = "phone.find" /\ UNCHANGED tables
      BY <1>11 DEF PhoneFind
    <2>2. \/ End(r, "INVALID_INPUT") \/ End(r, "SESSION_EXPIRED")
          \/ \E s \in PhoneMatches(r) :
               req' = [req EXCEPT ![r].pc = "phone.user", ![r].row = s,
                                  ![r].phone = phone[s].phoneNumber]
      BY <1>11 DEF PhoneFind
    <2>3. CASE End(r, "INVALID_INPUT") \/ End(r, "SESSION_EXPIRED")
      BY <1>f, <2>1, <2>3, QuietEnd DEF Answers
    <2>4. CASE \E s \in PhoneMatches(r) :
                 req' = [req EXCEPT ![r].pc = "phone.user", ![r].row = s,
                                    ![r].phone = phone[s].phoneNumber]
      <3>1. PICK s \in PhoneMatches(r), n \in Phone :
              /\ n = phone[s].phoneNumber
              /\ req' = [req EXCEPT ![r].pc = "phone.user", ![r].row = s, ![r].phone = n]
        BY <2>4 DEF PhoneMatches, IInv, TypeOK, PhoneRow
      <3>2. s \in Request
        BY DEF PhoneMatches
      <3>3. PICK y \in RequestState : y = req[r]
        BY ReqType
      <3>4. req'[r] = [y EXCEPT !.pc = "phone.user", !.row = s, !.phone = n]
        BY <3>1, <3>3, ReqType
      <3>5. [y EXCEPT !.pc = "phone.user", !.row = s, !.phone = n] \in RequestState
        BY <1>l, <3>2, <3>3 DEF RequestState
      <3>6. Others(r) /\ req' = [q \in Request |-> req'[q]]
        BY <3>1, ReqType DEF Others
      <3>7. req' \in [Request -> RequestState]
        BY <3>4, <3>5, <3>6, Change
      <3>8. /\ Same(r)
            /\ req'[r].pc = "phone.user" /\ req'[r].row = s /\ req'[r].phone = n
            /\ req'[r].answer = req[r].answer
        BY <3>3, <3>4 DEF RequestState, Same
      <3>9. OneChanged(r)
        BY <1>f, <3>6, <3>7, <3>8 DEF OneChanged, InFlight
      <3> QED BY <1>t, <2>1, <3>1, <3>8, <3>9
           DEF Effect, Path, LoginChange, PhoneChange, RowChange, NumberChange, tables,
               IInv, TypeOK
    <2> QED BY <2>2, <2>3, <2>4
  <1>12. CASE PhoneUser(r)
    BY <1>f, <1>l, <1>12, QuietGoto, QuietEnd DEF PhoneUser, Answers
  <1>13. CASE PhoneWrite(r)
    <2>1. CASE req[r].user \notin users
      BY <1>f, <1>13, <2>1, QuietEnd DEF PhoneWrite, Answers, tables
    <2>2. CASE req[r].user \in users
      <3>1. /\ OneChanged(r) /\ req'[r].pc = "phone.delete"
          /\ req'[r].phone = req[r].phone /\ req'[r].row = req[r].row
          /\ req'[r].answer = "none"
        BY <1>l, <1>13, <2>2, Going DEF PhoneWrite
      <3> QED BY <1>13, <2>2, <3>1
           DEF PhoneWrite, Effect, Path, LoginChange, PhoneChange, RowChange,
               NumberChange, IInv, TypeOK
    <2> QED BY <2>1, <2>2
  <1>14. CASE PhoneDelete(r)
    <2>1. CASE phone[req[r].row] = None
      BY <1>f, <1>14, <2>1, QuietEnd DEF PhoneDelete, Answers, tables
    <2>2. CASE phone[req[r].row] # None
      <3>1. /\ OneChanged(r) /\ req'[r].pc = "answer"
          /\ req'[r].phone = req[r].phone /\ req'[r].row = req[r].row
          /\ req'[r].answer = "none"
        BY <1>l, <1>14, <2>2, Going DEF PhoneDelete
      <3> QED BY <1>14, <2>2, <3>1
           DEF PhoneDelete, Effect, Path, LoginChange, PhoneChange, RowChange,
               NumberChange, IInv, TypeOK
    <2> QED BY <2>1, <2>2
  <1>15. CASE Answer(r)
    BY <1>f, <1>15, QuietEnd DEF Answer, Answers
  <1>16. CASE Fail(r)
    BY <1>f, <1>16, QuietEnd DEF Fail, Answers
  <1> QED BY <1>1, <1>2, <1>3, <1>4, <1>5, <1>6, <1>7, <1>8, <1>9, <1>10, <1>11, <1>12,
             <1>13, <1>14, <1>15, <1>16 DEF Step

\* What happens outside the requests leaves them and the codes alone.
Outside == /\ UNCHANGED <<login, phone, req>>
           /\ \A u \in User : number'[u] \in {number[u], None}

LEMMA Cases ==
  ASSUME IInv, [Next]_vars
  PROVE  \/ \E r \in Request : Start(r)
         \/ \E r \in Request : Effect(r)
         \/ Outside
  <1>1. ASSUME NEW r \in Request, ExpireCode(r) PROVE Outside
    BY <1>1 DEF ExpireCode, Outside
  <1>2. ASSUME NEW u \in User, RemoveUser(u) PROVE Outside
    BY <1>2 DEF RemoveUser, Outside, IInv, TypeOK
  <1>3. CASE UNCHANGED vars
    BY <1>3 DEF vars, Outside
  <1> QED BY <1>1, <1>2, <1>3, StepCases, StepEffect

\* What a request set out to do, and for whom, it keeps; one that was answered
\* does nothing more.
LEMMA Kept ==
  ASSUME IInv, [Next]_vars, NEW q \in Request, req[q].pc # "idle"
  PROVE  /\ req'[q].op = req[q].op /\ req'[q].user = req[q].user
         /\ req'[q].pc # "idle"
         /\ Past(q) => Past(q)'
         /\ req[q].pc = "done" => req'[q] = req[q]
         /\ req[q].op = "sendPhone" => req'[q].phone = req[q].phone
  <1>1. CASE \E r \in Request : Start(r)
    BY <1>1, StartEffect DEF Past
  <1>2. CASE \E r \in Request : Effect(r)
    <2>1. PICK r \in Request : Effect(r)
      BY <1>2
    <2>2. CASE q # r
      BY <2>1, <2>2 DEF Effect, Path, OneChanged, Others, Past
    <2>3. CASE q = r
      <3>1. req[r].op = "sendPhone" => req[r].pc # "phone.find"
        BY DEF IInv, LocalShape
      <3> QED BY <2>1, <2>3, <3>1
           DEF Effect, Path, OneChanged, Same, Past, Onward, RowChange
    <2> QED BY <2>2, <2>3
  <1>3. CASE Outside
    BY <1>3 DEF Outside, Past
  <1> QED BY <1>1, <1>2, <1>3, Cases

-----------------------------------------------------------------------------
\* Every action keeps the types.
LEMMA TypeStep == IInv /\ [Next]_vars => TypeOK'
  <1> SUFFICES ASSUME IInv, [Next]_vars PROVE TypeOK'
    OBVIOUS
  <1> USE DEF TypeOK
  <1>1. ASSUME NEW r \in Request, Start(r) PROVE TypeOK'
    BY <1>1, StartEffect DEF tables, IInv
  <1>2. ASSUME NEW r \in Request, Effect(r) PROVE TypeOK'
    <2>1. login' \in [Request -> LoginRow \cup {None}]
      BY <1>2 DEF Effect, LoginChange, IInv
    <2>2. phone' \in [Request -> PhoneRow \cup {None}]
      BY <1>2 DEF Effect, PhoneChange, IInv
    <2>3. number' \in [User -> Phone \cup {None}]
      <3>1. req[r].phone \in Phone \cup {None}
        BY ReqType DEF RequestState
      <3> QED BY <1>2, <3>1 DEF Effect, NumberChange, IInv
    <2> QED BY <1>2, <2>1, <2>2, <2>3 DEF Effect, Path, OneChanged, IInv
  <1>3. ASSUME NEW r \in Request, ExpireCode(r) PROVE TypeOK'
    BY <1>3 DEF ExpireCode, IInv
  <1>4. ASSUME NEW u \in User, RemoveUser(u) PROVE TypeOK'
    BY <1>4 DEF RemoveUser, IInv
  <1>5. CASE UNCHANGED vars
    BY <1>5 DEF vars, IInv
  <1> QED BY <1>1, <1>2, <1>3, <1>4, <1>5, StepCases, StepEffect

\* The label of a request goes on telling its operation.
LEMMA LocalShapeStep == IInv /\ [Next]_vars => LocalShape'
  <1> SUFFICES ASSUME IInv, [Next]_vars PROVE LocalShape'
    OBVIOUS
  <1>1. ASSUME NEW r \in Request, Start(r) PROVE LocalShape'
    BY <1>1, StartEffect DEF LocalShape, IInv
  <1>2. ASSUME NEW r \in Request, Effect(r) PROVE LocalShape'
    <2>1. ASSUME NEW q \in Request, q # r PROVE req'[q] = req[q]
      BY <1>2, <2>1 DEF Effect, Path, OneChanged, Others
    <2>2. /\ req'[r].op = req[r].op /\ req'[r].user = req[r].user
          /\ req[r].pc \notin {"idle", "done"}
      BY <1>2 DEF Effect, Path, OneChanged, Same
    <2>3. req[r].op = "sendPhone" => req'[r].phone \in Phone
      BY <1>2, <2>2, Kept DEF IInv, LocalShape
    <2>4. req'[r].pc \in {"login.user", "login.find", "phone.find"} => req'[r].row = None
      <3>1. req'[r].pc \in {"login.user", "login.find", "phone.find"}
              => req[r].pc = "login.user" /\ req'[r].pc = "login.find"
        BY <1>2 DEF Effect, Path, Onward
      <3> QED BY <1>2, <3>1 DEF Effect, RowChange, IInv, LocalShape
    <2> QED BY <1>2, <2>1, <2>2, <2>3, <2>4
         DEF LocalShape, IInv, Effect, Path, Onward, Answers
  <1>3. CASE Outside
    BY <1>3 DEF Outside, LocalShape, IInv
  <1> QED BY <1>1, <1>2, <1>3, Cases

\* A code that exists was there, or is created by its request.
LEMMA LoginRows ==
  ASSUME IInv, [Next]_vars, NEW s \in Request, login'[s] # None
  PROVE  \/ login[s] # None /\ login'[s] = login[s]
         \/ /\ Effect(s) /\ req[s].pc = "login.create" /\ req'[s].pc = "send"
            /\ login'[s].user = req[s].user
  BY Cases, StartEffect DEF Outside, tables, Effect, LoginChange, IInv, TypeOK

LEMMA PhoneRows ==
  ASSUME IInv, [Next]_vars, NEW s \in Request, phone'[s] # None
  PROVE  \/ phone[s] # None /\ phone'[s] = phone[s]
         \/ /\ Effect(s) /\ req[s].pc = "phone.create" /\ req'[s].pc = "send"
            /\ phone'[s].user = req[s].user
            /\ phone'[s].phoneNumber = req[s].phone
  BY Cases, StartEffect DEF Outside, tables, Effect, PhoneChange, IInv, TypeOK

\* A row goes on being that of the request that created it.
LEMMA RowOriginStep == IInv /\ [Next]_vars => RowOrigin'
  <1> SUFFICES ASSUME IInv, [Next]_vars PROVE RowOrigin'
    OBVIOUS
  <1>1. ASSUME NEW s \in Request, Past(s)
        PROVE  /\ Past(s)' /\ req'[s].op = req[s].op /\ req'[s].user = req[s].user
               /\ req[s].op = "sendPhone" => req'[s].phone = req[s].phone
    BY <1>1, Kept DEF Past
  <1>2. ASSUME NEW s \in Request, login'[s] # None
        PROVE  /\ req'[s].op = "resendLogin" /\ Past(s)'
               /\ login'[s].user = req'[s].user
    <2>1. CASE login[s] # None /\ login'[s] = login[s]
      BY <1>1, <2>1 DEF IInv, RowOrigin
    <2>2. CASE /\ req[s].pc = "login.create" /\ req'[s].pc = "send"
               /\ login'[s].user = req[s].user
      BY <2>2, Kept DEF Past, IInv, LocalShape
    <2> QED BY <1>2, <2>1, <2>2, LoginRows
  <1>3. ASSUME NEW s \in Request, phone'[s] # None
        PROVE  /\ req'[s].op = "sendPhone" /\ Past(s)'
               /\ phone'[s].user = req'[s].user
               /\ phone'[s].phoneNumber = req'[s].phone
    <2>1. CASE phone[s] # None /\ phone'[s] = phone[s]
      BY <1>1, <2>1 DEF IInv, RowOrigin
    <2>2. CASE /\ req[s].pc = "phone.create" /\ req'[s].pc = "send"
               /\ phone'[s].user = req[s].user /\ phone'[s].phoneNumber = req[s].phone
      BY <2>2, Kept DEF Past, IInv, LocalShape
    <2> QED BY <1>3, <2>1, <2>2, PhoneRows
  <1> QED BY <1>2, <1>3 DEF RowOrigin

\* Who holds a row now held it before, or has just found it.
LEMMA HoldsLoginStep ==
  ASSUME IInv, [Next]_vars, NEW r \in Request, HoldsLogin(r)'
  PROVE  /\ req'[r].user = req[r].user
         /\ \/ HoldsLogin(r) /\ req'[r].row = req[r].row
            \/ req'[r].pc = "login.delete" /\ req'[r].row \in LoginMatches(r)
  <1>1. CASE \E q \in Request : Start(q)
    <2>1. PICK q \in Request : Start(q)
      BY <1>1
    <2>2. q # r
      BY <2>1, StartEffect DEF HoldsLogin, Consumed
    <2> QED BY <2>1, <2>2, StartEffect DEF HoldsLogin, Consumed
  <1>2. CASE \E q \in Request : Effect(q)
    <2>1. PICK q \in Request : Effect(q)
      BY <1>2
    <2>2. CASE q # r
      BY <2>1, <2>2 DEF Effect, Path, OneChanged, Others, HoldsLogin, Consumed
    <2>3. CASE q = r
      <3>1. req'[r].op = req[r].op /\ req'[r].user = req[r].user
        BY <2>1, <2>3 DEF Effect, Path, OneChanged, Same
      <3> QED BY <2>1, <2>3, <3>1
           DEF Effect, Path, Onward, RowChange, HoldsLogin, Consumed, IInv, LocalShape
    <2> QED BY <2>2, <2>3
  <1>3. CASE Outside
    BY <1>3 DEF Outside, HoldsLogin, Consumed
  <1> QED BY <1>1, <1>2, <1>3, Cases

LEMMA HoldsPhoneStep ==
  ASSUME IInv, [Next]_vars, NEW r \in Request, HoldsPhone(r)'
  PROVE  /\ req'[r].user = req[r].user /\ req[r].pc # "idle"
         /\ \/ /\ HoldsPhone(r)
               /\ req'[r].row = req[r].row /\ req'[r].phone = req[r].phone
            \/ /\ req'[r].pc = "phone.user" /\ req'[r].row \in PhoneMatches(r)
               /\ req'[r].phone = phone[req'[r].row].phoneNumber
  <1>1. CASE \E q \in Request : Start(q)
    <2>1. PICK q \in Request : Start(q)
      BY <1>1
    <2>2. q # r
      BY <2>1, StartEffect DEF HoldsPhone, Consumed
    <2> QED BY <2>1, <2>2, StartEffect DEF HoldsPhone, Consumed, IInv, LocalShape, Idle
  <1>2. CASE \E q \in Request : Effect(q)
    <2>1. PICK q \in Request : Effect(q)
      BY <1>2
    <2>2. CASE q # r
      BY <2>1, <2>2
         DEF Effect, Path, OneChanged, Others, HoldsPhone, Consumed, IInv, LocalShape, Idle
    <2>3. CASE q = r
      <3>1. /\ req'[r].op = req[r].op /\ req'[r].user = req[r].user
            /\ req[r].pc # "idle"
        BY <2>1, <2>3 DEF Effect, Path, OneChanged, Same
      <3> QED BY <2>1, <2>3, <3>1
           DEF Effect, Path, Onward, RowChange, HoldsPhone, Consumed, IInv, LocalShape
    <2> QED BY <2>2, <2>3
  <1>3. CASE Outside
    BY <1>3 DEF Outside, HoldsPhone, Consumed, IInv, LocalShape, Idle
  <1> QED BY <1>1, <1>2, <1>3, Cases

\* The row that a request found is that of a request that is past its creation.
LEMMA RowHeldStep == IInv /\ [Next]_vars => RowHeld'
  <1> SUFFICES ASSUME IInv, [Next]_vars PROVE RowHeld'
    OBVIOUS
  <1>1. ASSUME NEW s \in Request, Past(s)
        PROVE  /\ Past(s)' /\ req'[s].op = req[s].op /\ req'[s].user = req[s].user
               /\ req[s].op = "sendPhone" => req'[s].phone = req[s].phone
    BY <1>1, Kept DEF Past
  <1>2. ASSUME NEW r \in Request, HoldsLogin(r)'
        PROVE  \E s \in Request : /\ s = req'[r].row /\ Past(s)'
                                  /\ req'[s].user = req'[r].user
    <2>1. PICK s \in Request : /\ s = req'[r].row /\ Past(s)
                               /\ req[s].user = req'[r].user
      BY <1>2, HoldsLoginStep DEF IInv, RowHeld, RowOrigin, LoginMatches
    <2> QED BY <1>1, <2>1
  <1>3. ASSUME NEW r \in Request, HoldsPhone(r)'
        PROVE  \E s \in Request :
                 /\ s = req'[r].row /\ req'[s].op = "sendPhone" /\ Past(s)'
                 /\ req'[s].user = req'[r].user /\ req'[s].phone = req'[r].phone
    <2>1. PICK s \in Request :
            /\ s = req'[r].row /\ req[s].op = "sendPhone" /\ Past(s)
            /\ req[s].user = req'[r].user /\ req[s].phone = req'[r].phone
      BY <1>3, HoldsPhoneStep DEF IInv, RowHeld, RowOrigin, PhoneMatches
    <2> QED BY <1>1, <2>1
  <1> QED BY <1>2, <1>3 DEF RowHeld, Past

-----------------------------------------------------------------------------
\* No row that was used comes back, for its request is past creating it; and
\* a row is used by a deletion that finds it.
LEMMA UsedUpStep == IInv /\ [Next]_vars => UsedUp' /\ CodeUsedOnce'
  <1> SUFFICES ASSUME IInv, [Next]_vars PROVE UsedUp' /\ CodeUsedOnce'
    OBVIOUS
  <1>1. ASSUME NEW s \in Request, Past(s)
        PROVE  /\ login[s] = None => login'[s] = None
               /\ phone[s] = None => phone'[s] = None
    BY <1>1, Cases, StartEffect
       DEF Past, Outside, tables, Effect, LoginChange, PhoneChange, IInv, TypeOK
  \* One step consumes one row, that was there; who consumed one before keeps it.
  <1>2. ASSUME NEW r \in Request, Consumed(r)', req'[r].op \in {"verifyLogin", "verifyPhone"}
        PROVE  /\ req'[r].op = req[r].op /\ req'[r].row = req[r].row
               /\ HoldsLogin(r) \/ HoldsPhone(r)
               /\ \/ Consumed(r)
                  \/ /\ Effect(r) /\ req[r].op = "verifyLogin"
                     /\ login[req[r].row] # None /\ login'[req[r].row] = None
                  \/ /\ Effect(r) /\ req[r].op = "verifyPhone"
                     /\ phone[req[r].row] # None /\ phone'[req[r].row] = None
    <2>1. ASSUME NEW q \in Request, q # r, Start(q) \/ Effect(q) PROVE req'[r] = req[r]
      BY <2>1, StartEffect DEF Effect, Path, OneChanged, Others
    <2>2. CASE req'[r] = req[r]
      BY <1>2, <2>2 DEF Consumed, HoldsLogin, HoldsPhone
    <2>3. ~Start(r)
      BY <1>2, StartEffect DEF Consumed
    <2>4. CASE Effect(r)
      <3>1. req'[r].op = req[r].op
        BY <2>4 DEF Effect, Path, OneChanged, Same
      <3>2. \/ Consumed(r)
            \/ req[r].pc = "login.delete" /\ req'[r].pc # "done"
            \/ req[r].pc = "phone.delete" /\ req'[r].pc # "done"
        BY <1>2, <2>4, <3>1 DEF Effect, Path, Onward, Consumed, IInv, LocalShape
      <3>3. req'[r].row = req[r].row
        BY <2>4, <3>2 DEF Effect, RowChange, Consumed, IInv, LocalShape
      <3>4. HoldsLogin(r) \/ HoldsPhone(r)
        BY <1>2, <3>1, <3>2 DEF HoldsLogin, HoldsPhone, IInv, LocalShape
      <3>5. CASE req[r].pc = "login.delete" /\ req'[r].pc # "done"
        <4>1. /\ login[req[r].row] # None
              /\ login' = [login EXCEPT ![req[r].row] = None]
          BY <2>4, <3>5 DEF Effect, LoginChange
        <4>2. req[r].op = "verifyLogin" /\ req[r].row \in Request
          BY <3>5 DEF IInv, LocalShape, RowHeld, HoldsLogin
        <4> QED BY <2>4, <3>1, <3>3, <3>4, <4>1, <4>2 DEF IInv, TypeOK
      <3>6. CASE req[r].pc = "phone.delete" /\ req'[r].pc # "done"
        <4>1. /\ phone[req[r].row] # None
              /\ phone' = [phone EXCEPT ![req[r].row] = None]
          BY <2>4, <3>6 DEF Effect, PhoneChange
        <4>2. req[r].op = "verifyPhone" /\ req[r].row \in Request
          BY <3>6 DEF IInv, LocalShape, RowHeld, HoldsPhone
        <4> QED BY <2>4, <3>1, <3>3, <3>4, <4>1, <4>2 DEF IInv, TypeOK
      <3> QED BY <3>1, <3>2, <3>3, <3>4, <3>5, <3>6
    <2> QED BY <2>1, <2>2, <2>3, <2>4, Cases DEF Outside
  <1>3. ASSUME NEW r \in Request, Consumed(r)', req'[r].op = "verifyLogin"
        PROVE  login'[req'[r].row] = None
    <2>1. /\ req[r].op = "verifyLogin" /\ req'[r].row = req[r].row
          /\ req[r].row \in Request /\ Past(req[r].row)
      BY <1>2, <1>3 DEF IInv, RowHeld, HoldsLogin, HoldsPhone
    <2> QED BY <1>1, <1>2, <1>3, <2>1 DEF IInv, UsedUp
  <1>4. ASSUME NEW r \in Request, Consumed(r)', req'[r].op = "verifyPhone"
        PROVE  phone'[req'[r].row] = None
    <2>1. /\ req[r].op = "verifyPhone" /\ req'[r].row = req[r].row
          /\ req[r].row \in Request /\ Past(req[r].row)
      BY <1>2, <1>4 DEF IInv, RowHeld, HoldsLogin, HoldsPhone
    <2> QED BY <1>1, <1>2, <1>4, <2>1 DEF IInv, UsedUp
  <1>5. ASSUME NEW r1 \in Request, NEW r2 \in Request, req'[r1].op = req'[r2].op,
               req'[r1].op \in {"verifyLogin", "verifyPhone"},
               Consumed(r1)', Consumed(r2)', req'[r1].row = req'[r2].row
        PROVE  r1 = r2
    <2>1. /\ req[r1].op = req[r2].op /\ req[r1].row = req[r2].row
          /\ req[r1].op \in {"verifyLogin", "verifyPhone"}
      BY <1>2, <1>5
    <2>2. CASE Consumed(r1) /\ Consumed(r2)
      BY <2>1, <2>2 DEF IInv, CodeUsedOnce
    <2>3. ASSUME NEW p \in Request, NEW q \in Request,
                 Consumed(p), ~Consumed(q), Consumed(p)', Consumed(q)',
                 req[p].op = req[q].op, req[p].row = req[q].row,
                 req[q].op \in {"verifyLogin", "verifyPhone"},
                 req'[p].op = req[p].op, req'[q].op = req[q].op
          PROVE  FALSE
      BY <1>2, <2>3 DEF IInv, UsedUp
    <2>4. CASE ~Consumed(r1) /\ ~Consumed(r2)
      <3>1. Effect(r1) /\ Effect(r2)
        BY <1>2, <1>5, <2>4
      <3>2. req'[r1] # req[r1]
        BY <1>5, <2>4 DEF Consumed
      <3> QED BY <3>1, <3>2 DEF Effect, Path, OneChanged, Others
    <2> QED BY <1>2, <1>5, <2>1, <2>2, <2>3, <2>4
  <1>6. UsedUp'
    BY <1>3, <1>4 DEF UsedUp
  <1>7. CodeUsedOnce'
    BY <1>5 DEF CodeUsedOnce
  <1> QED BY <1>6, <1>7

\* A number was written by a request that held a row of the same user, and
\* what that request and the row's creator are about does not change.
LEMMA NumberProvedStep == IInv /\ [Next]_vars => NumberProved'
  <1> SUFFICES ASSUME IInv, [Next]_vars, NEW u \in User, number'[u] # None
               PROVE  \E r \in Request, s \in Request :
                        /\ req'[r].op = "verifyPhone" /\ req'[r].user = u
                        /\ req'[r].row = s
                        /\ req'[s].op = "sendPhone" /\ req'[s].user = u
                        /\ req'[s].phone = number'[u]
    BY DEF NumberProved
  <1>1. ASSUME NEW r \in Request, NEW s \in Request, req[r].op = "verifyPhone",
               req[r].row = s, req[s].op = "sendPhone", req[r].user = u, req[s].user = u,
               req[s].phone = number'[u], req'[r].row = req[r].row
        PROVE  /\ req'[r].op = "verifyPhone" /\ req'[r].user = u
               /\ req'[r].row = s
               /\ req'[s].op = "sendPhone" /\ req'[s].user = u
               /\ req'[s].phone = number'[u]
    <2>1. req[r].pc # "idle" /\ req[s].pc # "idle"
      BY <1>1 DEF IInv, LocalShape, Idle
    <2> QED BY <1>1, <2>1, Kept
  \* A row once found is not exchanged for another.
  <1>2. ASSUME NEW r \in Request, req[r].row \in Request
        PROVE  req'[r].row = req[r].row
    <2>1. ASSUME NEW q \in Request, q # r, Start(q) \/ Effect(q) PROVE req'[r] = req[r]
      BY <2>1, StartEffect DEF Effect, Path, OneChanged, Others
    <2>2. ~Start(r)
      <3>1. req[r].pc = "idle" => req[r].row = None
        BY DEF IInv, LocalShape, Idle
      <3>2. None \notin Request
        OBVIOUS
      <3> QED BY <1>2, <3>1, <3>2, StartEffect
    <2>3. CASE Effect(r)
      BY <1>2, <2>3 DEF Effect, RowChange, IInv, LocalShape
    <2> QED BY <2>1, <2>2, <2>3, Cases DEF Outside
  <1>3. CASE number'[u] = number[u]
    <2>1. PICK r \in Request, s \in Request :
            /\ req[r].op = "verifyPhone" /\ req[r].user = u /\ req[r].row = s
            /\ req[s].op = "sendPhone" /\ req[s].user = u
            /\ req[s].phone = number[u]
      BY <1>3 DEF IInv, NumberProved
    <2>2. req'[r].row = req[r].row
      BY <1>2, <2>1
    <2> QED BY <1>1, <1>3, <2>1, <2>2
  <1>4. CASE number'[u] # number[u]
    <2>1. PICK r \in Request :
            /\ Effect(r) /\ req[r].pc = "phone.write"
            /\ number' = [number EXCEPT ![req[r].user] = req[r].phone]
      BY <1>4, Cases, StartEffect DEF Effect, NumberChange, Outside, tables
    <2>2. req[r].user = u /\ number'[u] = req[r].phone
      BY <1>4, <2>1 DEF IInv, TypeOK
    <2>3. PICK s \in Request :
            /\ s = req[r].row /\ req[s].op = "sendPhone"
            /\ req[s].user = u /\ req[s].phone = req[r].phone
      BY <2>1, <2>2 DEF IInv, RowHeld, HoldsPhone, LocalShape
    <2>4. req[r].op = "verifyPhone" /\ req'[r].row = req[r].row
      BY <1>2, <2>1, <2>3 DEF IInv, LocalShape
    <2> QED BY <1>1, <2>2, <2>3, <2>4
  <1> QED BY <1>3, <1>4

-----------------------------------------------------------------------------
\* A login's codes go when their user asks for another, which is then on its
\* way, or when their user types one in.
LEMMA CodeSurvivesStep == IInv /\ [Next]_vars => CodeSurvives'
  <1> SUFFICES ASSUME IInv, [Next]_vars, NEW u \in User,
                      NEW r \in Request, Asked(r)', req'[r].user = u, OnlyAsks(u)'
               PROVE  HasCode(u)'
    BY DEF CodeSurvives
  <1>1. OnlyAsks(u)
    <2>1. ASSUME NEW q \in Request, req[q].user = u,
                 req[q].op \in {"resendLogin", "verifyLogin"}
          PROVE  req[q].op = "resendLogin" /\ req[q].answer # "FAILED"
      <3>1. req[q].pc # "idle"
        BY <2>1 DEF IInv, LocalShape, Idle
      <3>2. /\ req'[q].op = req[q].op /\ req'[q].user = u
            /\ req[q].pc = "done" => req'[q] = req[q]
        BY <2>1, <3>1, Kept
      <3>3. req[q].op = "resendLogin" /\ req'[q].answer # "FAILED"
        BY <2>1, <3>2 DEF OnlyAsks
      <3> QED BY <3>2, <3>3 DEF IInv, LocalShape
    <2> QED BY <2>1 DEF OnlyAsks
  <1>2. \/ Asked(r) /\ req[r].user = u
        \/ req'[r].pc = "login.create"
    <2>1. ASSUME NEW q \in Request, q # r, Start(q) \/ Effect(q) PROVE req'[r] = req[r]
      BY <2>1, StartEffect DEF Effect, Path, OneChanged, Others
    <2>2. CASE req'[r] = req[r]
      BY <2>2 DEF Asked
    <2>3. ~Start(r)
      BY StartEffect DEF Asked
    <2>4. CASE Effect(r)
      <3>1. req'[r].op = req[r].op /\ req'[r].user = req[r].user
        BY <2>4 DEF Effect, Path, OneChanged, Same
      <3> QED BY <2>4, <3>1 DEF Effect, Path, Onward, Asked, IInv, LocalShape
    <2> QED BY <2>1, <2>2, <2>3, <2>4, Cases DEF Outside
  <1>3. CASE req'[r].pc = "login.create"
    BY <1>3 DEF HasCode
  <1>4. CASE Asked(r) /\ req[r].user = u
    <2>1. HasCode(u)
      BY <1>1, <1>4 DEF IInv, CodeSurvives
    <2>2. ASSUME NEW s \in Request, login[s] # None, login[s].user = u
          PROVE  HasCode(u)'
      <3>1. CASE login'[s] = login[s]
        BY <2>2, <3>1 DEF HasCode
      <3>2. CASE login'[s] # login[s]
        <4>1. PICK q \in Request : Effect(q)
          BY <3>2, Cases, StartEffect DEF Outside, tables
        <4>2. /\ req'[q].user = req[q].user /\ req'[q].op = req[q].op
              /\ req[q].pc # "idle"
          BY <4>1 DEF Effect, Path, OneChanged, Same
        <4>3. CASE req[q].pc = "login.clear" /\ req'[q].pc = "login.create"
          <5>1. login'[s] = IF login[s].user = req[q].user THEN None ELSE login[s]
            BY <2>2, <4>1, <4>3 DEF Effect, LoginChange
          <5>2. req[q].user = u
            BY <2>2, <3>2, <5>1
          <5> QED BY <4>2, <4>3, <5>2 DEF HasCode
        <4>4. CASE req[q].pc = "login.create"
          BY <2>2, <3>2, <4>1, <4>4
             DEF Effect, LoginChange, IInv, TypeOK, RowOrigin, Past
        <4>5. CASE req[q].pc = "login.delete"
          <5>1. login' = [login EXCEPT ![req[q].row] = None]
            BY <3>2, <4>1, <4>5 DEF Effect, LoginChange
          <5>2. req[q].row = s
            BY <3>2, <5>1 DEF IInv, TypeOK
          <5>3. req[q].op = "verifyLogin" /\ req[q].user = req[s].user
            BY <4>5, <5>2 DEF IInv, LocalShape, RowHeld, HoldsLogin
          <5>4. req[s].user = u
            BY <2>2 DEF IInv, RowOrigin
          <5> QED BY <1>1, <5>3, <5>4 DEF OnlyAsks
        <4> QED BY <3>2, <4>1, <4>3, <4>4, <4>5 DEF Effect, LoginChange
      <3> QED BY <3>1, <3>2
    <2>3. ASSUME NEW s \in Request, req[s].pc = "login.create", req[s].user = u
          PROVE  HasCode(u)'
      <3>1. CASE req'[s] = req[s]
        BY <2>3, <3>1 DEF HasCode
      <3>2. CASE req'[s] # req[s]
        <4>1. Effect(s)
          <5>1. ASSUME NEW q \in Request, q # s, Start(q) \/ Effect(q)
                PROVE  FALSE
            BY <3>2, <5>1, StartEffect DEF Effect, Path, OneChanged, Others
          <5> QED BY <2>3, <3>2, <5>1, Cases, StartEffect DEF Outside
        <4>2. req'[s].op = "resendLogin" /\ req'[s].user = u
          BY <2>3, Kept DEF IInv, LocalShape
        <4>3. req'[s].answer # "FAILED"
          BY <4>2 DEF OnlyAsks
        <4>4. req'[s].pc = "send"
          BY <2>3, <4>1, <4>3 DEF Effect, Path, Onward
        <4>5. PICK row \in LoginRow : row.user = u /\ login' = [login EXCEPT ![s] = row]
          BY <2>3, <4>1, <4>4 DEF Effect, LoginChange
        <4>6. login'[s] = row /\ row # None
          BY <4>5 DEF IInv, TypeOK
        <4> QED BY <4>5, <4>6 DEF HasCode
      <3> QED BY <3>1, <3>2
    <2> QED BY <2>1, <2>2, <2>3 DEF HasCode
  <1> QED BY <1>2, <1>3, <1>4

-----------------------------------------------------------------------------
\* Who waits for the answer has one request in flight.
LEMMA PatientAloneStep == IInv /\ [Next]_vars => PatientAlone'
  <1> SUFFICES ASSUME IInv, [Next]_vars, NEW q \in Request, NEW r \in Request,
                      InFlight(q)', InFlight(r)', req'[q].user = req'[r].user,
                      req'[r].user \in Patient
               PROVE  q = r
    BY DEF PatientAlone
  <1>1. ASSUME NEW p \in Request, InFlight(p)'
        PROVE  \/ InFlight(p) /\ req'[p].user = req[p].user
               \/ Start(p) /\ Admitted(req'[p].user)
    <2>1. ASSUME NEW x \in Request, Start(x)
          PROVE  (x = p /\ Admitted(req'[p].user)) \/ req'[p] = req[p]
      BY <2>1, StartEffect
    <2>2. ASSUME NEW x \in Request, Effect(x)
          PROVE  \/ req'[p] = req[p]
                 \/ req'[p].user = req[p].user /\ InFlight(p)
      BY <2>2 DEF Effect, Path, OneChanged, Others, Same, InFlight
    <2> QED BY <1>1, <2>1, <2>2, Cases DEF Outside, InFlight
  <1>2. ASSUME NEW x \in Request, NEW y \in Request, x # y, Start(x),
               Admitted(req'[x].user), req'[x].user \in Patient,
               req'[x].user = req'[y].user, InFlight(y)'
        PROVE  FALSE
    <2>1. req'[y] = req[y]
      BY <1>2, StartEffect
    <2> QED BY <1>2, <2>1 DEF Admitted, InFlight
  <1>3. CASE InFlight(q) /\ InFlight(r) /\ req'[q].user = req[q].user
                /\ req'[r].user = req[r].user
    BY <1>3 DEF IInv, PatientAlone
  <1> QED BY <1>1, <1>2, <1>3

\* Who waits has no code left when the next one is created: the code that
\* another request created since would need a second request in flight.
LEMMA PatientClearStep == IInv /\ [Next]_vars => PatientClear'
  <1> SUFFICES ASSUME IInv, [Next]_vars, NEW r \in Request, NEW s \in Request,
                      req'[r].user \in Patient
               PROVE  /\ (req'[r].pc = "login.create" /\ login'[s] # None)
                            => login'[s].user # req'[r].user
                      /\ (req'[r].pc = "phone.create" /\ phone'[s] # None)
                            => phone'[s].user # req'[r].user
    BY DEF PatientClear
  <1>1. CASE Effect(r)
    <2>1. req'[r].user = req[r].user
      BY <1>1 DEF Effect, Path, OneChanged, Same
    <2>2. ASSUME req'[r].pc = "login.create", login'[s] # None
          PROVE  login'[s].user # req'[r].user
      <3>1. req[r].pc = "login.clear"
        BY <1>1, <2>2 DEF Effect, Path, Onward
      <3> QED BY <1>1, <2>1, <2>2, <3>1 DEF Effect, LoginChange
    <2>3. ASSUME req'[r].pc = "phone.create", phone'[s] # None
          PROVE  phone'[s].user # req'[r].user
      <3>1. req[r].pc = "phone.clear"
        BY <1>1, <2>3 DEF Effect, Path, Onward
      <3> QED BY <1>1, <2>1, <2>3, <3>1 DEF Effect, PhoneChange
    <2> QED BY <2>2, <2>3
  <1>2. CASE Start(r)
    BY <1>2, StartEffect
  <1>3. CASE req'[r] = req[r]
    <2>1. ASSUME InFlight(r), InFlight(s), Effect(s), req[s].user = req[r].user
          PROVE  req'[r] # req[r]
      <3>1. s = r
        BY <1>3, <2>1 DEF IInv, PatientAlone
      <3>2. req'[s].pc # req[s].pc
        BY <2>1 DEF Effect, Path, Onward, InFlight
      <3> QED BY <3>1, <3>2
    <2>2. ASSUME req[r].pc = "login.create", login'[s] # None
          PROVE  login'[s].user # req[r].user
      <3>1. CASE login[s] # None /\ login'[s] = login[s]
        BY <1>3, <2>2, <3>1 DEF IInv, PatientClear
      <3>2. CASE Effect(s) /\ req[s].pc = "login.create" /\ login'[s].user = req[s].user
        BY <1>3, <2>1, <2>2, <3>2 DEF InFlight
      <3> QED BY <2>2, <3>1, <3>2, LoginRows
    <2>3. ASSUME req[r].pc = "phone.create", phone'[s] # None
          PROVE  phone'[s].user # req[r].user
      <3>1. CASE phone[s] # None /\ phone'[s] = phone[s]
        BY <1>3, <2>3, <3>1 DEF IInv, PatientClear
      <3>2. CASE Effect(s) /\ req[s].pc = "phone.create" /\ phone'[s].user = req[s].user
        BY <1>3, <2>1, <2>3, <3>2 DEF InFlight
      <3> QED BY <2>3, <3>1, <3>2, PhoneRows
    <2> QED BY <1>3, <2>2, <2>3
  <1>4. Effect(r) \/ Start(r) \/ req'[r] = req[r]
    <2>1. ASSUME NEW q \in Request, q # r, Start(q) \/ Effect(q) PROVE req'[r] = req[r]
      BY <2>1, StartEffect DEF Effect, Path, OneChanged, Others
    <2> QED BY <2>1, Cases DEF Outside
  <1> QED BY <1>1, <1>2, <1>3, <1>4

LEMMA OneLiveCodeStep == IInv /\ [Next]_vars => OneLiveCode'
  <1> SUFFICES ASSUME IInv, [Next]_vars, NEW u \in Patient,
                      NEW s1 \in Request, NEW s2 \in Request
               PROVE  /\ (/\ login'[s1] # None /\ login'[s1].user = u
                          /\ login'[s2] # None /\ login'[s2].user = u) => s1 = s2
                      /\ (/\ phone'[s1] # None /\ phone'[s1].user = u
                          /\ phone'[s2] # None /\ phone'[s2].user = u) => s1 = s2
    BY DEF OneLiveCode
  <1>1. ASSUME NEW x \in Request, NEW y \in Request, Effect(x), Effect(y)
        PROVE  x = y
    <2>1. req'[x].pc # req[x].pc
      BY <1>1 DEF Effect, Path, OneChanged, Onward
    <2> QED BY <1>1, <2>1 DEF Effect, Path, OneChanged, Others
  <1>2. ASSUME login'[s1] # None, login'[s1].user = u,
               login'[s2] # None, login'[s2].user = u
        PROVE  s1 = s2
    <2>1. ASSUME NEW x \in Request, NEW y \in Request, req[x].pc = "login.create",
                 req[x].user = u, login[y] # None, login[y].user = u
          PROVE  FALSE
      BY <2>1 DEF IInv, PatientClear
    <2>2. CASE login[s1] # None /\ login'[s1] = login[s1]
               /\ login[s2] # None /\ login'[s2] = login[s2]
      BY <1>2, <2>2 DEF IInv, OneLiveCode
    <2> QED BY <1>1, <1>2, <2>1, <2>2, LoginRows
  <1>3. ASSUME phone'[s1] # None, phone'[s1].user = u,
               phone'[s2] # None, phone'[s2].user = u
        PROVE  s1 = s2
    <2>1. ASSUME NEW x \in Request, NEW y \in Request, req[x].pc = "phone.create",
                 req[x].user = u, phone[y] # None, phone[y].user = u
          PROVE  FALSE
      BY <2>1 DEF IInv, PatientClear
    <2>2. CASE phone[s1] # None /\ phone'[s1] = phone[s1]
               /\ phone[s2] # None /\ phone'[s2] = phone[s2]
      BY <1>3, <2>2 DEF IInv, OneLiveCode
    <2> QED BY <1>1, <1>3, <2>1, <2>2, PhoneRows
  <1> QED BY <1>2, <1>3

-----------------------------------------------------------------------------
LEMMA InitIInv == Init => IInv
  <1> SUFFICES ASSUME Init PROVE IInv
    OBVIOUS
  <1> USE DEF Init
  <1>1. Idle \in RequestState
    BY DEF Idle, RequestState, Labels
  <1>2. TypeOK
    <2> HIDE DEF Idle, RequestState
    <2> QED BY <1>1 DEF TypeOK
  <1>3. \A r \in Request : /\ req[r] = Idle /\ login[r] = None /\ phone[r] = None
    OBVIOUS
  <1>4. /\ Idle.op = "none" /\ Idle.pc = "idle" /\ Idle.answer = "none"
        /\ Idle.row = None
    BY DEF Idle
  <1>5. LocalShape
    BY <1>3, <1>4 DEF LocalShape
  <1>6. \A r \in Request : ~Consumed(r) /\ ~HoldsLogin(r) /\ ~HoldsPhone(r)
                          /\ ~Asked(r) /\ ~InFlight(r)
    BY <1>3, <1>4 DEF Consumed, HoldsLogin, HoldsPhone, Asked, InFlight
  <1>7. RowOrigin /\ RowHeld /\ UsedUp /\ CodeUsedOnce /\ CodeSurvives /\ PatientAlone
    BY <1>3, <1>6
       DEF RowOrigin, RowHeld, UsedUp, CodeUsedOnce, CodeSurvives, PatientAlone
  <1>8. NumberProved
    BY DEF NumberProved
  <1>9. PatientClear /\ OneLiveCode
    BY <1>3, <1>4 DEF PatientClear, OneLiveCode
  <1> QED BY <1>2, <1>5, <1>7, <1>8, <1>9 DEF IInv

(***************************************************************************)
(* The invariant holds in every state the codes reach.                     *)
(***************************************************************************)
THEOREM Invariance == Spec => []IInv
  <1>1. IInv /\ [Next]_vars => IInv'
    <2> SUFFICES ASSUME IInv, [Next]_vars PROVE IInv'
      OBVIOUS
    <2>1. TypeOK' /\ LocalShape' /\ RowOrigin'
      BY TypeStep, LocalShapeStep, RowOriginStep
    <2>2. RowHeld' /\ UsedUp' /\ CodeUsedOnce'
      BY RowHeldStep, UsedUpStep
    <2>3. NumberProved' /\ CodeSurvives'
      BY NumberProvedStep, CodeSurvivesStep
    <2>4. PatientAlone' /\ PatientClear' /\ OneLiveCode'
      BY PatientAloneStep, PatientClearStep, OneLiveCodeStep
    <2> QED BY <2>1, <2>2, <2>3, <2>4 DEF IInv
  <1> QED BY <1>1, InitIInv, PTL DEF Spec

(***************************************************************************)
(* The rows of users, codes, numbers and device tokens, and the state of   *)
(* every request, keep their types.                                        *)
(***************************************************************************)
THEOREM TypeCorrect == Spec => []TypeOK
  <1>1. IInv => TypeOK
    BY DEF IInv
  <1> QED BY <1>1, Invariance, PTL

(***************************************************************************)
(* However many requests verifyLoginCode or verifyPhoneCode reads the same *)
(* code in, one gets past its deletion: two logins never share a code.     *)
(***************************************************************************)
THEOREM OneUsePerCode == Spec => []CodeUsedOnce
  <1>1. IInv => CodeUsedOnce
    BY DEF IInv
  <1> QED BY <1>1, Invariance, PTL

(***************************************************************************)
(* verifyPhoneCode stores no number but one that its user named in         *)
(* sendPhoneVerificationCode, from a code of that user.                    *)
(***************************************************************************)
THEOREM NumbersAreProved == Spec => []NumberProved
  <1>1. IInv => NumberProved
    BY DEF IInv
  <1> QED BY <1>1, Invariance, PTL

(***************************************************************************)
(* Requests of resendLoginCode that overlap delete each other's codes, but *)
(* one is left: whoever was told that a code was sent has one that counts. *)
(***************************************************************************)
THEOREM CodeRemains == Spec => []SomeCodeSurvives
  <1>1. IInv => SomeCodeSurvives
    BY DEF IInv, CodeSurvives, SomeCodeSurvives, Asked
  <1> QED BY <1>1, Invariance, PTL

(***************************************************************************)
(* Who sends a request when the previous one is over has one code of each  *)
(* kind: resending makes the code sent before worthless.                   *)
(***************************************************************************)
THEOREM ResendingReplaces == Spec => []OneLiveCode
  <1>1. IInv => OneLiveCode
    BY DEF IInv
  <1> QED BY <1>1, Invariance, PTL
=============================================================================
