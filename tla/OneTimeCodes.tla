---------------------------- MODULE OneTimeCodes ----------------------------
(***************************************************************************)
(* The codes of AuthService: the 4 digits that complete a login, sent by   *)
(* e-mail (resendLoginCode, verifyLoginCode, storeDeviceToken), and the 6  *)
(* digits that prove a phone number, sent by SMS                           *)
(* (sendPhoneVerificationCode, verifyPhoneCode, UserService.updateUser).   *)
(*                                                                         *)
(* Requests, actions and the names of rows are as in UserSessions.  A code *)
(* may be drawn twice, since only so many digits are drawn.                *)
(***************************************************************************)
EXTENDS Naturals

CONSTANTS
    User,       \* users, each with an e-mail address
    Request,    \* the requests of the run, each handled once
    Patient,    \* users who send a request when the previous one is over
    Removable,  \* the users somebody may delete from the database
    Code,       \* the codes that may be drawn
    Phone,      \* phone numbers
    None        \* no row, no code, no number, no user

ASSUME PatientAssumption == Patient \subseteq User
ASSUME RemovableAssumption == Removable \subseteq User

VARIABLES
    users,      \* users: the rows that exist
    login,      \* login_codes: the rows, by the request that created them
    phone,      \* phone_verification_codes: likewise
    created,    \* how many rows were created: the clock of createdAt
    expired,    \* rows whose expiresAt has passed
    number,     \* users: the verified phone number, if any
    device,     \* device_tokens: requests whose token was stored
    req         \* the local state of each request

tables == <<users, login, phone, created, expired, number, device>>
vars == <<users, login, phone, created, expired, number, device, req>>

LoginRow == [user : User, code : Code, createdAt : Nat]
PhoneRow == [user : User, code : Code, phoneNumber : Phone]

ASSUME NoneAssumption ==
    None \notin Request \cup User \cup Code \cup Phone \cup LoginRow \cup PhoneRow

Labels == {"idle", "login.user", "login.clear", "login.create", "login.find",
           "login.delete", "device.clear", "device.create", "sign",
           "phone.clear", "phone.create", "phone.find", "phone.user",
           "phone.write", "phone.delete", "send", "answer", "done"}

RequestState == [op : {"none", "resendLogin", "verifyLogin", "sendPhone", "verifyPhone"},
                 pc : Labels,
                 user : User \cup {None},
                 code : Code \cup {None},       \* the code typed in
                 phone : Phone \cup {None},     \* the number to prove
                 remember : BOOLEAN,            \* dontAskOnThisDevice
                 row : Request \cup {None},     \* the row found
                 answer : {"none", "OK", "INVALID_INPUT", "SESSION_EXPIRED",
                           "USER_NOT_FOUND", "NOT_FOUND", "FAILED"}]

Idle == [op |-> "none", pc |-> "idle", user |-> None, code |-> None,
         phone |-> None, remember |-> FALSE, row |-> None, answer |-> "none"]

-----------------------------------------------------------------------------
InFlight(r) == req[r].pc \notin {"idle", "done"}

Admitted(u) ==
    u \in Patient => \A q \in Request : InFlight(q) => req[q].user # u

Goto(r, label) == req' = [req EXCEPT ![r].pc = label]
GotoWith(r, label, s) == req' = [req EXCEPT ![r].pc = label, ![r].row = s]
End(r, a) == req' = [req EXCEPT ![r].pc = "done", ![r].answer = a]

Begin(r, operation, label, u, c, p, remember) ==
    /\ req[r].pc = "idle"
    /\ Admitted(u)
    /\ req' = [req EXCEPT ![r] =
                 [op |-> operation, pc |-> label, user |-> u, code |-> c, phone |-> p,
                  remember |-> remember, row |-> None, answer |-> "none"]]
    /\ UNCHANGED tables

-----------------------------------------------------------------------------
(***************************************************************************)
(* resendLoginCode and verifyLoginCode begin with getUserByEmail.          *)
(***************************************************************************)
ResendLoginCode(r) == \E u \in User :
    Begin(r, "resendLogin", "login.user", u, None, None, FALSE)

VerifyLoginCode(r) == \E u \in User, c \in Code, remember \in BOOLEAN :
    Begin(r, "verifyLogin", "login.user", u, c, None, remember)

LoginUser(r) ==
    /\ req[r].pc = "login.user"
    /\ CASE req[r].user \notin users -> End(r, "USER_NOT_FOUND")
         [] req[r].user \in users /\ req[r].op = "resendLogin" -> Goto(r, "login.clear")
         [] OTHER -> Goto(r, "login.find")
    /\ UNCHANGED tables

\* Mutant: who had a code is sent the one that has just been deleted.
LoginClearResends(r) ==
    /\ req[r].pc = "login.clear"
    /\ login' = [s \in Request |->
                   IF login[s] # None /\ login[s].user = req[r].user
                   THEN None ELSE login[s]]
    /\ Goto(r, IF login' = login THEN "login.create" ELSE "send")
    /\ UNCHANGED <<users, phone, created, expired, number, device>>

\* Mutant: only codes that have expired are deleted.
LoginClearExpired(r) ==
    /\ req[r].pc = "login.clear"
    /\ login' = [s \in Request |->
                   IF login[s] # None /\ login[s].user = req[r].user /\ s \in expired
                   THEN None ELSE login[s]]
    /\ Goto(r, "login.create")
    /\ UNCHANGED <<users, phone, created, expired, number, device>>

\* deleteMany takes every code of the address.
LoginClear(r) ==
    /\ req[r].pc = "login.clear"
    /\ login' = [s \in Request |->
                   IF login[s] # None /\ login[s].user = req[r].user
                   THEN None ELSE login[s]]
    /\ Goto(r, "login.create")
    /\ UNCHANGED <<users, phone, created, expired, number, device>>

\* Mutant: the row is created without the code.
LoginCreateWithoutCode(r) ==
    /\ req[r].pc = "login.create"
    /\ login' = [login EXCEPT ![r] = [user |-> req[r].user, code |-> None,
                                      createdAt |-> created]]
    /\ created' = created + 1
    /\ Goto(r, "send")
    /\ UNCHANGED <<users, phone, expired, number, device>>

LoginCreate(r) ==
    /\ req[r].pc = "login.create"
    /\ \E c \in Code :
         login' = [login EXCEPT ![r] = [user |-> req[r].user, code |-> c,
                                        createdAt |-> created]]
    /\ created' = created + 1
    /\ Goto(r, "send")
    /\ UNCHANGED <<users, phone, expired, number, device>>

\* verifyLoginCode goes on: the latest row with this code, if there is one.
LoginMatches(r) == {s \in Request : /\ login[s] # None
                                    /\ login[s].user = req[r].user
                                    /\ login[s].code = req[r].code}

LoginFind(r) ==
    /\ req[r].pc = "login.find"
    /\ \/ LoginMatches(r) = {} /\ End(r, "INVALID_INPUT")
       \/ \E s \in LoginMatches(r) :
            /\ \A x \in LoginMatches(r) : login[x].createdAt <= login[s].createdAt
            /\ IF s \in expired THEN End(r, "SESSION_EXPIRED")
                                ELSE GotoWith(r, "login.delete", s)
    /\ UNCHANGED tables

\* Mutant: deleteMany, which does not mind that the row is gone.
LoginDeleteMany(r) ==
    /\ req[r].pc = "login.delete"
    /\ login' = [login EXCEPT ![req[r].row] = None]
    /\ Goto(r, IF req[r].remember THEN "device.clear" ELSE "sign")
    /\ UNCHANGED <<users, phone, created, expired, number, device>>

\* Deleted by id: a row that is gone throws P2025, the code was used meanwhile.
LoginDelete(r) ==
    /\ req[r].pc = "login.delete"
    /\ IF login[req[r].row] = None
       THEN End(r, "NOT_FOUND") /\ UNCHANGED login
       ELSE /\ login' = [login EXCEPT ![req[r].row] = None]
            /\ Goto(r, IF req[r].remember THEN "device.clear" ELSE "sign")
    /\ UNCHANGED <<users, phone, created, expired, number, device>>

\* storeDeviceToken.  The token is new: there is none to delete.
DeviceClear(r) ==
    /\ req[r].pc = "device.clear"
    /\ Goto(r, "device.create")
    /\ UNCHANGED tables

DeviceCreate(r) ==
    /\ req[r].pc = "device.create"
    /\ device' = device \cup {r}
    /\ Goto(r, "sign")
    /\ UNCHANGED <<users, login, phone, created, expired, number>>

\* A query of storeDeviceToken throws: verifyLoginCode ignores the code.
DeviceFails(r) ==
    /\ req[r].pc \in {"device.clear", "device.create"}
    /\ Goto(r, "sign")
    /\ UNCHANGED tables

\* signToken, see UserSessions.
Sign(r) ==
    /\ req[r].pc = "sign"
    /\ IF req[r].user \in users THEN Goto(r, "answer") ELSE End(r, "USER_NOT_FOUND")
    /\ UNCHANGED tables

-----------------------------------------------------------------------------
(***************************************************************************)
(* sendPhoneVerificationCode and verifyPhoneCode, of a user with a token.  *)
(***************************************************************************)
SendPhoneVerificationCode(r) == \E u \in User, p \in Phone :
    Begin(r, "sendPhone", "phone.clear", u, None, p, FALSE)

PhoneClear(r) ==
    /\ req[r].pc = "phone.clear"
    /\ phone' = [s \in Request |->
                   IF phone[s] # None /\ phone[s].user = req[r].user
                   THEN None ELSE phone[s]]
    /\ Goto(r, "phone.create")
    /\ UNCHANGED <<users, login, created, expired, number, device>>

PhoneCreate(r) ==
    /\ req[r].pc = "phone.create"
    /\ \E c \in Code :
         phone' = [phone EXCEPT ![r] = [user |-> req[r].user, code |-> c,
                                        phoneNumber |-> req[r].phone]]
    /\ Goto(r, "send")
    /\ UNCHANGED <<users, login, created, expired, number, device>>

VerifyPhoneCode(r) == \E u \in User, c \in Code :
    Begin(r, "verifyPhone", "phone.find", u, c, None, FALSE)

\* Mutant: the where clause has lost its user.
PhoneMatchesOfAnyone(r) == {s \in Request : phone[s] # None /\ phone[s].code = req[r].code}

PhoneMatches(r) == {s \in Request : /\ phone[s] # None
                                    /\ phone[s].user = req[r].user
                                    /\ phone[s].code = req[r].code}

\* No order is asked for; the number is taken from the row that was read.
PhoneFind(r) ==
    /\ req[r].pc = "phone.find"
    /\ \/ PhoneMatches(r) = {} /\ End(r, "INVALID_INPUT")
       \/ \E s \in PhoneMatches(r) :
            IF s \in expired
            THEN End(r, "SESSION_EXPIRED")
            ELSE req' = [req EXCEPT ![r].pc = "phone.user", ![r].row = s,
                                    ![r].phone = phone[s].phoneNumber]
    /\ UNCHANGED tables

\* updateUser finds the user and writes, all before the row is deleted: it may
\* be gone by then.
PhoneUser(r) ==
    /\ req[r].pc = "phone.user"
    /\ IF req[r].user \in users THEN Goto(r, "phone.write")
                                ELSE End(r, "USER_NOT_FOUND")
    /\ UNCHANGED tables

PhoneWrite(r) ==
    /\ req[r].pc = "phone.write"
    /\ IF req[r].user \in users
       THEN /\ number' = [number EXCEPT ![req[r].user] = req[r].phone]
            /\ Goto(r, "phone.delete")
       ELSE End(r, "NOT_FOUND") /\ UNCHANGED number
    /\ UNCHANGED <<users, login, phone, created, expired, device>>

PhoneDelete(r) ==
    /\ req[r].pc = "phone.delete"
    /\ IF phone[req[r].row] = None
       THEN End(r, "NOT_FOUND") /\ UNCHANGED phone
       ELSE /\ phone' = [phone EXCEPT ![req[r].row] = None]
            /\ Goto(r, "answer")
    /\ UNCHANGED <<users, login, created, expired, number, device>>

-----------------------------------------------------------------------------
\* SES or the SMS service takes the message.
Send(r) ==
    /\ req[r].pc = "send"
    /\ Goto(r, "answer")
    /\ UNCHANGED tables

Answer(r) ==
    /\ req[r].pc = "answer"
    /\ End(r, "OK")
    /\ UNCHANGED tables

\* Any other call throws, the process stops, or the answer is lost.
Fail(r) ==
    /\ InFlight(r)
    /\ End(r, "FAILED")
    /\ UNCHANGED tables

\* The ten minutes of a code are over.
ExpireCode(s) ==
    /\ login[s] # None \/ phone[s] # None
    /\ s \notin expired
    /\ expired' = expired \cup {s}
    /\ UNCHANGED <<users, login, phone, created, number, device, req>>

\* A user row is deleted from outside the program.  The tables of codes and
\* device tokens have no relation to it, and keep theirs.
RemoveUser(u) ==
    /\ u \in users \cap Removable
    /\ users' = users \ {u}
    /\ number' = [number EXCEPT ![u] = None]
    /\ UNCHANGED <<login, phone, created, expired, device, req>>

AtRest == (\A r \in Request : ~InFlight(r)) /\ UNCHANGED vars

-----------------------------------------------------------------------------
Init == /\ users = User
        /\ login = [s \in Request |-> None]
        /\ phone = [s \in Request |-> None]
        /\ created = 0
        /\ expired = {}
        /\ number = [u \in User |-> None]
        /\ device = {}
        /\ req = [r \in Request |-> Idle]

Start(r) == \/ ResendLoginCode(r) \/ VerifyLoginCode(r)
            \/ SendPhoneVerificationCode(r) \/ VerifyPhoneCode(r)

Step(r) == \/ LoginUser(r) \/ LoginClear(r) \/ LoginCreate(r) \/ LoginFind(r)
           \/ LoginDelete(r)
           \/ DeviceClear(r) \/ DeviceCreate(r) \/ DeviceFails(r) \/ Sign(r)
           \/ PhoneClear(r) \/ PhoneCreate(r) \/ PhoneFind(r) \/ PhoneUser(r)
           \/ PhoneWrite(r) \/ PhoneDelete(r) \/ Send(r) \/ Answer(r)

Next == \/ \E r \in Request : Start(r) \/ Step(r) \/ Fail(r) \/ ExpireCode(r)
        \/ \E u \in User : RemoveUser(u)
        \/ AtRest

Spec == Init /\ [][Next]_vars

-----------------------------------------------------------------------------
TypeOK == /\ users \subseteq User
          /\ login \in [Request -> LoginRow \cup {None}]
          /\ phone \in [Request -> PhoneRow \cup {None}]
          /\ created \in Nat
          /\ expired \subseteq Request
          /\ number \in [User -> Phone \cup {None}]
          /\ device \subseteq Request
          /\ req \in [Request -> RequestState]

(***************************************************************************)
(* A login code admits one login: of the requests that found the same row, *)
(* at most one got past its deletion.  A phone code is confirmed once.     *)
(***************************************************************************)
Consumed(r) == \/ req[r].pc \in {"device.clear", "device.create", "sign", "answer"}
               \/ req[r].answer = "OK"

CodeUsedOnce ==
    \A r1, r2 \in Request :
      ( /\ req[r1].op = req[r2].op
        /\ req[r1].op \in {"verifyLogin", "verifyPhone"}
        /\ Consumed(r1) /\ Consumed(r2)
        /\ req[r1].row = req[r2].row ) => r1 = r2

(***************************************************************************)
(* A number that counts as proved was named by its user, who then typed in *)
(* a code, and no code of another user was taken for theirs.               *)
(***************************************************************************)
NumberProved ==
    \A u \in User : number[u] # None =>
      \E r, s \in Request : /\ req[r].op = "verifyPhone" /\ req[r].user = u
                            /\ req[r].row = s
                            /\ req[s].op = "sendPhone" /\ req[s].user = u
                            /\ req[s].phone = number[u]

\* All that u has sent about a login is requests for a code, and none broke off.
OnlyAsks(u) ==
    \A r \in Request : (req[r].user = u /\ req[r].op \in {"resendLogin", "verifyLogin"})
                         => req[r].op = "resendLogin" /\ req[r].answer # "FAILED"

\* u has a code, or is about to have one.
HasCode(u) ==
    \E s \in Request : \/ login[s] # None /\ login[s].user = u
                       \/ req[s].pc = "login.create" /\ req[s].user = u

(***************************************************************************)
(* Requests for a code that race delete each other's codes, but never all: *)
(* who asked for one and has typed in none has a code, or one on its way,  *)
(* unless a request broke off.                                             *)
(***************************************************************************)
SomeCodeSurvives ==
    \A u \in User :
      ( /\ \E r \in Request : req[r].op = "resendLogin" /\ req[r].user = u
                                                  /\ req[r].answer = "OK"
        /\ OnlyAsks(u) ) => HasCode(u)

(***************************************************************************)
(* Who waits for each answer has at most one code of each kind, so that a  *)
(* code sent earlier is worth nothing.                                     *)
(***************************************************************************)
OneLiveCode ==
    \A u \in Patient, s1, s2 \in Request :
      \/ /\ login[s1] # None /\ login[s1].user = u
         /\ login[s2] # None /\ login[s2].user = u
      \/ /\ phone[s1] # None /\ phone[s1].user = u
         /\ phone[s2] # None /\ phone[s2].user = u
      => s1 = s2

-----------------------------------------------------------------------------
(***************************************************************************)
(* The inductive invariant.  LocalShape: what the label of a request tells *)
(* of it.  RowOrigin: a row is that of the request that created it.        *)
(* RowHeld: the row that a request has found, and UsedUp: that it is gone  *)
(* once it was used.  CodeSurvives: SomeCodeSurvives from the moment a     *)
(* code is on its way.  PatientAlone and PatientClear: who waits has one   *)
(* request in flight, and no code left when the next is created.           *)
(***************************************************************************)
LocalShape ==
    \A r \in Request :
      /\ req[r].pc = "idle" => req[r] = Idle
      /\ req[r].pc # "idle" => req[r].user \in User /\ req[r].op # "none"
      /\ req[r].pc = "done" <=> req[r].answer # "none"
      /\ req[r].pc \in {"login.user", "login.find", "phone.find"} => req[r].row = None
      /\ req[r].pc = "login.user" => req[r].op \in {"resendLogin", "verifyLogin"}
      /\ req[r].pc \in {"login.clear", "login.create"} => req[r].op = "resendLogin"
      /\ req[r].pc \in {"login.find", "login.delete", "device.clear", "device.create",
                        "sign"} => req[r].op = "verifyLogin"
      /\ req[r].pc \in {"phone.clear", "phone.create"} => req[r].op = "sendPhone"
      /\ req[r].pc \in {"phone.find", "phone.user", "phone.write", "phone.delete"}
           => req[r].op = "verifyPhone"
      /\ req[r].pc = "send" => req[r].op \in {"resendLogin", "sendPhone"}
      /\ req[r].op = "sendPhone" => req[r].phone \in Phone

\* A request that was given a row does not create another.
Past(s) == req[s].pc \in {"send", "answer", "done"}

RowOrigin ==
    \A s \in Request :
      /\ login[s] # None => /\ req[s].op = "resendLogin" /\ Past(s)
                            /\ login[s].user = req[s].user
      /\ phone[s] # None => /\ req[s].op = "sendPhone" /\ Past(s)
                            /\ phone[s].user = req[s].user
                            /\ phone[s].phoneNumber = req[s].phone

HoldsLogin(r) == /\ req[r].op = "verifyLogin"
                 /\ \/ req[r].pc = "login.delete"
                    \/ Consumed(r)

HoldsPhone(r) == /\ req[r].op = "verifyPhone"
                 /\ \/ req[r].pc \in {"phone.user", "phone.write", "phone.delete"}
                    \/ Consumed(r)

RowHeld ==
    \A r \in Request :
      /\ HoldsLogin(r) => /\ req[r].row \in Request
                          /\ Past(req[r].row)
                          /\ req[req[r].row].user = req[r].user
      /\ HoldsPhone(r) => /\ req[r].row \in Request
                          /\ req[req[r].row].op = "sendPhone"
                          /\ Past(req[r].row)
                          /\ req[req[r].row].user = req[r].user
                          /\ req[req[r].row].phone = req[r].phone

UsedUp ==
    \A r \in Request : Consumed(r) =>
      /\ req[r].op = "verifyLogin" => login[req[r].row] = None
      /\ req[r].op = "verifyPhone" => phone[req[r].row] = None

\* r has deleted the codes of its user, and one of its own is on its way.
Asked(r) == /\ req[r].op = "resendLogin"
            /\ \/ req[r].pc \in {"login.create", "send", "answer"}
               \/ req[r].answer = "OK"

CodeSurvives ==
    \A u \in User :
      ( /\ \E r \in Request : Asked(r) /\ req[r].user = u
        /\ OnlyAsks(u) ) => HasCode(u)

PatientAlone ==
    \A q, r \in Request :
      (InFlight(q) /\ InFlight(r) /\ req[q].user = req[r].user
         /\ req[r].user \in Patient) => q = r

PatientClear ==
    \A r, s \in Request : req[r].user \in Patient =>
      /\ (req[r].pc = "login.create" /\ login[s] # None)
           => login[s].user # req[r].user
      /\ (req[r].pc = "phone.create" /\ phone[s] # None)
           => phone[s].user # req[r].user

IInv == /\ TypeOK /\ LocalShape /\ RowOrigin
        /\ RowHeld /\ UsedUp /\ CodeUsedOnce /\ NumberProved
        /\ CodeSurvives
        /\ PatientAlone /\ PatientClear /\ OneLiveCode
=============================================================================
