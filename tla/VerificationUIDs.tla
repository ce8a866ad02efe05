-------------------------- MODULE VerificationUIDs --------------------------
(***************************************************************************)
(* VerificationUIDService and the operations of AuthService built on it:   *)
(* register, sendForgotPasswordEmail and resendVerificationEmail mail a    *)
(* link; resetPassword, setNewPassword and verifyEmail accept one.         *)
(*                                                                         *)
(* As in UserSessions, a request is a process, an action is the code       *)
(* between two awaits on the database or on SES, and a row of the          *)
(* VerificationUID table is named after the request that created it.       *)
(***************************************************************************)
CONSTANTS
    User,           \* e-mail addresses, each with at most one account
    Request,        \* the requests of the run, each handled once
    Removable,      \* the users somebody may delete from the database
    Calm,           \* users with one request in flight at a time
    None            \* no row, no link, no user

ASSUME RemovableAssumption == Removable \subseteq User
ASSUME CalmAssumption == Calm \subseteq User

UidType == {"RESET_PASSWORD", "EMAIL_VERIFICATION"}

Row == [user : User, type : UidType]

ASSUME NoneAssumption == None \notin Request \cup User \cup Row

VARIABLES
    account,    \* what became of each address: free, open or removed
    password,   \* the request that last set a user's password, if any did
    verified,   \* users whose emailVerified is true
    uids,       \* VerificationUID: the rows, by the request that created them
    mailed,     \* requests whose link has been mailed
    req         \* the local state of each request

vars == <<account, password, verified, uids, mailed, req>>

Issuing == {"register", "forgot", "resend"}
Using == {"reset", "verifyEmail"}

Labels == {"idle", "register.find", "register.create", "issue.find",
           "uid.verify", "user.find", "user.write", "clear.find",
           "clear.delete", "uid.create", "mail", "answer", "done"}

Codes == {"none", "OK", "USER_ALREADY_REGISTERED", "USER_ALREADY_ONBOARDED",
          "CONFLICT", "SERVER_ERROR", "VERIFICATION_UID_NOT_FOUND",
          "USER_NOT_FOUND", "NOT_FOUND", "FAILED"}

RequestState == [op : {"none"} \cup Issuing \cup Using,
                 pc : Labels,
                 user : User \cup {None},
                 link : Request \cup {None},    \* the link a request presents
                 row : Request \cup {None},     \* the row clear has found
                 kept : BOOLEAN,                \* its clear has thrown
                 code : Codes]

Idle == [op |-> "none", pc |-> "idle", user |-> None, link |-> None,
         row |-> None, kept |-> FALSE, code |-> "none"]

-----------------------------------------------------------------------------
InFlight(r) == req[r].pc \notin {"idle", "done"}

Admitted(u) == u \in Calm => \A q \in Request : InFlight(q) => req[q].user # u

\* The type each caller passes to the service.
TypeOf(r) == IF req[r].op \in {"forgot", "reset"} THEN "RESET_PASSWORD"
                                                  ELSE "EMAIL_VERIFICATION"

\* Mutant: the where clause of clear has lost its type.
RowsOfAnyType(u, type) == {s \in Request : uids[s] # None /\ uids[s].user = u}

RowsOf(u, type) == {s \in Request : /\ uids[s] # None
                                    /\ uids[s].user = u
                                    /\ uids[s].type = type}

Goto(r, label) == req' = [req EXCEPT ![r].pc = label]
End(r, c) == req' = [req EXCEPT ![r].pc = "done", ![r].code = c]

Begin(r, operation, label, u, t) ==
    /\ req[r].pc = "idle"
    /\ Admitted(u)
    /\ req' = [req EXCEPT ![r] =
                 [op |-> operation, pc |-> label, user |-> u, link |-> t,
                  row |-> None, kept |-> FALSE, code |-> "none"]]
    /\ UNCHANGED <<account, password, verified, uids, mailed>>

-----------------------------------------------------------------------------
(***************************************************************************)
(* register.  An address whose account was removed is not registered       *)
(* again: the new account would have a new id, that is, be another User.   *)
(***************************************************************************)
Register(r) == \E u \in User : /\ account[u] # "removed"
                               /\ Begin(r, "register", "register.find", u, None)

\* The code of getUserByEmail is not looked at, here and in IssueFind: when its
\* query throws there is no user, as when the address has no account.
RegisterFind(r) ==
    /\ req[r].pc = "register.find"
    /\ \/ account[req[r].user] = "open" /\ End(r, "USER_ALREADY_REGISTERED")
       \/ Goto(r, "register.create")
    /\ UNCHANGED <<account, password, verified, uids, mailed>>

\* The address is unique: the second of two creations throws P2002.
RegisterCreate(r) ==
    /\ req[r].pc = "register.create"
    /\ IF account[req[r].user] = "open"
       THEN End(r, "CONFLICT") /\ UNCHANGED account
       ELSE /\ account' = [account EXCEPT ![req[r].user] = "open"]
            /\ Goto(r, "clear.find")
    /\ UNCHANGED <<password, verified, uids, mailed>>

\* sendForgotPasswordEmail and resendVerificationEmail.
Forgot(r) == \E u \in User : Begin(r, "forgot", "issue.find", u, None)
Resend(r) == \E u \in User : Begin(r, "resend", "issue.find", u, None)

\* An unknown address is answered OK, so as not to tell which exist.
IssueFind(r) ==
    /\ req[r].pc = "issue.find"
    /\ \/ End(r, "OK")
       \/ /\ account[req[r].user] = "open"
          /\ IF req[r].op = "resend" /\ req[r].user \in verified
             THEN End(r, "USER_ALREADY_ONBOARDED")
             ELSE Goto(r, "clear.find")
    /\ UNCHANGED <<account, password, verified, uids, mailed>>

-----------------------------------------------------------------------------
(***************************************************************************)
(* clearVerificationUID: the end of every operation that accepts a link,   *)
(* and the beginning of every one that mails one.  Both callers go on      *)
(* whatever it returns.                                                    *)
(***************************************************************************)
\* Mutant: who had a link is mailed the one that has just been deleted.
AfterClearResends(r) ==
    CASE req[r].op \in Using -> "answer"
      [] req[r].op \in Issuing /\ req[r].row # None -> "mail"
      [] OTHER -> "uid.create"

AfterClear(r) == IF req[r].op \in Issuing THEN "uid.create" ELSE "answer"

\* findFirst by user and type: any of the rows, not the one that was verified.
ClearFind(r) ==
    /\ req[r].pc = "clear.find"
    /\ LET rows == RowsOf(req[r].user, TypeOf(r)) IN
         \/ \E s \in rows : req' = [req EXCEPT ![r].pc = "clear.delete",
                                               ![r].row = s]
         \/ rows = {} /\ Goto(r, AfterClear(r))
    /\ UNCHANGED <<account, password, verified, uids, mailed>>

\* Deleting a row that is gone throws; serviceMethod turns that into a code.
ClearDelete(r) ==
    /\ req[r].pc = "clear.delete"
    /\ uids' = [uids EXCEPT ![req[r].row] = None]
    /\ Goto(r, AfterClear(r))
    /\ UNCHANGED <<account, password, verified, mailed>>

\* So does a query that fails: nothing is deleted and the caller goes on.
ClearFails(r) ==
    /\ req[r].pc \in {"clear.find", "clear.delete"}
    /\ req' = [req EXCEPT ![r].pc = AfterClear(r), ![r].kept = TRUE]
    /\ UNCHANGED <<account, password, verified, uids, mailed>>

\* register ignores what sendVerificationEmail returns; the others pass it on.
NotSent(r) == IF req[r].op = "register" THEN Goto(r, "answer")
                                        ELSE End(r, "SERVER_ERROR")

\* Mutant: the row gets another member of the enum VerificationUIDType.
UidCreateOther(r) ==
    /\ req[r].pc = "uid.create"
    /\ uids' = [uids EXCEPT ![r] = [user |-> req[r].user, type |-> "REGISTRATION"]]
    /\ Goto(r, "mail")
    /\ UNCHANGED <<account, password, verified, mailed>>

\* The row refers to its user: without one the creation throws P2003.
UidCreate(r) ==
    /\ req[r].pc = "uid.create"
    /\ IF account[req[r].user] = "open"
       THEN /\ uids' = [uids EXCEPT ![r] = [user |-> req[r].user,
                                            type |-> TypeOf(r)]]
            /\ Goto(r, "mail")
       ELSE NotSent(r) /\ UNCHANGED uids
    /\ UNCHANGED <<account, password, verified, mailed>>

\* The creation throws: onError of setVerificationUID makes it SERVER_ERROR.
UidCreateFails(r) ==
    /\ req[r].pc = "uid.create"
    /\ NotSent(r)
    /\ UNCHANGED <<account, password, verified, uids, mailed>>

\* SES takes the mail, or sendEmail returns a code that no caller looks at.
Mail(r) ==
    /\ req[r].pc = "mail"
    /\ mailed' \in {mailed, mailed \cup {r}}
    /\ Goto(r, "answer")
    /\ UNCHANGED <<account, password, verified, uids>>

-----------------------------------------------------------------------------
(***************************************************************************)
(* resetPassword, setNewPassword (the same steps, with the user's id in    *)
(* the answer) and verifyEmail, given a link somebody was mailed: its hash *)
(* is that of the row, so that compare is true of every row it finds.      *)
(***************************************************************************)
ResetPassword(r) == \E t \in mailed :
    Begin(r, "reset", "uid.verify", req[t].user, t)
VerifyEmail(r) == \E t \in mailed :
    Begin(r, "verifyEmail", "uid.verify", req[t].user, t)

\* Mutant: the row is looked up by its uid alone, as getVerificationUID does.
VerifyUIDOfAnyType(r) ==
    /\ req[r].pc = "uid.verify"
    /\ LET row == uids[req[r].link] IN
         IF row # None
         THEN req' = [req EXCEPT ![r].pc = "user.find", ![r].user = row.user]
         ELSE End(r, "VERIFICATION_UID_NOT_FOUND")
    /\ UNCHANGED <<account, password, verified, uids, mailed>>

VerifyUID(r) ==
    /\ req[r].pc = "uid.verify"
    /\ LET row == uids[req[r].link] IN
         IF row # None /\ row.type = TypeOf(r)
         THEN req' = [req EXCEPT ![r].pc = "user.find", ![r].user = row.user]
         ELSE End(r, "VERIFICATION_UID_NOT_FOUND")
    /\ UNCHANGED <<account, password, verified, uids, mailed>>

\* updatePassword and updateUser look for the user, then write.
UserFind(r) ==
    /\ req[r].pc = "user.find"
    /\ IF account[req[r].user] = "open" THEN Goto(r, "user.write")
                                        ELSE End(r, "USER_NOT_FOUND")
    /\ UNCHANGED <<account, password, verified, uids, mailed>>

\* Mutant: the link is not cleared after its use.
UserWriteKeepsLink(r) ==
    /\ req[r].pc = "user.write"
    /\ Goto(r, "answer")
    /\ password' = [password EXCEPT ![req[r].user] = r]
    /\ UNCHANGED <<account, verified, uids, mailed>>

UserWrite(r) ==
    /\ req[r].pc = "user.write"
    /\ IF account[req[r].user] # "open"
       THEN End(r, "NOT_FOUND") /\ UNCHANGED <<password, verified>>
       ELSE /\ Goto(r, "clear.find")
            /\ \/ /\ req[r].op = "reset"
                  /\ password' = [password EXCEPT ![req[r].user] = r]
                  /\ UNCHANGED verified
               \/ /\ req[r].op = "verifyEmail"
                  /\ verified' = verified \cup {req[r].user}
                  /\ UNCHANGED password
    /\ UNCHANGED <<account, uids, mailed>>

-----------------------------------------------------------------------------
Answer(r) == /\ req[r].pc = "answer"
             /\ End(r, "OK")
             /\ UNCHANGED <<account, password, verified, uids, mailed>>

\* Any other database call throws, the process stops, or the answer is lost.
Fail(r) == /\ InFlight(r)
           /\ End(r, "FAILED")
           /\ UNCHANGED <<account, password, verified, uids, mailed>>

\* A user row is deleted from outside the program, with its rows (Cascade).
RemoveUser(u) ==
    /\ u \in Removable
    /\ account[u] = "open"
    /\ \A q \in Request : req[q].pc \in {"register.find", "register.create"}
                            => req[q].user # u
    /\ account' = [account EXCEPT ![u] = "removed"]
    /\ uids' = [s \in Request |-> IF uids[s] # None /\ uids[s].user = u
                                  THEN None ELSE uids[s]]
    /\ UNCHANGED <<password, verified, mailed, req>>

AtRest == (\A r \in Request : ~InFlight(r)) /\ UNCHANGED vars

-----------------------------------------------------------------------------
Init == /\ account \in [User -> {"free", "open"}]
        /\ password = [u \in User |-> None]
        /\ verified = {}
        /\ uids = [s \in Request |-> None]
        /\ mailed = {}
        /\ req = [r \in Request |-> Idle]

Start(r) == \/ Register(r) \/ Forgot(r) \/ Resend(r)
            \/ ResetPassword(r) \/ VerifyEmail(r)

Step(r) == \/ RegisterFind(r) \/ RegisterCreate(r) \/ IssueFind(r)
           \/ ClearFind(r) \/ ClearDelete(r) \/ ClearFails(r)
           \/ UidCreate(r) \/ Mail(r) \/ UidCreateFails(r)
           \/ VerifyUID(r) \/ UserFind(r) \/ UserWrite(r)
           \/ Answer(r) \/ Fail(r)

Next == \/ \E r \in Request : Start(r) \/ Step(r)
        \/ \E u \in User : RemoveUser(u)
        \/ AtRest

Spec == Init /\ [][Next]_vars

-----------------------------------------------------------------------------
TypeOK == /\ account \in [User -> {"free", "open", "removed"}]
          /\ password \in [User -> Request \cup {None}]
          /\ verified \subseteq User
          /\ uids \in [Request -> Row \cup {None}]
          /\ mailed \subseteq Request
          /\ req \in [Request -> RequestState]

\* Request r presents a link that was mailed to the address u for r's purpose.
Proves(r, u) == LET t == req[r].link IN
                  /\ t \in mailed
                  /\ req[t].op \in Issuing
                  /\ req[t].user = u
                  /\ TypeOf(t) = TypeOf(r)

(***************************************************************************)
(* A password changes, and an address counts as verified, only by a link   *)
(* that was mailed to that very address for that very purpose, whatever    *)
(* other links are in use at the time.                                     *)
(***************************************************************************)
ProvenByMail ==
    /\ \A u \in User, r \in Request :
         password[u] = r => req[r].op = "reset" /\ Proves(r, u)
    /\ \A u \in verified :
         \E r \in Request : req[r].op = "verifyEmail" /\ Proves(r, u)

\* Of the registrations that race for an address, one gets the account.
OneAccountPerAddress ==
    \A r1, r2 \in Request :
      ( /\ req[r1].op = "register" /\ req[r1].code = "OK"
        /\ req[r2].op = "register" /\ req[r2].code = "OK"
        /\ req[r1].user = req[r2].user ) => r1 = r2

\* A request that was answered, or is about to be, without having mailed a
\* link; a registration that was turned away never set out to.
BrokeOff(r) == /\ req[r].pc \in {"answer", "done"}
               /\ r \notin mailed
               /\ req[r].code \notin {"USER_ALREADY_REGISTERED", "CONFLICT"}

\* All that was sent for u and this purpose is requests that mail a link, and
\* none broke off.
OnlyIssues(u, type) ==
    \A r \in Request : (req[r].user = u /\ TypeOf(r) = type) =>
                         req[r].op \in Issuing /\ ~BrokeOff(r)

\* u has a link that opens, or one is about to be mailed.
HasLink(u, type) ==
    \E r \in Request :
      \/ r \in RowsOf(u, type) /\ (r \in mailed \/ req[r].pc = "mail")
      \/ req[r].pc = "uid.create" /\ req[r].user = u /\ TypeOf(r) = type

(***************************************************************************)
(* Requests that mail new links for the same purpose delete each other's,  *)
(* but never all of them: someone who was mailed a link and has used none  *)
(* has a link that opens, or a request about to mail one, as long as no    *)
(* such request broke off.                                                 *)
(***************************************************************************)
SomeLinkSurvives ==
    \A u \in User, type \in UidType :
      ( /\ account[u] = "open"
        /\ \E t \in mailed : req[t].user = u /\ TypeOf(t) = type
        /\ OnlyIssues(u, type) ) => HasLink(u, type)

(***************************************************************************)
(* A row goes only with its user, or by the clear of a request of the same *)
(* user and purpose: verifying an address costs no password reset.         *)
(***************************************************************************)
ClearedByItsOwn ==
    [][\A s \in Request :
         (uids[s] # None /\ uids'[s] = None) =>
           \/ account'[uids[s].user] = "removed"
           \/ \E r \in Request : /\ req[r].pc = "clear.delete"
                                 /\ req'[r].pc = AfterClear(r)
                                 /\ req[r].user = uids[s].user
                                 /\ TypeOf(r) = uids[s].type]_vars

\* The link r was answered OK for opens nothing more.
LinkDeleted(r) == (req[r].op \in Using /\ req[r].code = "OK")
                    => uids[req[r].link] = None

\* No clear of u's rows for this purpose has thrown.
Clean(u, type) ==
    \A q \in Request : req[q].user = u /\ TypeOf(q) = type => ~req[q].kept

(***************************************************************************)
(* "Verify UID -> Update password (bcrypt hashed) -> Delete                *)
(* VerificationUID record", docs/AUTHENTICATION.md:142: a link that was    *)
(* accepted is gone, as long as no clear of the user's rows for that       *)
(* purpose has thrown (whose result nobody looks at).  It is not so: two   *)
(* requests for a link that overlap leave two rows, and the clear deletes  *)
(* any row of the user and purpose, not the one that was verified.         *)
(***************************************************************************)
UsedLinkDeleted ==
    \A r \in Request : Clean(req[r].user, TypeOf(r)) => LinkDeleted(r)

(***************************************************************************)
(* It is so for a calm user, one request at a time, as long as no clear of *)
(* the user's rows for that purpose has thrown, at the beginning of a      *)
(* request that mails a link or at the end of one that accepts it: there   *)
(* is one row for each purpose, and clear finds the one that was verified. *)
(* A clear that throws leaves the row it was to delete.                    *)
(***************************************************************************)
CalmLinkDeleted ==
    \A r \in Request :
      req[r].user \in Calm /\ Clean(req[r].user, TypeOf(r)) => LinkDeleted(r)

-----------------------------------------------------------------------------
(***************************************************************************)
(* The invariant that induction needs.                                     *)
(***************************************************************************)
\* The label of a request tells its operation.
LocalShape ==
    \A r \in Request :
      /\ req[r].pc = "idle" => req[r] = Idle
      /\ req[r].pc # "idle" => req[r].user \in User /\ req[r].op # "none"
      /\ req[r].pc = "done" <=> req[r].code # "none"
      /\ req[r].pc \in {"register.find", "register.create"}
           => req[r].op = "register"
      /\ req[r].pc = "issue.find" => req[r].op \in {"forgot", "resend"}
      /\ req[r].pc \in {"uid.verify", "user.find", "user.write"}
           => req[r].op \in Using
      /\ req[r].pc \in {"uid.create", "mail"} => req[r].op \in Issuing

\* A row is that of the request that made it; a link that was mailed is over.
RowOrigin ==
    /\ \A s \in Request : uids[s] # None =>
         /\ req[s].op \in Issuing
         /\ uids[s] = [user |-> req[s].user, type |-> TypeOf(s)]
         /\ req[s].pc \in {"mail", "answer", "done"}
    /\ \A t \in mailed : req[t].op \in Issuing /\ req[t].pc \in {"answer", "done"}

\* What a request has found out about its link, and whose row it may delete.
LinkHeld ==
    /\ \A r \in Request :
         req[r].op \in Using =>
           /\ req[r].link \in mailed
           /\ req[r].user = req[req[r].link].user
           /\ (req[r].pc \in {"user.find", "user.write", "clear.find",
                               "clear.delete", "answer"} \/ req[r].code = "OK")
                => TypeOf(req[r].link) = TypeOf(r)
    /\ \A r \in Request :
         req[r].pc = "clear.delete" =>
           /\ req[r].row \in Request
           /\ req[req[r].row].op \in Issuing
           /\ req[req[r].row].user = req[r].user
           /\ TypeOf(req[r].row) = TypeOf(r)

\* A registration that has got past the creation of its account.
Registered(r) == /\ req[r].op = "register"
                 /\ \/ req[r].pc \in {"clear.find", "clear.delete", "uid.create",
                                      "mail", "answer"}
                    \/ req[r].code = "OK"

AccountOrigin ==
    /\ \A r \in Request : Registered(r) => account[req[r].user] # "free"
    /\ \A r \in Request : req[r].pc \in {"register.find", "register.create"}
                            => account[req[r].user] # "removed"
    /\ \A r1, r2 \in Request :
         (Registered(r1) /\ Registered(r2) /\ req[r1].user = req[r2].user)
           => r1 = r2

IInv == TypeOK /\ LocalShape /\ RowOrigin /\ LinkHeld /\ AccountOrigin
        /\ ProvenByMail

-----------------------------------------------------------------------------
(***************************************************************************)
(* What induction needs beside it for SomeLinkSurvives and CalmLinkDeleted.*)
(* AccountHeld: who is past looking for the account has seen one, so that  *)
(* a registration finds no link of the address it opens.  LinkSurvives:    *)
(* SomeLinkSurvives from the moment a link is on its way.  CalmRows: a     *)
(* calm user has one row for each purpose, and clear has found it, unless  *)
(* one has thrown.                                                         *)
(***************************************************************************)
\* t has deleted a link, or found none, and one of its own is on its way.
Started(t) == /\ req[t].op \in Issuing
              /\ req[t].pc \in {"uid.create", "mail"} \/ t \in mailed

AccountHeld ==
    \A t \in Request :
      (\/ req[t].op \in Issuing /\ req[t].pc \in {"clear.find", "clear.delete"}
       \/ Started(t)) => account[req[t].user] # "free"

LinkSurvives ==
    \A u \in User, type \in UidType :
      ( /\ account[u] = "open"
        /\ \E t \in Request : Started(t) /\ req[t].user = u /\ TypeOf(t) = type
        /\ OnlyIssues(u, type) ) => HasLink(u, type)

CalmAlone ==
    \A q, r \in Request :
      (InFlight(q) /\ InFlight(r) /\ req[q].user = req[r].user
         /\ req[r].user \in Calm) => q = r

CalmRows ==
    /\ \A u \in Calm, type \in UidType, s1, s2 \in Request :
         (Clean(u, type) /\ s1 \in RowsOf(u, type) /\ s2 \in RowsOf(u, type))
           => s1 = s2
    /\ \A r, s \in Request :
         ( /\ req[r].user \in Calm /\ Clean(req[r].user, TypeOf(r))
           /\ s \in RowsOf(req[r].user, TypeOf(r)) ) =>
           /\ req[r].pc # "uid.create"
           /\ req[r].pc = "clear.delete" => s = req[r].row
           /\ (req[r].op \in Using /\ (req[r].pc = "answer" \/ req[r].code = "OK"))
                => s # req[r].link

LinkInv == AccountHeld /\ LinkSurvives /\ CalmAlone /\ CalmRows
=============================================================================
