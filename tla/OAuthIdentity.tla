---------------------------- MODULE OAuthIdentity ----------------------------
(***************************************************************************)
(* Which account a sign-in reaches: googleLogin and appleLogin of          *)
(* AuthService, which look an account up by the provider's id, then by its *)
(* address, and link or create it, beside register and the link that       *)
(* confirms an address.                                                    *)
(*                                                                         *)
(* A request is a process and an action is the code between two awaits.    *)
(* A row is named after the request that created it.  A provider gives one *)
(* id to an address and keeps it, so an id is modelled by its address; a   *)
(* token may leave the address out, as Apple's may after the first one.    *)
(* register is that with a password; login, which changes no row, and what *)
(* a session is made of are in UserSessions, and a link in                 *)
(* VerificationUIDs.                                                       *)
(***************************************************************************)
CONSTANTS
    Address,      \* e-mail addresses, each with one id at every provider
    Request,      \* the requests of the run, each handled once
    Calm,         \* the addresses whose requests never overlap
    Removable,    \* the addresses whose row somebody may delete
    None          \* no row, no id, no account

ASSUME OAuthAssumption ==
    /\ Calm \subseteq Address /\ Removable \subseteq Address
    /\ None \notin Address \cup Request

VARIABLES
    rows,         \* users: the rows, by the request that created them
    req           \* the local state of each request

vars == <<rows, req>>

Provider == {"GOOGLE", "APPLE"}

Row == [email : Address, authType : Provider \cup {"USER_PASSWORD"},
        linked : [Provider -> Address \cup {None}],    \* googleId, appleId
        emailVerified : BOOLEAN]

ASSUME NoneAssumption == None \notin Row

Operations == {"none", "social", "register", "confirm"}

Labels == {"idle", "token", "findById", "findByEmail", "update", "create",
           "register.find", "confirm.find", "confirm.write", "session", "done"}

Codes == {"none", "OK", "INVALID_TOKEN", "INVALID_INPUT", "CONFLICT", "NOT_FOUND",
          "USER_NOT_FOUND", "USER_ALREADY_REGISTERED", "FAILED"}

RequestState == [op : Operations, pc : Labels,
                 address : Address \cup {None},  \* whose request it is
                 provider : Provider \cup {None},
                 named : BOOLEAN,                \* the token names the address,
                 vouched : BOOLEAN,              \* and the provider has verified it
                 account : Request \cup {None},  \* the row it has come to
                 verified : BOOLEAN,             \* emailVerified as it was read
                 blind : BOOLEAN,                \* register missed the row that is there
                 knew : SUBSET Request,          \* what this id was answered before
                 code : Codes]

Record(op, pc, a, p, named, vouched, account, verified, blind, knew, code) ==
    [op |-> op, pc |-> pc, address |-> a, provider |-> p, named |-> named,
     vouched |-> vouched, account |-> account, verified |-> verified,
     blind |-> blind, knew |-> knew, code |-> code]

Fresh(op, pc, a, account) ==
    Record(op, pc, a, None, FALSE, FALSE, account, FALSE, FALSE, {}, "none")

Idle == Fresh("none", "idle", None, None)

-----------------------------------------------------------------------------
InFlight(r) == req[r].pc \notin {"idle", "done"}

Admitted(a) == a \in Calm => \A q \in Request : InFlight(q) => req[q].address # a

Begin(r, s) == /\ req[r].pc = "idle" /\ Admitted(s.address)
               /\ req' = [req EXCEPT ![r] = s]
               /\ UNCHANGED rows

Moved(s, label) ==
    Record(s.op, label, s.address, s.provider, s.named, s.vouched, s.account,
           s.verified, s.blind, s.knew, s.code)

\* A registration goes on to the creation, its look-up of the row having thrown.
Unread(s) ==
    Record(s.op, "create", s.address, s.provider, s.named, s.vouched, s.account,
           s.verified, TRUE, s.knew, s.code)

\* The row x is found for the address, and whether that is verified.
Reached(s, label, x, verified) ==
    Record(s.op, label, s.address, s.provider, FALSE, s.vouched, x, verified,
           s.blind, s.knew, s.code)

\* The row x is the account.
Signed(s, x) ==
    Record(s.op, "session", s.address, s.provider, FALSE, FALSE, x, FALSE,
           FALSE, s.knew, s.code)

Verified(s, named, vouched) ==
    Record(s.op, "findById", s.address, s.provider, named, vouched, s.account,
           s.verified, s.blind, s.knew, s.code)

\* What is asked about a request that is over: which id has reached which
\* account, or has not, and whose address was taken, seen or not.
Ended(s, c) ==
    CASE s.op = "social" /\ c = "OK" ->
           Record("social", "done", s.address, s.provider, FALSE, FALSE, s.account,
                  FALSE, FALSE, s.knew, c)
      [] s.op = "social" /\ c \in {"INVALID_INPUT", "CONFLICT"} ->
           Record("social", "done", s.address, s.provider, FALSE, FALSE, None,
                  FALSE, FALSE, s.knew, c)
      [] s.op # "social" /\ c = "CONFLICT" ->
           Record("none", "done", s.address, None, FALSE, FALSE, None, FALSE, s.blind,
                  {}, c)
      [] OTHER -> Fresh("none", "done", None, None)

Goto(r, label) == req' = [req EXCEPT ![r] = Moved(req[r], label)]
Reach(r, label, x, verified) ==
    req' = [req EXCEPT ![r] = Reached(req[r], label, x, verified)]
Sign(r, x) == req' = [req EXCEPT ![r] = Signed(req[r], x)]
End(r, c) == req' = [req EXCEPT ![r] = Ended(req[r], c)]

Rows == {x \in Request : rows[x] # None}
Linked(p, a) == {x \in Rows : rows[x].linked[p] = a}
Mailed(a) == {x \in Rows : rows[x].email = a}

\* The accounts that sign-ins with this id have been answered with.
Answered(p, a) ==
    {x \in Request : \E q \in Request :
       /\ req[q].op = "social" /\ req[q].pc = "done" /\ req[q].code = "OK"
       /\ req[q].provider = p /\ req[q].address = a /\ req[q].account = x}

-----------------------------------------------------------------------------
(***************************************************************************)
(* googleLogin and appleLogin.                                             *)
(***************************************************************************)
SignIn(r) ==
    \E a \in Address, p \in Provider :
      Begin(r, Record("social", "token", a, p, FALSE, FALSE, None, FALSE, FALSE,
                      Answered(p, a), "none"))

\* verifyIdToken: what the token says of the address, or null for a token that
\* cannot be verified, and whenever something throws.
VerifyIdToken(r) ==
    /\ req[r].pc = "token"
    /\ \/ \E named, vouched \in BOOLEAN :
            req' = [req EXCEPT ![r] = Verified(req[r], named, named /\ vouched)]
       \/ End(r, "INVALID_TOKEN")
    /\ UNCHANGED rows

FindById(r) ==
    LET found == Linked(req[r].provider, req[r].address) IN
    /\ req[r].pc = "findById"
    /\ \/ \E x \in found : Sign(r, x)
       \/ found = {} /\ req[r].named /\ Goto(r, "findByEmail")
       \/ found = {} /\ ~req[r].named /\ End(r, "INVALID_INPUT")
    /\ UNCHANGED rows

\* Mutant: the address is looked up among the accounts of the provider.
MailedOfProvider(a, p) == {x \in Mailed(a) : rows[x].authType = p}

LookUp(a, p) == Mailed(a)

FindByEmail(r) ==
    LET found == LookUp(req[r].address, req[r].provider) IN
    /\ req[r].pc = "findByEmail"
    /\ \/ \E x \in found : Reach(r, "update", x, rows[x].emailVerified)
       \/ found = {} /\ Goto(r, "create")
    /\ UNCHANGED rows

\* Mutant: what the provider says of the address replaces what was known.
TokenDecides(vouched, verified) == vouched

EmailVerified(vouched, verified) == vouched \/ verified

\* Mutant: one column for the id, whoever provides it.
LinkOnly(row, p, a, verified) ==
    [email |-> row.email, authType |-> p,
     linked |-> [q \in Provider |-> IF q = p THEN a ELSE None],
     emailVerified |-> verified]

\* The row with the id of the provider, which from now on is its authType.
Link(row, p, a, verified) ==
    [email |-> row.email, authType |-> p,
     linked |-> [q \in Provider |-> IF q = p THEN a ELSE row.linked[q]],
     emailVerified |-> verified]

\* P2025 when the row is gone, P2002 when another has the id.
Update(r) ==
    LET s == req[r]
        x == s.account
    IN /\ s.pc = "update"
       /\ \/ rows[x] = None /\ End(r, "NOT_FOUND") /\ UNCHANGED rows
          \/ /\ rows[x] # None /\ Linked(s.provider, s.address) \ {x} # {}
             /\ End(r, "CONFLICT") /\ UNCHANGED rows
          \/ /\ rows[x] # None /\ Linked(s.provider, s.address) \ {x} = {}
             /\ rows' = [rows EXCEPT ![x] =
                           Link(rows[x], s.provider, s.address,
                                EmailVerified(s.vouched, s.verified))]
             /\ Sign(r, x)

\* Mutant: a token that says nothing of the address leaves the column empty.
RowAsVouched(s) ==
    [email |-> s.address, authType |-> "USER_PASSWORD",
     linked |-> [q \in Provider |-> IF q = s.provider THEN s.address ELSE None],
     emailVerified |-> IF s.vouched THEN TRUE ELSE None]

\* The row a sign-in creates, or a registration.
NewRow(s) ==
    [email |-> s.address,
     authType |-> IF s.op = "social" THEN s.provider ELSE "USER_PASSWORD",
     linked |-> [q \in Provider |-> IF q = s.provider THEN s.address ELSE None],
     emailVerified |-> s.vouched]

\* P2002 when the address or the id has a row by now.
Create(r) ==
    LET s == req[r]
        taken == Mailed(s.address) \cup
                 (IF s.op = "social" THEN Linked(s.provider, s.address) ELSE {})
    IN /\ s.pc = "create"
       /\ \/ taken # {} /\ End(r, "CONFLICT") /\ UNCHANGED rows
          \/ /\ taken = {}
             /\ rows' = [rows EXCEPT ![r] = NewRow(s)]
             /\ Sign(r, r)

\* signToken stores a session for the account, if it is still there; then the
\* controller answers.
SignToken(r) ==
    /\ req[r].pc = "session"
    /\ IF rows[req[r].account] # None THEN End(r, "OK") ELSE End(r, "USER_NOT_FOUND")
    /\ UNCHANGED rows

-----------------------------------------------------------------------------
(***************************************************************************)
(* register and verifyEmail.                                               *)
(***************************************************************************)
Register(r) == \E a \in Address : Begin(r, Fresh("register", "register.find", a, None))

\* register takes the user of getUserByEmail's answer and not its code: a query
\* that throws is to it that there is none, and it goes on to the creation.
FindRegistered(r) ==
    LET found == Mailed(req[r].address) IN
    /\ req[r].pc = "register.find"
    /\ \/ found # {} /\ End(r, "USER_ALREADY_REGISTERED")
       \/ found # {} /\ req' = [req EXCEPT ![r] = Unread(req[r])]
       \/ found = {} /\ Goto(r, "create")
    /\ UNCHANGED rows

Confirm(r) == \E x \in Rows : Begin(r, Fresh("confirm", "confirm.find", rows[x].email, x))

\* updateUser finds the user and then writes by the id.
FindConfirmed(r) ==
    /\ req[r].pc = "confirm.find"
    /\ IF rows[req[r].account] = None THEN End(r, "USER_NOT_FOUND")
       ELSE Goto(r, "confirm.write")
    /\ UNCHANGED rows

WriteConfirmed(r) ==
    LET x == req[r].account IN
    /\ req[r].pc = "confirm.write"
    /\ \/ rows[x] = None /\ End(r, "NOT_FOUND") /\ UNCHANGED rows
       \/ /\ rows[x] # None
          /\ rows' = [rows EXCEPT ![x].emailVerified = TRUE]
          /\ End(r, "OK")

-----------------------------------------------------------------------------
\* The process stops, or a query throws where that ends the request: at every
\* label but register.find, whose throwing query is the second line there.
Fail(r) == InFlight(r) /\ End(r, "FAILED") /\ UNCHANGED rows

\* A user is deleted from outside the program.
RemoveUser(x) == /\ x \in Rows /\ rows[x].email \in Removable
                 /\ rows' = [rows EXCEPT ![x] = None]
                 /\ UNCHANGED req

\* No request is left to run.
AtRest == (\A r \in Request : req[r].pc = "done") /\ UNCHANGED vars

Init == /\ rows = [r \in Request |-> None]
        /\ req = [r \in Request |-> Idle]

Start(r) == SignIn(r) \/ Register(r) \/ Confirm(r)

Step(r) == \/ VerifyIdToken(r) \/ FindById(r) \/ FindByEmail(r) \/ Update(r)
           \/ Create(r) \/ SignToken(r) \/ FindRegistered(r)
           \/ FindConfirmed(r) \/ WriteConfirmed(r)

Next == \/ \E r \in Request : Start(r) \/ Step(r) \/ Fail(r) \/ RemoveUser(r)
        \/ AtRest

Spec == Init /\ [][Next]_vars

-----------------------------------------------------------------------------
TypeOK == /\ rows \in [Request -> Row \cup {None}]
          /\ req \in [Request -> RequestState]

\* A sign-in that is over has come back to what its id was answered before.
Returns(r) ==
    req[r].op = "social" /\ req[r].pc = "done" =>
      \A x \in req[r].knew : rows[x] # None =>
        /\ req[r].code \notin {"INVALID_INPUT", "CONFLICT"}
        /\ req[r].code = "OK" => req[r].account = x

(***************************************************************************)
(* Who has been signed in with an id is recognised by it as long as the    *)
(* account is there, also when the token leaves the address out, whatever  *)
(* sign-ins, registrations and links come in between: the next sign-in     *)
(* reaches the same account, and is never told that something is missing   *)
(* or taken.                                                               *)
(***************************************************************************)
ReturnsToAccount == \A r \in Request : Returns(r)

(***************************************************************************)
(* Who sends one request at a time is never told of a conflict, in         *)
(* whatever order an address is registered and signed in with, but for a   *)
(* registration whose look-up threw: register does not read the code of    *)
(* getUserByEmail, and the unique column answers in its place.             *)
(***************************************************************************)
CalmNeverConflicts ==
    \A r \in Request :
      req[r].code = "CONFLICT" /\ req[r].address \in Calm =>
        req[r].blind /\ req[r].op # "social"

(***************************************************************************)
(* An address that was verified once, by a link or by a provider, stays so *)
(* when a provider that has not verified it signs it in, unless the two    *)
(* overlap: emailVerified is written as it was read.                       *)
(***************************************************************************)
VerifiedStays ==
    [][ \A x \in Request :
          (/\ rows[x] # None /\ rows[x].email \in Calm /\ rows[x].emailVerified
           /\ rows'[x] # None) => rows'[x].emailVerified ]_vars
-----------------------------------------------------------------------------
(***************************************************************************)
(* What induction needs beside them.                                       *)
(***************************************************************************)
\* The labels tell the operation, and what the request has found.
ShapeOf(r) ==
    LET s == req[r] IN
    /\ s.pc \in {"token", "findById", "findByEmail", "update"} =>
         s.op = "social"
    /\ s.pc = "create" => s.op \in {"social", "register"}
    /\ s.pc = "register.find" => s.op = "register"
    /\ s.pc \in {"confirm.find", "confirm.write"} => s.op = "confirm"
    /\ s.op = "social" => s.provider \in Provider /\ s.address \in Address
    /\ s.pc \in {"register.find", "create"} => s.address \in Address
    /\ s.pc \in {"update", "session", "confirm.find", "confirm.write"} =>
         s.account \in Request
    /\ s.pc \in {"idle", "token", "findById", "findByEmail", "register.find", "create"} =>
         s.account = None

\* A row is that of a request that has created it.
Creator(x) == req[x].pc \in {"session", "done"}

Created(r) == /\ rows[r] # None => Creator(r)
              /\ req[r].account # None => Creator(req[r].account)
              /\ \A x \in req[r].knew : Creator(x)

\* The row that is to be linked has the address of the token.
UpdatesOwn(r) ==
    req[r].pc = "update" /\ rows[req[r].account] # None =>
      rows[req[r].account].email = req[r].address

\* A sign-in that has its account has linked it, or found it so.
SignedInLinked(r) ==
    ( /\ req[r].op = "social" /\ req[r].account # None
      /\ req[r].pc = "session" \/ (req[r].pc = "done" /\ req[r].code = "OK")
      /\ rows[req[r].account] # None ) =>
        rows[req[r].account].linked[req[r].provider] = req[r].address

\* What is known of an id is linked to it.
KnewLinked(r) ==
    req[r].op = "social" =>
      \A x \in req[r].knew : rows[x] # None =>
        rows[x].linked[req[r].provider] = req[r].address

\* A sign-in that looked its id up in vain, or came to a row, has missed none.
KnewFollowed(r) ==
    req[r].op = "social" => \A x \in req[r].knew :
      /\ req[r].pc \in {"findByEmail", "update", "create"} => rows[x] = None
      /\ req[r].pc = "session" => rows[x] = None \/ req[r].account = x

Local(r) == /\ ShapeOf(r) /\ Created(r) /\ UpdatesOwn(r) /\ SignedInLinked(r)
            /\ KnewLinked(r) /\ KnewFollowed(r) /\ Returns(r)

\* An id is that of the address of its row, and of one row.
OwnIds ==
    /\ \A x \in Request, p \in Provider : rows[x] # None =>
         rows[x].linked[p] \in {None, rows[x].email}
    /\ \A x, y \in Request, p \in Provider :
         ( /\ rows[x] # None /\ rows[y] # None
           /\ rows[x].linked[p] = rows[y].linked[p] /\ rows[x].linked[p] # None ) => x = y

IInv == TypeOK /\ OwnIds /\ \A r \in Request : Local(r)

\* An address has one row, and a calm one has one request under way.
OneMail ==
    \A x, y \in Request :
      (rows[x] # None /\ rows[y] # None /\ rows[x].email = rows[y].email) => x = y

CalmAlone ==
    \A q, r \in Request :
      ( /\ InFlight(q) /\ InFlight(r)
        /\ req[q].address = req[r].address /\ req[q].address \in Calm ) => q = r

ConfirmsOwn(r) ==
    req[r].pc \in {"confirm.find", "confirm.write"} /\ rows[req[r].account] # None =>
      rows[req[r].account].email = req[r].address

\* What the request of a calm address has read is still so.
CalmLocal(r) ==
    req[r].address \in Calm =>
      /\ req[r].blind => req[r].op # "social"
      /\ req[r].code = "CONFLICT" => req[r].blind /\ req[r].pc = "done"
      /\ req[r].pc = "create" /\ ~req[r].blind =>
           \A x \in Request : rows[x] # None => rows[x].email # req[r].address
      /\ req[r].pc = "update" /\ rows[req[r].account] # None =>
           req[r].verified = rows[req[r].account].emailVerified

CalmInv == OneMail /\ CalmAlone /\ \A r \in Request : CalmLocal(r) /\ ConfirmsOwn(r)
=============================================================================
