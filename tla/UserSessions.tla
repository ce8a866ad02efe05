---------------------------- MODULE UserSessions ----------------------------
(***************************************************************************)
(* UserSessionService and the three AuthService operations that drive it:  *)
(* signToken (the end of every login, registration and OAuth sign-in),     *)
(* refreshToken and logout.                                                *)
(*                                                                         *)
(* Every HTTP request is a process that runs once.  Its actions are the    *)
(* stretches of code between two awaits on the database, so the requests   *)
(* of one user, on one instance of the server or on several, interleave    *)
(* exactly where the promises of the code let them.  A database call is    *)
(* atomic; nothing in the code spans two of them in a transaction.         *)
(*                                                                         *)
(* A session row is named after the request that created it, and a refresh *)
(* token after the request that signed it.                                 *)
(***************************************************************************)
CONSTANTS
    User,       \* users with a row in the users table
    Request,    \* the requests of the run, each handled once
    Removable,  \* the users somebody may delete from the database
    Calm,       \* the users who wait for each answer before the next request
    None        \* no session, no token, no user

ASSUME RemovableAssumption == Removable \subseteq User
ASSUME CalmAssumption == Calm \subseteq User

VARIABLES
    users,      \* users: the user rows that exist
    sessions,   \* user_sessions: the rows, by the request that created them
    req,        \* the local state of each request
    expired     \* the refresh tokens whose JWT expiry has passed

vars == <<users, sessions, req, expired>>

SessionStatus == {"ACTIVE", "EXPIRED", "LOGGED_OUT"}

\* The row keeps the hash of a refresh token: here, the token hashed.
Row == [user : User, status : SessionStatus, refreshToken : Request]

ASSUME NoneAssumption == None \notin Request \cup User \cup Row

Labels == {"idle", "store.user", "store.find", "store.retire", "store.create",
           "update.user", "update.find", "update.write",
           "expire.user", "expire.find", "expire.write", "answer", "done"}

Codes == {"none", "OK", "USER_NOT_FOUND", "SESSION_EXPIRED", "INVALID_TOKEN",
          "NOT_FOUND", "FAILED_INSERT", "USER_SESSION_NOT_FOUND", "FAILED"}

RequestState == [op : {"none", "login", "refresh", "logout"},
                 pc : Labels,
                 user : User \cup {None},
                 old : Request \cup {None},    \* the token a refresh presents
                 row : Request \cup {None},    \* the session found or created
                 code : Codes]

Idle == [op |-> "none", pc |-> "idle", user |-> None, old |-> None,
         row |-> None, code |-> "none"]

-----------------------------------------------------------------------------
InFlight(r) == req[r].pc \notin {"idle", "done"}

\* A calm user sends a request when the previous one is over.
Admitted(u) == u \in Calm => \A q \in Request : InFlight(q) => req[q].user # u

\* The refresh tokens clients hold: those of the answers that reached them.
Delivered(t) == /\ req[t].op \in {"login", "refresh"}
                /\ req[t].code = "OK"

\* Mutant: the where clause of findFirst has lost its user.
ActiveSessionsOfAnyone(u) ==
    {s \in Request : sessions[s] # None /\ sessions[s].status = "ACTIVE"}

ActiveSessions(u) ==
    {s \in Request : sessions[s] # None /\ sessions[s].user = u
                                         /\ sessions[s].status = "ACTIVE"}

(***************************************************************************)
(* bcrypt reads the first 72 bytes of its input.  A refresh token starts   *)
(* with 36 bytes of JWT header, the same for all, and a dot; the other 35  *)
(* encode {"sub":" and the first 18 characters of the user's id.  What is  *)
(* compared of a token is therefore its subject: neither iat nor exp.      *)
(***************************************************************************)
BcryptInput(t) == req[t].user
Compare(t, hashed) == BcryptInput(t) = BcryptInput(hashed)

Goto(r, label) == req' = [req EXCEPT ![r].pc = label]
GotoWith(r, label, s) == req' = [req EXCEPT ![r].pc = label, ![r].row = s]
End(r, c) == req' = [req EXCEPT ![r].pc = "done", ![r].code = c]

Begin(r, operation, label, u, t) ==
    /\ req[r].pc = "idle"
    /\ Admitted(u)
    /\ req' = [req EXCEPT ![r] = [Idle EXCEPT !.op = operation, !.pc = label,
                                              !.user = u, !.old = t]]
    /\ UNCHANGED <<users, sessions, expired>>

-----------------------------------------------------------------------------
(***************************************************************************)
(* signToken signs both tokens, then storeUserSession runs.                *)
(***************************************************************************)
SignToken(r) == \E u \in users : Begin(r, "login", "store.user", u, None)

StoreFindUser(r) ==
    /\ req[r].pc = "store.user"
    /\ IF req[r].user \in users THEN Goto(r, "store.find")
                                ELSE End(r, "USER_NOT_FOUND")
    /\ UNCHANGED <<users, sessions, expired>>

\* Mutant: the session found is left as it is.
StoreFindActiveKeeps(r) ==
    /\ req[r].pc = "store.find"
    /\ Goto(r, "store.create")
    /\ UNCHANGED <<users, sessions, expired>>

\* findFirst has no order: any ACTIVE session of the user may come back.
StoreFindActive(r) ==
    /\ req[r].pc = "store.find"
    /\ \/ \E s \in ActiveSessions(req[r].user) : GotoWith(r, "store.retire", s)
       \/ /\ ActiveSessions(req[r].user) = {}
          /\ Goto(r, "store.create")
    /\ UNCHANGED <<users, sessions, expired>>

\* An update by id writes whatever the row has become since it was found,
\* and throws P2025 (NOT_FOUND) when the row is gone.
UpdateById(r, label, new) ==
    IF sessions[req[r].row] = None
    THEN End(r, "NOT_FOUND") /\ UNCHANGED sessions
    ELSE Goto(r, label) /\ sessions' = [sessions EXCEPT ![req[r].row] = new]

StoreRetire(r) ==
    /\ req[r].pc = "store.retire"
    /\ UpdateById(r, "store.create",
                  [sessions[req[r].row] EXCEPT !.status = "LOGGED_OUT"])
    /\ UNCHANGED <<users, expired>>

\* Mutant: the row is created without the token.
StoreCreateWithoutToken(r) ==
    /\ req[r].pc = "store.create"
    /\ sessions' = [sessions EXCEPT ![r] = [user |-> req[r].user, status |-> "ACTIVE",
                                            refreshToken |-> None]]
    /\ GotoWith(r, "answer", r)
    /\ UNCHANGED <<users, expired>>

StoreCreate(r) ==
    /\ req[r].pc = "store.create"
    /\ IF req[r].user \in users
       THEN /\ sessions' = [sessions EXCEPT ![r] =
                              [user |-> req[r].user, status |-> "ACTIVE",
                               refreshToken |-> r]]
            /\ GotoWith(r, "answer", r)
       ELSE End(r, "FAILED_INSERT") /\ UNCHANGED sessions
    /\ UNCHANGED <<users, expired>>

-----------------------------------------------------------------------------
(***************************************************************************)
(* refreshToken rejects an expired JWT, signs a new one, and               *)
(* updateUserSession puts its hash into the user's ACTIVE session.  The    *)
(* signature of the presented token is valid: it was delivered.            *)
(***************************************************************************)
RefreshToken(r) ==
    \E t \in Request :
      /\ Delivered(t)
      /\ t \notin expired
      /\ Begin(r, "refresh", "update.user", req[t].user, t)

RefreshTokenExpired(r) ==
    \E t \in expired :
      /\ req[r].pc = "idle"
      /\ Admitted(req[t].user)
      /\ req' = [req EXCEPT ![r] =
                   [Idle EXCEPT !.op = "refresh", !.pc = "done",
                                !.user = req[t].user, !.old = t,
                                !.code = "SESSION_EXPIRED"]]
      /\ UNCHANGED <<users, sessions, expired>>

UpdateFindUser(r) ==
    /\ req[r].pc = "update.user"
    /\ IF req[r].user \in users THEN Goto(r, "update.find")
                                ELSE End(r, "SESSION_EXPIRED")
    /\ UNCHANGED <<users, sessions, expired>>

\* The comparison and the hashing that follow the read touch no shared state.
UpdateFindActive(r) ==
    /\ req[r].pc = "update.find"
    /\ \/ \E s \in ActiveSessions(req[r].user) :
            IF Compare(req[r].old, sessions[s].refreshToken)
            THEN GotoWith(r, "update.write", s)
            ELSE End(r, "INVALID_TOKEN")
       \/ /\ ActiveSessions(req[r].user) = {}
          /\ End(r, "SESSION_EXPIRED")
    /\ UNCHANGED <<users, sessions, expired>>

\* Mutant: the whole row is written back, with the status it was read with.
UpdateWriteWhole(r) ==
    /\ req[r].pc = "update.write"
    /\ UpdateById(r, "answer", [sessions[req[r].row] EXCEPT !.refreshToken = r,
                                                          !.status = "ACTIVE"])
    /\ UNCHANGED <<users, expired>>

\* Mutant: a refresh closes the session of the old token and opens no other.
UpdateWriteCloses(r) ==
    /\ req[r].pc = "update.write"
    /\ UpdateById(r, "answer",
                  [sessions[req[r].row] EXCEPT !.status = "LOGGED_OUT"])
    /\ UNCHANGED <<users, expired>>

\* Only the hash and expiresAt are written: the status is neither looked at
\* again nor restored.
UpdateWrite(r) ==
    /\ req[r].pc = "update.write"
    /\ UpdateById(r, "answer",
                  [sessions[req[r].row] EXCEPT !.refreshToken = r])
    /\ UNCHANGED <<users, expired>>

-----------------------------------------------------------------------------
(***************************************************************************)
(* logout needs an access token: the user was answered one, and the token  *)
(* outlives the session, which requireToken does not look at.              *)
(***************************************************************************)
Logout(r) ==
    \E t \in Request : /\ Delivered(t)
                       /\ Begin(r, "logout", "expire.user", req[t].user, None)

ExpireFindUser(r) ==
    /\ req[r].pc = "expire.user"
    /\ IF req[r].user \in users THEN Goto(r, "expire.find")
                                ELSE End(r, "USER_NOT_FOUND")
    /\ UNCHANGED <<users, sessions, expired>>

\* Mutant: any session of the user is taken, whatever its status.
ExpireFindAny(r) ==
    /\ req[r].pc = "expire.find"
    /\ \E s \in Request : /\ sessions[s] # None
                          /\ sessions[s].user = req[r].user
                          /\ GotoWith(r, "expire.write", s)
    /\ UNCHANGED <<users, sessions, expired>>

ExpireFindActive(r) ==
    /\ req[r].pc = "expire.find"
    /\ \/ \E s \in ActiveSessions(req[r].user) : GotoWith(r, "expire.write", s)
       \/ /\ ActiveSessions(req[r].user) = {}
          /\ End(r, "USER_SESSION_NOT_FOUND")
    /\ UNCHANGED <<users, sessions, expired>>

\* Mutant: logout deletes the row.
ExpireDelete(r) ==
    /\ req[r].pc = "expire.write"
    /\ UpdateById(r, "answer", None)
    /\ UNCHANGED <<users, expired>>

\* logout is the only caller of expireUserSession: EXPIRED is never written.
ExpireWrite(r) ==
    /\ req[r].pc = "expire.write"
    /\ UpdateById(r, "answer",
                  [sessions[req[r].row] EXCEPT !.status = "LOGGED_OUT"])
    /\ UNCHANGED <<users, expired>>

-----------------------------------------------------------------------------
\* The answer reaches the client, with its tokens.
Answer(r) == /\ req[r].pc = "answer"
             /\ End(r, "OK")
             /\ UNCHANGED <<users, sessions, expired>>

\* A database call throws, the process stops or the answer is lost: what was
\* committed stays, what was to come does not happen, no token is delivered.
Fail(r) == /\ InFlight(r)
           /\ End(r, "FAILED")
           /\ UNCHANGED <<users, sessions, expired>>

\* A delivered refresh token reaches its exp.
ExpireToken(t) == /\ Delivered(t)
                  /\ t \notin expired
                  /\ expired' = expired \cup {t}
                  /\ UNCHANGED <<users, sessions, req>>

\* A user row is deleted from outside the program: onDelete Cascade.
RemoveUser(u) ==
    /\ u \in users \cap Removable
    /\ users' = users \ {u}
    /\ sessions' = [s \in Request |->
                      IF sessions[s] # None /\ sessions[s].user = u
                      THEN None ELSE sessions[s]]
    /\ UNCHANGED <<req, expired>>

\* No request is left to run.
AtRest == (\A r \in Request : ~InFlight(r)) /\ UNCHANGED vars

-----------------------------------------------------------------------------
Init == /\ users = User
        /\ sessions = [s \in Request |-> None]
        /\ req = [r \in Request |-> Idle]
        /\ expired = {}

Start(r) == \/ SignToken(r) \/ Logout(r)
            \/ RefreshToken(r) \/ RefreshTokenExpired(r)

Step(r) == \/ StoreFindUser(r) \/ StoreFindActive(r)
           \/ StoreRetire(r) \/ StoreCreate(r)
           \/ UpdateFindUser(r) \/ UpdateFindActive(r) \/ UpdateWrite(r)
           \/ ExpireFindUser(r) \/ ExpireFindActive(r) \/ ExpireWrite(r)
           \/ Answer(r)

Next == \/ \E r \in Request : Start(r) \/ Step(r) \/ Fail(r) \/ ExpireToken(r)
        \/ \E u \in User : RemoveUser(u)
        \/ AtRest

Spec == Init /\ [][Next]_vars

-----------------------------------------------------------------------------
TypeOK == /\ users \subseteq User
          /\ sessions \in [Request -> Row \cup {None}]
          /\ req \in [Request -> RequestState]
          /\ expired \subseteq Request

\* s is a login whose session row was created.
Opened(s) == req[s].row = s

(***************************************************************************)
(* However the requests of different users interleave, a request only ever *)
(* holds a session of its own user, and a session only ever stores a       *)
(* refresh token whose subject is the owner of the session.                *)
(***************************************************************************)
UserIsolation ==
    /\ \A r \in Request :
         LET s == req[r].row IN
           (s # None /\ sessions[s] # None) => sessions[s].user = req[r].user
    /\ \A s \in Request :
         sessions[s] # None =>
           req[sessions[s].refreshToken].user = sessions[s].user

(***************************************************************************)
(* A logout that was carried out stays carried out: no refresh or login    *)
(* that read the session before the logout writes it back to life.         *)
(***************************************************************************)
LogoutSticks ==
    \A r \in Request :
      (req[r].op = "logout" /\ (req[r].pc = "answer" \/ req[r].code = "OK"))
        => \/ sessions[req[r].row] = None
           \/ sessions[req[r].row].status = "LOGGED_OUT"

(***************************************************************************)
(* Logins that race for the same user retire each other's sessions, but    *)
(* never all of them: a user who has a session row, whom no request has    *)
(* logged out and none of whose logins failed before its own row was       *)
(* created, has an ACTIVE one or a login that is about to create it.       *)
(***************************************************************************)
NoLockout ==
    \A u \in User :
      ( /\ \E s \in Request : sessions[s] # None /\ sessions[s].user = u
        /\ \A r \in Request : req[r].user = u =>
             /\ req[r].op # "logout"
             /\ ~(req[r].op = "login" /\ req[r].code = "FAILED" /\ ~Opened(r)) )
      => \/ ActiveSessions(u) # {}
         \/ \E r \in Request : req[r].pc = "store.create" /\ req[r].user = u

\* "Single active session per user", docs/AUTHENTICATION.md:194.
SingleActiveSession ==
    \A u \in User : \A s1, s2 \in ActiveSessions(u) : s1 = s2

(***************************************************************************)
(* That holds of the users who wait for each answer, whatever fails or is  *)
(* lost on the way and whatever the requests of other users do meanwhile.  *)
(***************************************************************************)
CalmSingleSession ==
    \A u \in Calm : \A s1, s2 \in ActiveSessions(u) : s1 = s2

(***************************************************************************)
(* A logout of such a user that finds a session and closes it leaves the   *)
(* user with none: the tokens handed out before it open nothing until the  *)
(* next login.                                                             *)
(***************************************************************************)
CalmLogoutClosesAll ==
    [][\A r \in Request :
         (req[r].user \in Calm /\ req[r].pc = "expire.write" /\ req'[r].pc = "answer")
           => ActiveSessions(req[r].user)' = {}]_vars

\* "Each refresh generates a new token pair and invalidates the old refresh
\* token", docs/AUTHENTICATION.md:115: no token is exchanged twice.
RefreshTokenUsedOnce ==
    \A r1, r2 \in Request :
      ( /\ req[r1].op = "refresh" /\ req[r1].code = "OK"
        /\ req[r2].op = "refresh" /\ req[r2].code = "OK"
        /\ req[r1].old = req[r2].old ) => r1 = r2

(***************************************************************************)
(* The table the requests write to, seen through the refinement mapping,   *)
(* is a SessionLifecycle: a session is opened once, closed at most once    *)
(* and for good, and deleted only with its user.                           *)
(***************************************************************************)
statusBar == [s \in Request |->
                IF sessions[s] # None THEN sessions[s].status
                ELSE IF Opened(s) THEN "deleted" ELSE "unborn"]
ownerBar == [s \in Request |-> IF Opened(s) THEN req[s].user ELSE None]

Lifecycle == INSTANCE SessionLifecycle
               WITH Session <- Request, status <- statusBar, owner <- ownerBar

ImplementsLifecycle == Lifecycle!LifeSpec
-----------------------------------------------------------------------------
(***************************************************************************)
(* The invariant that induction needs.                                     *)
(***************************************************************************)
\* The label of a request tells its operation, and whether it is over.
LocalShape ==
    \A r \in Request :
      /\ req[r].pc = "idle" => req[r] = Idle
      /\ req[r].pc # "idle" => req[r].user \in User
      /\ req[r].pc \in {"store.user", "store.find", "store.retire",
                        "store.create"} => req[r].op = "login"
      /\ req[r].pc \in {"update.user", "update.find", "update.write"}
           => req[r].op = "refresh"
      /\ req[r].pc \in {"expire.user", "expire.find", "expire.write"}
           => req[r].op = "logout"
      /\ req[r].pc = "done" <=> req[r].code # "none"

\* Only tokens that were delivered reach their exp unused.
ExpiredDelivered == \A t \in expired : Delivered(t)

\* A request that has found a session holds one that was opened for its user.
HeldRow ==
    /\ \A r \in Request :
         req[r].row # None => /\ Opened(req[r].row)
                              /\ req[req[r].row].user = req[r].user
    /\ \A r \in Request :
         ( \/ req[r].pc \in {"store.retire", "update.write", "expire.write"}
           \/ req[r].op = "logout" /\ (req[r].pc = "answer" \/ req[r].code = "OK") )
         => req[r].row # None

\* A row was created by a login, for a user who still exists, and stores a
\* token signed for that user.  It has one of the two statuses that are
\* written, and goes only with its user.
RowOrigin ==
    /\ \A s \in Request :
         sessions[s] # None => /\ Opened(s)
                               /\ sessions[s].user = req[s].user
                               /\ sessions[s].user \in users
                               /\ sessions[s].status # "EXPIRED"
    /\ \A s \in Request :
         sessions[s] # None => req[sessions[s].refreshToken].user = sessions[s].user
    /\ \A r \in Request :
         Opened(r) => /\ req[r].op = "login" /\ req[r].pc \in {"answer", "done"}
                      /\ req[r].user \in users => sessions[r] # None

IInv == TypeOK /\ LocalShape /\ ExpiredDelivered /\ HeldRow /\ RowOrigin
        /\ LogoutSticks

\* With one request of a calm user in flight, what a request read of the
\* user's sessions is still so when it writes.
CalmInv ==
    /\ \A q, r \in Request :
         ( InFlight(q) /\ InFlight(r) /\ req[q].user = req[r].user
           /\ req[r].user \in Calm ) => q = r
    /\ \A r \in Request :
         (req[r].pc = "store.create" /\ req[r].user \in Calm)
           => ActiveSessions(req[r].user) = {}
    /\ \A r \in Request :
         (req[r].pc \in {"store.retire", "expire.write"} /\ req[r].user \in Calm)
           => ActiveSessions(req[r].user) \subseteq {req[r].row}
    /\ CalmSingleSession
=============================================================================
