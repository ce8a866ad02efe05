----------------------------- MODULE UserCache -----------------------------
(***************************************************************************)
(* The copies of user rows that getUserById keeps: what requireToken, the  *)
(* user routes and the writers of UserService do with them, and the cache  *)
(* service underneath, which has Redis for all instances of the server and *)
(* falls back on the memory of the one instance when a call to it throws.  *)
(*                                                                         *)
(* As in UserSessions, a request is a process and an action is the code    *)
(* between two awaits.  Without REDIS_URL every call takes the branch that *)
(* an instance outside Steady takes when Redis throws.                     *)
(***************************************************************************)
EXTENDS Naturals, FiniteSets

CONSTANTS
    User,       \* users, and the ids that tokens carry
    Request,    \* the requests of the run, each handled once
    Instance,   \* instances of the server
    Steady,     \* instances whose calls to Redis never throw
    Calm,       \* users who send one request at a time, to steady instances,
                \* whose requests are not cut off between a write and its
                \* invalidation, and whose profile only they look up
    Removable,  \* the users somebody may delete from the database
    None        \* no row, no copy, no user, no instance

ASSUME SteadyAssumption == Steady \subseteq Instance
ASSUME CalmAssumption == Calm \subseteq User
ASSUME RemovableAssumption == Removable \subseteq User
ASSUME RequestAssumption == IsFiniteSet(Request)

VARIABLES
    row,        \* users, with their roles
    redis,      \* the copies in Redis, under user:<id>
    memory,     \* the copies in the memoryStore of each instance
    req         \* the local state of each request

vars == <<row, redis, memory, req>>

\* emailVerified stands for all that updateUser and updatePassword write.
UserRow == [id : User, notifications : BOOLEAN, emailVerified : BOOLEAN,
            admin : BOOLEAN]

ASSUME NoneAssumption == None \notin User \cup Instance \cup UserRow

Labels == {"idle", "cache.get", "user.find", "cache.set", "toggle.find",
           "toggle.write", "update.find", "update.write", "cache.del",
           "signIn.find", "signIn.update", "done"}

RequestState == [op : {"none", "profile", "toggle", "support", "verifyEmail",
                       "signIn"},
                 pc : Labels,
                 instance : Instance \cup {None},
                 user : User \cup {None},       \* who sends it
                 subject : User \cup {None},    \* whom it is about
                 authed : BOOLEAN,              \* requireToken has let it pass
                 seen : UserRow \cup {None},    \* the user last loaded
                 code : {"none", "OK", "INVALID_TOKEN", "UNAUTHORIZED",
                         "USER_NOT_FOUND", "NOT_FOUND", "FAILED"}]

Idle == [op |-> "none", pc |-> "idle", instance |-> None, user |-> None,
         subject |-> None, authed |-> FALSE, seen |-> None, code |-> "none"]

-----------------------------------------------------------------------------
InFlight(r) == req[r].pc \notin {"idle", "done"}

Admitted(u, s, i) == /\ u \in Calm => /\ \A q \in Request : InFlight(q) => req[q].user # u
                                      /\ i \in Steady
                     /\ s \in Calm => s = u

Goto(r, label) == req' = [req EXCEPT ![r].pc = label]
GotoWith(r, label, v) == req' = [req EXCEPT ![r].pc = label, ![r].seen = v]

\* The answer has gone out; what it showed is kept in seen.
Done(r, v, c) ==
    req' = [req EXCEPT ![r].pc = "done", ![r].instance = None, ![r].authed = FALSE,
                       ![r].seen = v, ![r].code = c]
End(r, c) == Done(r, None, c)

Begin(r, operation, label, u, s) ==
    /\ req[r].pc = "idle"
    /\ \E i \in Instance :
         /\ Admitted(u, s, i)
         /\ req' = [req EXCEPT ![r] =
                      [op |-> operation, pc |-> label, instance |-> i, user |-> u,
                       subject |-> s, authed |-> FALSE, seen |-> None,
                       code |-> "none"]]
    /\ UNCHANGED <<row, redis, memory>>

-----------------------------------------------------------------------------
(***************************************************************************)
(* GET /user and GET /user/:id, the notifications toggle, a route for      *)
(* admins: each goes through requireToken, with a token that is valid and  *)
(* names a user who once had a row.  A link that verifies an address, and  *)
(* a sign-in with Google or Apple, are sent without a token.               *)
(***************************************************************************)
Profile(r) == \E u, s \in User : Begin(r, "profile", "cache.get", u, s)
Toggle(r) == \E u \in User : Begin(r, "toggle", "cache.get", u, u)
Support(r) == \E u \in User : Begin(r, "support", "cache.get", u, u)
VerifyEmail(r) == \E u \in User : Begin(r, "verifyEmail", "update.find", u, u)
SignIn(r) == \E u \in User : Begin(r, "signIn", "signIn.find", u, u)

\* getUserById asks for the sender first, then for whom the route is about.
Key(r) == IF req[r].authed THEN req[r].subject ELSE req[r].user

\* getUserById has returned v: requireToken lets the request pass to its
\* handler, or the handler answers with v.
Loaded(r, v) ==
    CASE req[r].authed -> Done(r, v, "OK")
      [] ~req[r].authed /\ req[r].op = "support" ->
           End(r, IF v.admin THEN "OK" ELSE "UNAUTHORIZED")
      [] OTHER -> req' = [req EXCEPT ![r].authed = TRUE, ![r].seen = None,
                            ![r].pc = IF req[r].op = "toggle" THEN "toggle.find"
                                                              ELSE "cache.get"]

\* cache.get: of Redis, or of the memory of the instance.
CacheGet(r) ==
    /\ req[r].pc = "cache.get"
    /\ \/ IF redis[Key(r)] # None THEN Loaded(r, redis[Key(r)])
                                  ELSE Goto(r, "user.find")
       \/ /\ req[r].instance \notin Steady
          /\ LET copy == memory[req[r].instance][Key(r)] IN
               IF copy # None THEN Loaded(r, copy) ELSE Goto(r, "user.find")
    /\ UNCHANGED <<row, redis, memory>>

UserFind(r) ==
    /\ req[r].pc = "user.find"
    /\ IF row[Key(r)] # None
       THEN GotoWith(r, "cache.set", row[Key(r)])
       ELSE End(r, IF req[r].authed THEN "USER_NOT_FOUND" ELSE "INVALID_TOKEN")
    /\ UNCHANGED <<row, redis, memory>>

\* Mutant: the result of the service method is cached, not the user in it.
CacheSetResult(r) ==
    /\ req[r].pc = "cache.set"
    /\ redis' = [redis EXCEPT ![Key(r)] = [user |-> req[r].seen, code |-> "OK"]]
    /\ Loaded(r, req[r].seen)
    /\ UNCHANGED <<row, memory>>

\* What is cached is what was read, whatever has been written since.
CacheSet(r) ==
    /\ req[r].pc = "cache.set"
    /\ \/ /\ redis' = [redis EXCEPT ![Key(r)] = req[r].seen]
          /\ UNCHANGED memory
       \/ /\ req[r].instance \notin Steady
          /\ memory' = [memory EXCEPT ![req[r].instance][Key(r)] = req[r].seen]
          /\ UNCHANGED redis
    /\ Loaded(r, req[r].seen)
    /\ UNCHANGED row

-----------------------------------------------------------------------------
(***************************************************************************)
(* The writers: find the row, write it, drop the copies that can be        *)
(* reached.  toggleNotifications writes the negation of what it found.     *)
(***************************************************************************)
Find(r, label, next) ==
    /\ req[r].pc = label
    /\ IF row[req[r].subject] # None
       THEN GotoWith(r, next, row[req[r].subject])
       ELSE End(r, "USER_NOT_FOUND")
    /\ UNCHANGED <<row, redis, memory>>

Write(r, label, new) ==
    /\ req[r].pc = label
    /\ IF row[req[r].subject] # None
       THEN /\ row' = [row EXCEPT ![req[r].subject] = new]
            /\ Goto(r, "cache.del")
       ELSE End(r, "NOT_FOUND") /\ UNCHANGED row
    /\ UNCHANGED <<redis, memory>>

ToggleFind(r) == Find(r, "toggle.find", "toggle.write")

\* Mutant: the setting is written as it was found.
ToggleWriteAsFound(r) ==
    Write(r, "toggle.write", [row[req[r].subject] EXCEPT
                                !.notifications = req[r].seen.notifications])

ToggleWrite(r) ==
    Write(r, "toggle.write", [row[req[r].subject] EXCEPT
                                !.notifications = ~req[r].seen.notifications])

\* Mutant: the copy is brought up to date before the row is.
UpdateFindWritesThrough(r) ==
    /\ req[r].pc = "update.find"
    /\ IF row[req[r].subject] # None
       THEN /\ redis' = [redis EXCEPT ![req[r].subject] =
                           [row[req[r].subject] EXCEPT !.emailVerified = TRUE]]
            /\ GotoWith(r, "update.write", row[req[r].subject])
       ELSE End(r, "USER_NOT_FOUND") /\ UNCHANGED redis
    /\ UNCHANGED <<row, memory>>

UpdateFind(r) == Find(r, "update.find", "update.write")

UpdateWrite(r) ==
    Write(r, "update.write", [row[req[r].subject] EXCEPT !.emailVerified = TRUE])

\* Mutant: only the memory of the instance is cleared.
CacheDelMemory(r) ==
    /\ req[r].pc = "cache.del"
    /\ memory' = [memory EXCEPT ![req[r].instance][req[r].subject] = None]
    /\ End(r, "OK")
    /\ UNCHANGED <<row, redis>>

\* A deletion that Redis does not take is not repeated.
CacheDel(r) ==
    /\ req[r].pc = "cache.del"
    /\ \/ redis' = [redis EXCEPT ![req[r].subject] = None]
       \/ req[r].instance \notin Steady /\ UNCHANGED redis
    /\ memory' = [memory EXCEPT ![req[r].instance][req[r].subject] = None]
    /\ End(r, "OK")
    /\ UNCHANGED row

\* googleLogin and appleLogin look for the identity, which may be known, and
\* then for the address, which gets a new account if it has none.
SignInFind(r) ==
    /\ req[r].pc = "signIn.find"
    /\ \/ /\ row[req[r].subject] # None
          /\ GotoWith(r, "signIn.update", row[req[r].subject])
       \/ End(r, "OK")
    /\ UNCHANGED <<row, redis, memory>>

\* The account is linked: what the provider says of the address counts, or
\* else what the row said when it was read.  No copy is dropped.
SignInUpdate(r) ==
    /\ req[r].pc = "signIn.update"
    /\ IF row[req[r].subject] # None
       THEN /\ \E verified \in BOOLEAN :
                 row' = [row EXCEPT ![req[r].subject].emailVerified =
                           verified \/ req[r].seen.emailVerified]
            /\ End(r, "OK")
       ELSE End(r, "NOT_FOUND") /\ UNCHANGED row
    /\ UNCHANGED <<redis, memory>>

\* A query throws, the process stops, or the answer is lost.
Fail(r) ==
    /\ InFlight(r)
    /\ ~(req[r].user \in Calm /\ req[r].pc = "cache.del")
    /\ End(r, "FAILED")
    /\ UNCHANGED <<row, redis, memory>>

-----------------------------------------------------------------------------
\* createUserRole adds a role and drops no copy; no route calls it.
CreateUserRole(u) ==
    /\ row[u] # None
    /\ ~row[u].admin
    /\ row' = [row EXCEPT ![u].admin = TRUE]
    /\ UNCHANGED <<redis, memory, req>>

\* A user row is deleted from outside the program.
RemoveUser(u) ==
    /\ u \in Removable
    /\ row[u] # None
    /\ row' = [row EXCEPT ![u] = None]
    /\ UNCHANGED <<redis, memory, req>>

\* Mutant: the copies in Redis have no TTL.
ExpireRedisNever(u) == FALSE /\ UNCHANGED vars

\* The TTL of a copy is over: Redis drops it, memory is not read any more.
ExpireRedis(u) ==
    /\ redis[u] # None
    /\ redis' = [redis EXCEPT ![u] = None]
    /\ UNCHANGED <<row, memory, req>>

ExpireMemory(i, u) ==
    /\ memory[i][u] # None
    /\ memory' = [memory EXCEPT ![i][u] = None]
    /\ UNCHANGED <<row, redis, req>>

AtRest == (\A r \in Request : ~InFlight(r)) /\ UNCHANGED vars

-----------------------------------------------------------------------------
Init == /\ row = [u \in User |-> [id |-> u, notifications |-> FALSE,
                                  emailVerified |-> FALSE, admin |-> FALSE]]
        /\ redis = [u \in User |-> None]
        /\ memory = [i \in Instance |-> [u \in User |-> None]]
        /\ req = [r \in Request |-> Idle]

Start(r) == Profile(r) \/ Toggle(r) \/ Support(r) \/ VerifyEmail(r) \/ SignIn(r)

Step(r) == \/ CacheGet(r) \/ UserFind(r) \/ CacheSet(r)
           \/ ToggleFind(r) \/ ToggleWrite(r)
           \/ UpdateFind(r) \/ UpdateWrite(r) \/ CacheDel(r)
           \/ SignInFind(r) \/ SignInUpdate(r)

Next == \/ \E r \in Request : Start(r) \/ Step(r) \/ Fail(r)
        \/ \E u \in User : CreateUserRole(u) \/ RemoveUser(u) \/ ExpireRedis(u)
        \/ \E i \in Instance, u \in User : ExpireMemory(i, u)
        \/ AtRest

Spec == Init /\ [][Next]_vars

\* The promises a request awaits are settled, and time passes.
FairSpec == /\ Spec
            /\ \A r \in Request : WF_vars(Step(r))
            /\ \A u \in User : /\ WF_vars(ExpireRedis(u))
                               /\ \A i \in Instance : WF_vars(ExpireMemory(i, u))

-----------------------------------------------------------------------------
TypeOK == /\ row \in [User -> UserRow \cup {None}]
          /\ redis \in [User -> UserRow \cup {None}]
          /\ memory \in [Instance -> [User -> UserRow \cup {None}]]
          /\ req \in [Request -> RequestState]

\* The copies of u that a request may still be given.
Copies(u) == ({redis[u]} \cup {memory[i][u] : i \in Instance}) \ {None}

\* copy is one of u, and shows no role that the database lacks; nor, if u is
\* calm, a verified address: a sign-in that was overtaken takes one back.
Lags(u, copy) ==
    /\ copy.id = u
    /\ row[u] # None => /\ copy.admin => row[u].admin
                        /\ u \in Calm /\ copy.emailVerified => row[u].emailVerified

(***************************************************************************)
(* However reads, writes, outages of Redis and the deaths of requests      *)
(* interleave, a copy is one of the right user and only ever lags behind   *)
(* the row: a role that a copy shows is one the database has, and so is a  *)
(* verified address, for users who wait for their answers.                 *)
(***************************************************************************)
CopiesLagBehind == \A u \in User : \A copy \in Copies(u) : Lags(u, copy)

\* u has signed in with Google or Apple.
SignedIn(u) == \E r \in Request : req[r].op = "signIn" /\ req[r].user = u
                                  /\ req[r].code = "OK"

\* copy shows what the row of u has, except what a sign-in wrote.
UpToDate(u, copy) ==
    row[u] # None =>
      /\ copy.notifications = row[u].notifications
      /\ \/ copy.emailVerified = row[u].emailVerified
         \/ row[u].emailVerified /\ SignedIn(u)

(***************************************************************************)
(* What a calm user asked for and was told is done is what the next        *)
(* answer shows: the copy is not one from before the change.  Roles, which *)
(* others change, are not part of it, and an address that a sign-in with   *)
(* Google or Apple verified may still be shown as it was.                  *)
(***************************************************************************)
OwnChangesSeen ==
    [][\A r \in Request :
         ( /\ req[r].op = "profile" /\ req[r].user \in Calm
           /\ req[r].subject = req[r].user
           /\ req[r].pc # "done" /\ req'[r].code = "OK" ) =>
         /\ req'[r].seen.id = req[r].user
         /\ UpToDate(req[r].user, req'[r].seen)]_vars

\* The toggles of u that have been written.
Toggled(u) == {r \in Request : /\ req[r].op = "toggle" /\ req[r].user = u
                               /\ req[r].pc = "cache.del" \/ req[r].code = "OK"}

(***************************************************************************)
(* The setting of a calm user is on after an odd number of toggles and off *)
(* after an even one: none counts twice, and none is lost.                 *)
(***************************************************************************)
TogglesCount ==
    \A u \in Calm : row[u] # None =>
      (row[u].notifications <=> \E k \in 0..Cardinality(Request) :
                                  Cardinality(Toggled(u)) = 2 * k + 1)

(***************************************************************************)
(* The tokens of a user who was deleted end up opening nothing: the copies *)
(* of the row run out, and no request that was under way puts one back     *)
(* for good.                                                               *)
(***************************************************************************)
RemovedUserLockedOut ==
    \A u \in User : row[u] = None ~> [](Copies(u) = {})

-----------------------------------------------------------------------------
(***************************************************************************)
(* The inductive invariant.  LocalShape: what the local variables of a     *)
(* request hold where it reads them.  SeenLags: CopiesLagBehind of what is *)
(* about to be cached.  CalmShape: what calm users agreed to.  CalmFresh:  *)
(* their copies are up to date but for the time between a write and its    *)
(* invalidation.                                                           *)
(***************************************************************************)
LocalShape ==
    /\ \A u \in User : row[u] # None => row[u].id = u
    /\ \A r \in Request :
         /\ req[r].pc # "done" => req[r].code = "none"
         /\ InFlight(r) => /\ req[r].instance \in Instance
                           /\ req[r].user \in User /\ req[r].subject \in User
                           /\ req[r].op # "profile" => req[r].subject = req[r].user
         /\ req[r].pc \in {"cache.set", "toggle.write", "update.write", "signIn.update"} =>
              req[r].seen \in UserRow
         /\ req[r].pc \in {"toggle.find", "toggle.write", "update.find",
                           "update.write", "cache.del"} =>
              req[r].op \notin {"profile", "signIn"}
         /\ req[r].pc \in {"signIn.find", "signIn.update"} => req[r].op = "signIn"

SeenLags ==
    \A r \in Request : req[r].pc = "cache.set" => Lags(Key(r), req[r].seen)

CalmShape ==
    \A r \in Request : InFlight(r) =>
      /\ req[r].subject \in Calm => req[r].user = req[r].subject
      /\ req[r].user \in Calm =>
           /\ req[r].instance \in Steady
           /\ \A q \in Request : InFlight(q) /\ req[q].user = req[r].user => q = r

CalmFresh ==
    \A u \in Calm :
      /\ \A i \in Instance : memory[i][u] = None
      /\ \/ redis[u] = None
         \/ UpToDate(u, redis[u])
         \/ \E r \in Request : req[r].pc = "cache.del" /\ req[r].user = u
      /\ \A r \in Request :
           /\ req[r].pc = "cache.set" /\ Key(r) = u => UpToDate(u, req[r].seen)
           /\ req[r].pc = "signIn.update" /\ req[r].user = u /\ row[u] # None =>
                req[r].seen.emailVerified = row[u].emailVerified

IInv == /\ TypeOK /\ LocalShape
        /\ CopiesLagBehind /\ SeenLags
        /\ CalmShape /\ CalmFresh

(***************************************************************************)
(* What induction needs beside it for TogglesCount: a toggle comes to its  *)
(* second half only by its first, and the setting it is about to negate    *)
(* is still the one in the row, since its user has no other in flight.     *)
(***************************************************************************)
ToggleShape ==
    \A r \in Request :
      /\ req[r].pc \in {"toggle.find", "toggle.write"} => req[r].op = "toggle"
      /\ req[r].pc \in {"update.find", "update.write"} => req[r].op = "verifyEmail"
      /\ req[r].op = "toggle" /\ req[r].pc \in {"cache.get", "user.find", "cache.set"}
           => ~req[r].authed

SettingSeen ==
    \A r \in Request : \A u \in Calm :
      req[r].pc = "toggle.write" /\ req[r].user = u /\ row[u] # None =>
        req[r].seen.notifications = row[u].notifications

ToggleInv == ToggleShape /\ SettingSeen /\ TogglesCount
=============================================================================
