-------------------------- MODULE UserCache_proofs --------------------------
(***************************************************************************)
(* What TLAPS proves of UserCache, for any number of users, requests and   *)
(* instances, whichever of them lose Redis.                                *)
(***************************************************************************)
EXTENDS UserCache, TLAPS, FiniteSetTheorems

USE NoneAssumption

\* The steps of Next, in the groups the proofs below go by.
LEMMA StepCases ==
  ASSUME [Next]_vars
  PROVE  \/ \E r \in Request : Start(r) \/ Step(r) \/ Fail(r)
         \/ \E u \in User : CreateUserRole(u) \/ RemoveUser(u)
         \/ \E u \in User : ExpireRedis(u)
         \/ \E i \in Instance, u \in User : ExpireMemory(i, u)
         \/ UNCHANGED vars
  BY DEF Next, AtRest

\* The type of req alone.
LEMMA ReqType == IInv => req \in [Request -> RequestState]
  BY DEF IInv, TypeOK

\* What a request in flight holds.
LEMMA Holds ==
  ASSUME IInv, NEW r \in Request, InFlight(r)
  PROVE  /\ req[r].instance \in Instance /\ req[r].instance # None
         /\ req[r].user \in User /\ req[r].subject \in User
         /\ Key(r) \in User
         /\ req[r].op # "profile" => Key(r) = req[r].user
         /\ req[r].code = "none"
         /\ req[r].op \in {"none", "profile", "toggle", "support", "verifyEmail",
                          "signIn"}
         /\ req[r].authed \in BOOLEAN
  BY ReqType DEF IInv, LocalShape, InFlight, Key, RequestState

\* What a request may be started with, and where it starts.
Operations == {"profile", "toggle", "support", "verifyEmail", "signIn"}

First(o) == CASE o = "verifyEmail" -> "update.find"
              [] o = "signIn" -> "signIn.find"
              [] OTHER -> "cache.get"

-----------------------------------------------------------------------------
\* Of a copy, getUserById's caller keeps nothing but what it answers with.
LEMMA LoadedEffect ==
  ASSUME IInv, NEW r \in Request, InFlight(r), NEW v \in UserRow, Loaded(r, v)
  PROVE  /\ req' \in [Request -> RequestState]
         /\ \A q \in Request \ {r} : req'[q] = req[q]
         /\ req'[r].op = req[r].op
         /\ req'[r].user = req[r].user
         /\ req'[r].subject = req[r].subject
         /\ req'[r].pc \in {"done", "toggle.find", "cache.get"}
         /\ req'[r].pc = "toggle.find" => req[r].op = "toggle"
         /\ req'[r].pc # "done" => /\ req'[r].code = "none"
                                   /\ req'[r].instance = req[r].instance
         /\ req'[r].code = "OK" /\ req[r].op = "profile" =>
              req[r].authed /\ req'[r].seen = v
  <1> USE DEF RequestState, Labels
  <1>1. CASE req[r].authed
    <2>1. Done(r, v, "OK")
      BY <1>1 DEF Loaded
    <2> QED BY <1>1, <2>1, ReqType, Holds DEF Done
  <1>2. CASE ~req[r].authed /\ req[r].op = "support"
    <2>1. PICK c \in {"OK", "UNAUTHORIZED"} : Done(r, None, c)
      BY <1>2 DEF Loaded, End
    <2> QED BY <1>2, <2>1, ReqType, Holds DEF Done
  <1>3. CASE ~req[r].authed /\ req[r].op # "support"
    <2>1. PICK p \in {"toggle.find", "cache.get"} :
            /\ req' = [req EXCEPT ![r].authed = TRUE, ![r].seen = None,
                                  ![r].pc = p]
            /\ p = "toggle.find" => req[r].op = "toggle"
      BY <1>3 DEF Loaded
    <2> DEFINE x == [op |-> req[r].op, pc |-> p, instance |-> req[r].instance,
                     user |-> req[r].user, subject |-> req[r].subject,
                     authed |-> TRUE, seen |-> None, code |-> req[r].code]
    <2>2. req[r] \in RequestState /\ req[r].code = "none"
      BY ReqType, Holds
    <2>3. x \in RequestState
      BY <2>2
    <2>4. req'[r] = x
      BY <2>1, <2>2, ReqType
    <2>5. \A q \in Request \ {r} : req'[q] = req[q]
      BY <2>1, ReqType
    <2>6. req' = [q \in Request |-> req'[q]]
      BY <2>1, ReqType
    <2>7. req' \in [Request -> RequestState]
      <3>1. req'[r] \in RequestState
        BY <2>3, <2>4
      <3>2. \A q \in Request : req'[q] \in RequestState
        BY <3>1, <2>5, ReqType
      <3> HIDE DEF RequestState
      <3> QED BY <2>6, <3>2
    <2> QED BY <1>3, <2>1, <2>2, <2>4, <2>5, <2>7
  <1> QED BY <1>1, <1>2, <1>3, Holds

\* A request starts from nothing, and as calm users agreed to.
LEMMA StartEffect ==
  ASSUME IInv, NEW r \in Request, Start(r)
  PROVE  /\ req[r].pc = "idle"
         /\ UNCHANGED <<row, redis, memory>>
         /\ req' \in [Request -> RequestState]
         /\ \A q \in Request \ {r} : req'[q] = req[q]
         /\ req'[r].op \in Operations
         /\ req'[r].pc = First(req'[r].op)
         /\ req'[r].instance \in Instance
         /\ req'[r].user \in User /\ req'[r].subject \in User
         /\ req'[r].op # "profile" => req'[r].subject = req'[r].user
         /\ req'[r].code = "none" /\ ~req'[r].authed
         /\ Admitted(req'[r].user, req'[r].subject, req'[r].instance)
  <1>1. PICK o \in Operations,
             u \in User, s \in User :
          /\ o # "profile" => s = u
          /\ Begin(r, o, First(o), u, s)
    BY DEF Start, Profile, Toggle, Support, VerifyEmail, SignIn, Operations, First
  <1>2. PICK i \in Instance :
          /\ Admitted(u, s, i)
          /\ req' = [req EXCEPT ![r] =
                       [op |-> o, pc |-> First(o),
                        instance |-> i, user |-> u, subject |-> s,
                        authed |-> FALSE, seen |-> None, code |-> "none"]]
    BY <1>1 DEF Begin
  <1> DEFINE x == [op |-> o, pc |-> First(o),
                   instance |-> i, user |-> u, subject |-> s,
                   authed |-> FALSE, seen |-> None, code |-> "none"]
  <1>3. x \in RequestState
    BY DEF RequestState, Labels, Operations, First
  <1>4. /\ req' \in [Request -> RequestState]
        /\ \A q \in Request \ {r} : req'[q] = req[q]
        /\ req'[r] = x
    BY <1>2, <1>3, ReqType
  <1>5. /\ req'[r].user = u /\ req'[r].subject = s /\ req'[r].instance = i
        /\ ~req'[r].authed
    BY <1>4
  <1>6. Admitted(req'[r].user, req'[r].subject, req'[r].instance)
    BY <1>2, <1>5 DEF Admitted
  <1> QED BY <1>1, <1>4, <1>5, <1>6 DEF Begin

\* A step of a request touches no other request, and does not change what the
\* request set out to do, nor for whom.
LEMMA StepEffect ==
  ASSUME IInv, NEW r \in Request, Step(r) \/ Fail(r)
  PROVE  /\ InFlight(r)
         /\ req' \in [Request -> RequestState]
         /\ \A q \in Request \ {r} : req'[q] = req[q]
         /\ req'[r].op = req[r].op
         /\ req'[r].user = req[r].user
         /\ req'[r].subject = req[r].subject
         /\ req'[r].pc # "idle"
         /\ req'[r].pc # "done" => /\ req'[r].code = "none"
                                   /\ req'[r].instance = req[r].instance
  <1> USE DEF Labels
  <1>1. CASE CacheGet(r)
    <2>1. InFlight(r)
      BY <1>1 DEF CacheGet, InFlight
    <2>2. \/ Goto(r, "user.find")
          \/ \E v \in UserRow : Loaded(r, v)
      BY <1>1, <2>1, Holds DEF CacheGet, IInv, TypeOK
    <2>3. CASE Goto(r, "user.find")
      BY <2>1, <2>3, ReqType, Holds DEF Goto, RequestState
    <2> QED BY <2>1, <2>2, <2>3, LoadedEffect
  <1>2. CASE UserFind(r)
    <2>1. InFlight(r)
      BY <1>2 DEF UserFind, InFlight
    <2>2. \/ \E v \in UserRow : GotoWith(r, "cache.set", v)
          \/ \E c \in {"USER_NOT_FOUND", "INVALID_TOKEN"} : End(r, c)
      BY <1>2, <2>1, Holds DEF UserFind, IInv, TypeOK
    <2> QED BY <2>1, <2>2, ReqType, Holds DEF GotoWith, End, Done, RequestState
  <1>3. CASE CacheSet(r)
    <2>1. InFlight(r) /\ req[r].seen \in UserRow /\ Loaded(r, req[r].seen)
      BY <1>3 DEF CacheSet, InFlight, IInv, LocalShape
    <2>2. PICK v \in UserRow : Loaded(r, v)
      BY <2>1
    <2> QED BY <2>1, <2>2, LoadedEffect
  <1>4. CASE ToggleFind(r) \/ UpdateFind(r)
    <2>1. InFlight(r)
      BY <1>4 DEF ToggleFind, UpdateFind, Find, InFlight
    <2>2. \/ \E v \in UserRow, l \in {"toggle.write", "update.write"} :
               GotoWith(r, l, v)
          \/ End(r, "USER_NOT_FOUND")
      BY <1>4, <2>1, Holds DEF ToggleFind, UpdateFind, Find, IInv, TypeOK
    <2> QED BY <2>1, <2>2, ReqType, Holds DEF GotoWith, End, Done, RequestState
  <1>5. CASE ToggleWrite(r) \/ UpdateWrite(r)
    <2>1. InFlight(r)
      BY <1>5 DEF ToggleWrite, UpdateWrite, Write, InFlight
    <2>2. Goto(r, "cache.del") \/ End(r, "NOT_FOUND")
      BY <1>5 DEF ToggleWrite, UpdateWrite, Write
    <2> QED BY <2>1, <2>2, ReqType, Holds DEF Goto, End, Done, RequestState
  <1>6. CASE CacheDel(r) \/ Fail(r)
    <2>1. InFlight(r)
      BY <1>6 DEF CacheDel, Fail, InFlight
    <2>2. \E c \in {"OK", "FAILED"} : End(r, c)
      BY <1>6 DEF CacheDel, Fail
    <2> QED BY <2>1, <2>2, ReqType, Holds DEF End, Done, RequestState
  <1>7. CASE SignInFind(r) \/ SignInUpdate(r)
    <2>1. InFlight(r)
      BY <1>7 DEF SignInFind, SignInUpdate, InFlight
    <2>2. \/ \E v \in UserRow : GotoWith(r, "signIn.update", v)
          \/ \E c \in {"OK", "NOT_FOUND"} : End(r, c)
      BY <1>7, <2>1, Holds DEF SignInFind, SignInUpdate, IInv, TypeOK
    <2> QED BY <2>1, <2>2, ReqType, Holds DEF GotoWith, End, Done, RequestState
  <1> QED BY <1>1, <1>2, <1>3, <1>4, <1>5, <1>6, <1>7 DEF Step

-----------------------------------------------------------------------------
\* A row keeps its id and its role, and if its user is calm its verified
\* address; and it does not return.
LEMMA RowEffect ==
  ASSUME IInv, [Next]_vars
  PROVE  /\ row' \in [User -> UserRow \cup {None}]
         /\ \A u \in User : row'[u] # None =>
              /\ row[u] # None
              /\ row'[u].id = row[u].id
              /\ row[u].admin => row'[u].admin
              /\ u \in Calm /\ row[u].emailVerified => row'[u].emailVerified
  <1> USE DEF UserRow
  <1>t. row \in [User -> UserRow \cup {None}]
    BY DEF IInv, TypeOK
  <1>1. ASSUME NEW r \in Request, ToggleWrite(r)
        PROVE  row' = row \/ \E u \in User : \E b \in BOOLEAN :
                 row[u] # None /\ row' = [row EXCEPT ![u] = [row[u] EXCEPT !.notifications = b]]
    <2>1. InFlight(r) /\ req[r].seen \in UserRow
      BY <1>1 DEF ToggleWrite, Write, InFlight, IInv, LocalShape
    <2> QED BY <1>1, <2>1, Holds DEF ToggleWrite, Write
  <1>2. ASSUME NEW r \in Request, UpdateWrite(r)
        PROVE  row' = row \/ \E u \in User :
                 row[u] # None /\ row' = [row EXCEPT ![u] = [row[u] EXCEPT !.emailVerified = TRUE]]
    <2>1. InFlight(r)
      BY <1>2 DEF UpdateWrite, Write, InFlight
    <2> QED BY <1>2, <2>1, Holds DEF UpdateWrite, Write
  <1>3. ASSUME NEW r \in Request, Start(r) \/ Step(r) \/ Fail(r),
               ~ToggleWrite(r), ~UpdateWrite(r), ~SignInUpdate(r)
        PROVE  row' = row
    BY <1>3, StartEffect DEF Step, CacheGet, UserFind, CacheSet, ToggleFind,
       UpdateFind, Find, CacheDel, SignInFind, Fail
  <1>4. CASE row' = row
    BY <1>4, <1>t
  <1>5. ASSUME NEW u \in User, NEW x \in UserRow, row[u] # None,
               row' = [row EXCEPT ![u] = x], x.id = row[u].id,
               row[u].admin => x.admin,
               u \in Calm /\ row[u].emailVerified => x.emailVerified
        PROVE  /\ row' \in [User -> UserRow \cup {None}]
               /\ \A w \in User : row'[w] # None =>
                    /\ row[w] # None
                    /\ row'[w].id = row[w].id
                    /\ row[w].admin => row'[w].admin
                    /\ w \in Calm /\ row[w].emailVerified => row'[w].emailVerified
    BY <1>5, <1>t
  <1>6. ASSUME NEW u \in User, row[u] # None
        PROVE  /\ \A b \in BOOLEAN : [row[u] EXCEPT !.emailVerified = b] \in UserRow
               /\ [row[u] EXCEPT !.admin = TRUE] \in UserRow
               /\ \A b \in BOOLEAN : [row[u] EXCEPT !.notifications = b] \in UserRow
    BY <1>6, <1>t
  <1>7. CASE \E r \in Request : Start(r) \/ Step(r) \/ Fail(r)
    <2>1. PICK r \in Request : Start(r) \/ Step(r) \/ Fail(r)
      BY <1>7
    <2>2. CASE ToggleWrite(r) /\ row' # row
      <3>1. PICK u \in User, b \in BOOLEAN :
              /\ row[u] # None
              /\ row' = [row EXCEPT ![u] = [row[u] EXCEPT !.notifications = b]]
        BY <2>2, <1>1
      <3> DEFINE x == [row[u] EXCEPT !.notifications = b]
      <3>2. /\ x \in UserRow /\ x.id = row[u].id /\ x.admin = row[u].admin
            /\ x.emailVerified = row[u].emailVerified
        BY <3>1, <1>6, <1>t
      <3>3. row' = [row EXCEPT ![u] = x]
        BY <3>1
      <3> HIDE DEF x
      <3> QED BY <3>1, <3>2, <3>3, <1>5
    <2>3. CASE UpdateWrite(r) /\ row' # row
      <3>1. PICK u \in User :
              /\ row[u] # None
              /\ row' = [row EXCEPT ![u] = [row[u] EXCEPT !.emailVerified = TRUE]]
        BY <2>3, <1>2
      <3> DEFINE x == [row[u] EXCEPT !.emailVerified = TRUE]
      <3>2. /\ x \in UserRow /\ x.id = row[u].id /\ x.admin = row[u].admin
            /\ x.emailVerified
        BY <3>1, <1>6, <1>t
      <3>3. row' = [row EXCEPT ![u] = x]
        BY <3>1
      <3> HIDE DEF x
      <3> QED BY <3>1, <3>2, <3>3, <1>5
    <2>4. CASE SignInUpdate(r) /\ row' # row
      <3>1. InFlight(r) /\ req[r].seen \in UserRow
        BY <2>4 DEF SignInUpdate, InFlight, IInv, LocalShape
      <3>2. PICK u \in User, b \in BOOLEAN :
              /\ u = req[r].subject /\ u = req[r].user /\ row[u] # None
              /\ row' = [row EXCEPT ![u].emailVerified = b]
              /\ req[r].seen.emailVerified => b
        BY <2>4, <3>1, Holds DEF SignInUpdate, IInv, LocalShape
      <3> DEFINE x == [row[u] EXCEPT !.emailVerified = b]
      <3>3. /\ x \in UserRow /\ x.id = row[u].id /\ x.admin = row[u].admin
            /\ x.emailVerified = b
        BY <3>2, <1>6, <1>t
      <3>4. u \in Calm /\ row[u].emailVerified => b
        BY <2>4, <3>2 DEF SignInUpdate, IInv, CalmFresh
      <3>5. row' = [row EXCEPT ![u] = x]
        BY <3>2, <1>t
      <3> HIDE DEF x
      <3> QED BY <3>2, <3>3, <3>4, <3>5, <1>5
    <2> QED BY <2>1, <2>2, <2>3, <2>4, <1>3, <1>4
  <1>8. CASE \E u \in User : CreateUserRole(u)
    <2>1. PICK u \in User : CreateUserRole(u)
      BY <1>8
    <2> DEFINE x == [row[u] EXCEPT !.admin = TRUE]
    <2>2. row[u] # None /\ row' = [row EXCEPT ![u] = x]
      BY <2>1, <1>t DEF CreateUserRole
    <2>3. /\ x \in UserRow /\ x.id = row[u].id /\ x.admin
          /\ x.emailVerified = row[u].emailVerified
      BY <2>2, <1>6, <1>t
    <2> HIDE DEF x
    <2> QED BY <2>2, <2>3, <1>5
  <1>9. CASE \E u \in User : RemoveUser(u)
    BY <1>9, <1>t DEF RemoveUser
  <1>10. CASE \/ \E u \in User : ExpireRedis(u)
              \/ \E i \in Instance, u \in User : ExpireMemory(i, u)
              \/ UNCHANGED vars
    BY <1>10, <1>4 DEF ExpireRedis, ExpireMemory, vars
  <1> QED BY <1>7, <1>8, <1>9, <1>10, StepCases

\* What lags behind a row goes on lagging behind it.
LEMMA StillLags ==
  ASSUME IInv, [Next]_vars, NEW u \in User, NEW copy, Lags(u, copy)
  PROVE  /\ copy.id = u
         /\ row'[u] # None => /\ copy.admin => row'[u].admin
                              /\ u \in Calm /\ copy.emailVerified =>
                                   row'[u].emailVerified
  BY RowEffect DEF Lags

\* A copy was there before, or comes from a request that had read the row.
LEMMA CopyOrigin ==
  ASSUME IInv, [Next]_vars
  PROVE  /\ redis' \in [User -> UserRow \cup {None}]
         /\ memory' \in [Instance -> [User -> UserRow \cup {None}]]
         /\ \A u \in User :
              \/ redis'[u] \in {None, redis[u]}
              \/ \E r \in Request : CacheSet(r) /\ u = Key(r) /\ redis'[u] = req[r].seen
         /\ \A i \in Instance, u \in User :
              \/ memory'[i][u] \in {None, memory[i][u]}
              \/ \E r \in Request : /\ CacheSet(r) /\ u = Key(r)
                                    /\ i = req[r].instance /\ i \notin Steady
                                    /\ memory'[i][u] = req[r].seen
  <1>t. /\ redis \in [User -> UserRow \cup {None}]
        /\ memory \in [Instance -> [User -> UserRow \cup {None}]]
    BY DEF IInv, TypeOK
  <1>2. CASE \E r \in Request : CacheSet(r)
    <2>1. PICK r \in Request : CacheSet(r)
      BY <1>2
    <2>2. InFlight(r) /\ req[r].seen \in UserRow
      BY <2>1 DEF CacheSet, InFlight, IInv, LocalShape
    <2> QED BY <2>1, <2>2, <1>t, Holds, SMTT(30) DEF CacheSet
  <1>3. CASE \E r \in Request : CacheDel(r)
    <2>1. PICK r \in Request : CacheDel(r)
      BY <1>3
    <2>2. InFlight(r)
      BY <2>1 DEF CacheDel, InFlight
    <2> QED BY <2>1, <2>2, <1>t, Holds DEF CacheDel
  <1>4. ASSUME NEW r \in Request, Start(r) \/ Step(r) \/ Fail(r),
               ~CacheSet(r), ~CacheDel(r)
        PROVE  UNCHANGED <<redis, memory>>
    BY <1>4, StartEffect DEF Step, CacheGet, UserFind, ToggleFind, UpdateFind,
       Find, ToggleWrite, UpdateWrite, Write, SignInFind, SignInUpdate, Fail
  <1>5. CASE UNCHANGED <<redis, memory>>
    BY <1>5, <1>t
  <1>6. CASE (\E u \in User : CreateUserRole(u) \/ RemoveUser(u)) \/ UNCHANGED vars
    BY <1>6, <1>5 DEF CreateUserRole, RemoveUser, vars
  <1>7. CASE \E u \in User : ExpireRedis(u)
    BY <1>7, <1>t DEF ExpireRedis
  <1>8. CASE \E i \in Instance, u \in User : ExpireMemory(i, u)
    BY <1>8, <1>t DEF ExpireMemory
  <1> QED BY <1>2, <1>3, <1>4, <1>5, <1>6, <1>7, <1>8, StepCases

\* What a request has loaded it loaded from the row, or still holds.
LEMMA SeenOrigin ==
  ASSUME IInv, [Next]_vars, NEW r \in Request
  PROVE  /\ req'[r].pc = "cache.set" =>
              /\ Key(r)' = Key(r)
              /\ Key(r) \in User
              /\ \/ req[r].pc = "cache.set" /\ req'[r].seen = req[r].seen
                 \/ /\ UNCHANGED <<row, redis, memory>> /\ row[Key(r)] # None
                    /\ req'[r].seen = row[Key(r)]
         /\ req'[r].pc \in {"toggle.write", "update.write", "signIn.update"} =>
              req'[r].seen \in UserRow
         /\ req'[r].pc \in {"toggle.find", "toggle.write", "update.find",
                            "update.write", "cache.del"} =>
              req'[r].op \notin {"profile", "signIn"}
         /\ req'[r].pc \in {"signIn.find", "signIn.update"} => req'[r].op = "signIn"
         /\ req'[r].pc = "signIn.update" =>
              \/ req[r].pc = "signIn.update" /\ req'[r].seen = req[r].seen
              \/ row' = row /\ req'[r].seen = row[req'[r].user]
  <1>1. CASE req'[r] = req[r]
    <2>1. Key(r)' = Key(r)
      BY <1>1 DEF Key
    <2> QED BY <1>1, <2>1, Holds DEF IInv, LocalShape, InFlight
  <1>2. CASE Start(r)
    BY <1>2, StartEffect DEF First, Operations
  <1>3. CASE UserFind(r)
    <2>1. InFlight(r)
      BY <1>3 DEF UserFind, InFlight
    <2>2. CASE row[Key(r)] # None
      <3>1. /\ req'[r].pc = "cache.set" /\ req'[r].seen = row[Key(r)]
            /\ req'[r].user = req[r].user /\ req'[r].subject = req[r].subject
            /\ req'[r].authed = req[r].authed
        BY <1>3, <2>2, ReqType DEF UserFind, GotoWith, RequestState
      <3>2. Key(r)' = Key(r)
        BY <3>1 DEF Key
      <3> QED BY <1>3, <2>1, <2>2, <3>1, <3>2, Holds DEF UserFind
    <2>3. CASE row[Key(r)] = None
      BY <1>3, <2>3, ReqType DEF UserFind, End, Done, RequestState
    <2> QED BY <2>2, <2>3
  <1>4. CASE CacheGet(r) \/ CacheSet(r)
    <2>1. InFlight(r)
      BY <1>4 DEF CacheGet, CacheSet, InFlight
    <2>2. \/ Goto(r, "user.find")
          \/ \E v \in UserRow : Loaded(r, v)
      BY <1>4, <2>1, Holds DEF CacheGet, CacheSet, IInv, TypeOK, LocalShape
    <2>3. CASE Goto(r, "user.find")
      BY <2>3, ReqType DEF Goto, RequestState
    <2> QED BY <2>1, <2>2, <2>3, LoadedEffect
  <1>5. CASE ToggleFind(r) \/ UpdateFind(r)
    <2>1. InFlight(r) /\ req[r].op \notin {"profile", "signIn"}
      BY <1>5 DEF ToggleFind, UpdateFind, Find, InFlight, IInv, LocalShape
    <2>2. \/ \E v \in UserRow, l \in {"toggle.write", "update.write"} :
               GotoWith(r, l, v)
          \/ End(r, "USER_NOT_FOUND")
      BY <1>5, <2>1, Holds DEF ToggleFind, UpdateFind, Find, IInv, TypeOK
    <2> QED BY <2>1, <2>2, ReqType DEF GotoWith, End, Done, RequestState
  <1>6. CASE ToggleWrite(r) \/ UpdateWrite(r)
    <2>1. req[r].op \notin {"profile", "signIn"}
      BY <1>6 DEF ToggleWrite, UpdateWrite, Write, IInv, LocalShape
    <2>2. Goto(r, "cache.del") \/ End(r, "NOT_FOUND")
      BY <1>6 DEF ToggleWrite, UpdateWrite, Write
    <2> QED BY <2>1, <2>2, ReqType DEF Goto, End, Done, RequestState
  <1>7. CASE CacheDel(r) \/ Fail(r)
    <2>1. \E c \in {"OK", "FAILED"} : End(r, c)
      BY <1>7 DEF CacheDel, Fail
    <2> QED BY <2>1, ReqType DEF End, Done, RequestState
  <1>10. CASE SignInFind(r)
    <2>1. /\ InFlight(r) /\ req[r].op = "signIn" /\ req[r].subject \in User
          /\ req[r].subject = req[r].user
      BY <1>10, Holds DEF SignInFind, InFlight, IInv, LocalShape
    <2>2. CASE End(r, "OK")
      BY <2>2, ReqType DEF End, Done, RequestState
    <2>3. CASE /\ row[req[r].subject] # None
               /\ GotoWith(r, "signIn.update", row[req[r].subject])
      <3>1. row[req[r].subject] \in UserRow
        BY <2>1, <2>3 DEF IInv, TypeOK
      <3> QED BY <1>10, <2>1, <2>3, <3>1, ReqType
              DEF SignInFind, GotoWith, RequestState
    <2> QED BY <1>10, <2>2, <2>3 DEF SignInFind
  <1>11. CASE SignInUpdate(r)
    <2>1. \E c \in {"OK", "NOT_FOUND"} : End(r, c)
      BY <1>11 DEF SignInUpdate
    <2> QED BY <2>1, ReqType DEF End, Done, RequestState
  <1>8. CASE \E q \in Request \ {r} : Start(q) \/ Step(q) \/ Fail(q)
    BY <1>8, <1>1, StartEffect, StepEffect
  <1>9. CASE req' = req
    BY <1>9, <1>1
  <1> QED BY <1>2, <1>3, <1>4, <1>5, <1>6, <1>7, <1>8, <1>9,
             <1>10, <1>11, StepCases
          DEF Step, CreateUserRole, RemoveUser, ExpireRedis, ExpireMemory, vars

LEMMA TypeStep == IInv /\ [Next]_vars => TypeOK'
  <1> SUFFICES ASSUME IInv, [Next]_vars PROVE TypeOK'
    OBVIOUS
  <1>1. req' \in [Request -> RequestState]
    BY StepCases, StartEffect, StepEffect, ReqType
       DEF CreateUserRole, RemoveUser, ExpireRedis, ExpireMemory, vars
  <1> QED BY <1>1, RowEffect, CopyOrigin DEF TypeOK

LEMMA LocalStep == IInv /\ [Next]_vars => LocalShape'
  <1> SUFFICES ASSUME IInv, [Next]_vars PROVE LocalShape'
    OBVIOUS
  <1>1. \A u \in User : row'[u] # None => row'[u].id = u
    BY RowEffect DEF IInv, LocalShape
  <1>2. ASSUME NEW r \in Request
        PROVE  /\ req'[r].pc # "done" => req'[r].code = "none"
               /\ InFlight(r)' => /\ req'[r].instance \in Instance
                                  /\ req'[r].user \in User /\ req'[r].subject \in User
                                  /\ req'[r].op # "profile" =>
                                       req'[r].subject = req'[r].user
    <2>1. CASE Start(r)
      BY <2>1, StartEffect DEF InFlight
    <2>2. CASE Step(r) \/ Fail(r)
      BY <2>2, StepEffect DEF InFlight, IInv, LocalShape
    <2>3. CASE req'[r] = req[r]
      BY <2>3 DEF InFlight, IInv, LocalShape
    <2> QED BY <2>1, <2>2, <2>3, StepCases, StartEffect, StepEffect
            DEF CreateUserRole, RemoveUser, ExpireRedis, ExpireMemory, vars
  <1>3. ASSUME NEW r \in Request, req'[r].pc = "cache.set"
        PROVE  req'[r].seen \in UserRow
    BY <1>3, SeenOrigin DEF IInv, LocalShape, TypeOK
  <1> QED BY <1>1, <1>2, <1>3, SeenOrigin DEF LocalShape

-----------------------------------------------------------------------------
LEMMA CopyStep == IInv /\ [Next]_vars => CopiesLagBehind' /\ SeenLags'
  <1> SUFFICES ASSUME IInv, [Next]_vars PROVE CopiesLagBehind' /\ SeenLags'
    OBVIOUS
  <1>1. ASSUME NEW u \in User, NEW copy, Lags(u, copy) PROVE Lags(u, copy)'
    BY <1>1, StillLags DEF Lags
  <1>2. ASSUME NEW r \in Request, CacheSet(r)
        PROVE  Key(r) \in User /\ Lags(Key(r), req[r].seen)
    BY <1>2, Holds DEF CacheSet, InFlight, IInv, SeenLags
  <1>3. ASSUME NEW u \in User, redis'[u] # None PROVE Lags(u, redis[u])'
    <2>1. PICK copy : copy = redis'[u]
      OBVIOUS
    <2>2. Lags(u, copy)
      BY <1>2, <1>3, <2>1, CopyOrigin DEF IInv, CopiesLagBehind, Copies
    <2>3. Lags(u, copy)'
      BY <1>1, <2>2
    <2> QED BY <2>1, <2>3 DEF Lags
  <1>4. ASSUME NEW u \in User, NEW i \in Instance, memory'[i][u] # None
        PROVE  Lags(u, memory[i][u])'
    <2>1. PICK copy : copy = memory'[i][u]
      OBVIOUS
    <2>2. Lags(u, copy)
      BY <1>2, <1>4, <2>1, CopyOrigin DEF IInv, CopiesLagBehind, Copies
    <2>3. Lags(u, copy)'
      BY <1>1, <2>2
    <2> QED BY <2>1, <2>3 DEF Lags
  <1>5. CopiesLagBehind'
    BY <1>3, <1>4 DEF CopiesLagBehind, Copies
  <1>6. ASSUME NEW r \in Request, req'[r].pc = "cache.set"
        PROVE  Lags(Key(r), req[r].seen)'
    <2>1. PICK u \in User : u = Key(r) /\ Key(r)' = u
      BY <1>6, SeenOrigin
    <2>2. PICK copy : copy = req'[r].seen
      OBVIOUS
    <2>3. Lags(u, copy)
      BY <1>6, <2>1, <2>2, SeenOrigin DEF IInv, SeenLags, Lags, LocalShape
    <2>4. Lags(u, copy)'
      BY <1>1, <2>3
    <2> QED BY <2>1, <2>2, <2>4 DEF Lags
  <1> QED BY <1>5, <1>6 DEF SeenLags

-----------------------------------------------------------------------------
LEMMA CalmShapeStep == IInv /\ [Next]_vars => CalmShape'
  <1> SUFFICES ASSUME IInv, [Next]_vars, NEW r \in Request, InFlight(r)'
               PROVE  /\ req'[r].subject \in Calm => req'[r].user = req'[r].subject
                      /\ req'[r].user \in Calm =>
                           /\ req'[r].instance \in Steady
                           /\ \A q \in Request :
                                InFlight(q)' /\ req'[q].user = req'[r].user => q = r
    BY DEF CalmShape
  <1> USE DEF InFlight
  <1>1. ASSUME NEW p \in Request, Start(p)
        PROVE  /\ req'[r].subject \in Calm => req'[r].user = req'[r].subject
               /\ req'[r].user \in Calm =>
                    /\ req'[r].instance \in Steady
                    /\ \A q \in Request :
                         InFlight(q)' /\ req'[q].user = req'[r].user => q = r
    <2>1. /\ \A q \in Request \ {p} : req'[q] = req[q]
          /\ req'[p].user \in Calm =>
               /\ \A q \in Request : InFlight(q) => req[q].user # req'[p].user
               /\ req'[p].instance \in Steady
          /\ req'[p].subject \in Calm => req'[p].subject = req'[p].user
      BY <1>1, StartEffect DEF Admitted
    <2>2. CASE r = p
      BY <2>1, <2>2
    <2>3. CASE r # p
      BY <2>1, <2>3 DEF IInv, CalmShape
    <2> QED BY <2>2, <2>3
  <1>2. ASSUME NEW p \in Request, Step(p) \/ Fail(p)
        PROVE  \A q \in Request : InFlight(q)' =>
                 /\ InFlight(q)
                 /\ req'[q].user = req[q].user
                 /\ req'[q].subject = req[q].subject
                 /\ req'[q].instance = req[q].instance
    BY <1>2, StepEffect
  <1>3. ASSUME \A q \in Request : InFlight(q)' =>
                 /\ InFlight(q)
                 /\ req'[q].user = req[q].user
                 /\ req'[q].subject = req[q].subject
                 /\ req'[q].instance = req[q].instance
        PROVE  /\ req'[r].subject \in Calm => req'[r].user = req'[r].subject
               /\ req'[r].user \in Calm =>
                    /\ req'[r].instance \in Steady
                    /\ \A q \in Request :
                         InFlight(q)' /\ req'[q].user = req'[r].user => q = r
    BY <1>3 DEF IInv, CalmShape
  <1>4. CASE req' = req
    BY <1>3, <1>4
  <1> QED BY <1>1, <1>2, <1>3, <1>4, StepCases
          DEF CreateUserRole, RemoveUser, ExpireRedis, ExpireMemory, vars

\* Only calm users themselves reach for their copies, where Redis is steady.
LEMMA OwnKey ==
  ASSUME IInv, NEW r \in Request, InFlight(r),
         Key(r) \in Calm \/ req[r].subject \in Calm
  PROVE  /\ req[r].user \in Calm
         /\ req[r].user = IF Key(r) \in Calm THEN Key(r) ELSE req[r].subject
         /\ req[r].subject \in Calm => req[r].user = req[r].subject
         /\ req[r].instance \in Steady
         /\ \A q \in Request : InFlight(q) /\ req[q].user = req[r].user => q = r
  BY DEF IInv, CalmShape, Key

\* A request that was answered stays as it is.
LEMMA SignedKept ==
  ASSUME IInv, [Next]_vars, NEW u, SignedIn(u)
  PROVE  SignedIn(u)'
  <1>1. PICK r \in Request : req[r].op = "signIn" /\ req[r].user = u /\ req[r].code = "OK"
    BY DEF SignedIn
  <1>2. req[r].pc = "done"
    BY <1>1 DEF IInv, LocalShape
  <1>3. ~Start(r) /\ ~Step(r) /\ ~Fail(r)
    BY <1>2, StartEffect, StepEffect DEF InFlight
  <1>4. req'[r] = req[r]
    BY <1>3, StepCases, StartEffect, StepEffect
       DEF CreateUserRole, RemoveUser, ExpireRedis, ExpireMemory, vars
  <1> QED BY <1>1, <1>4 DEF SignedIn

\* What a copy of a calm user is compared on changes only as the user asks.
LEMMA Writer ==
  ASSUME IInv, [Next]_vars, NEW u \in Calm, row'[u] # None,
         \/ row'[u].notifications # row[u].notifications
         \/ row'[u].emailVerified # row[u].emailVerified
  PROVE  \E r \in Request :
           /\ InFlight(r) /\ req[r].user = u /\ UNCHANGED <<redis, memory>>
           /\ req'[r].pc \in {"cache.del", "done"} /\ req'[r].user = u
           /\ \/ req'[r].pc = "cache.del" /\ (ToggleWrite(r) \/ UpdateWrite(r))
              \/ /\ req'[r].op = "signIn" /\ req'[r].code = "OK"
                 /\ row'[u].notifications = row[u].notifications
                 /\ row'[u].emailVerified
  <1>t. /\ row \in [User -> UserRow \cup {None}] /\ u \in User
        /\ row[u] # None
        /\ row[u].emailVerified => row'[u].emailVerified
    BY RowEffect, CalmAssumption DEF IInv, TypeOK
  <1>1. row'[u] # row[u] /\ row' # row
    OBVIOUS
  <1>2. ASSUME NEW r \in Request, ToggleWrite(r) \/ UpdateWrite(r)
        PROVE  /\ InFlight(r) /\ req[r].user = u
               /\ req'[r].pc = "cache.del" /\ req'[r].user = u
               /\ UNCHANGED <<redis, memory>>
    <2>1. InFlight(r) /\ req[r].op # "profile" /\ req[r].subject = req[r].user
      BY <1>2 DEF ToggleWrite, UpdateWrite, Write, InFlight, IInv, LocalShape
    <2>2. /\ Goto(r, "cache.del") /\ UNCHANGED <<redis, memory>>
          /\ \E x : row' = [row EXCEPT ![req[r].subject] = x]
      BY <1>1, <1>2 DEF ToggleWrite, UpdateWrite, Write
    <2>3. req[r].subject = u
      BY <1>1, <1>t, <2>1, <2>2, Holds
    <2> QED BY <2>1, <2>2, <2>3, ReqType DEF Goto, RequestState
  <1>3. ASSUME NEW r \in Request, SignInUpdate(r)
        PROVE  /\ InFlight(r) /\ req[r].user = u
               /\ req'[r].pc = "done" /\ req'[r].user = u
               /\ req'[r].op = "signIn" /\ req'[r].code = "OK"
               /\ row'[u].notifications = row[u].notifications
               /\ row'[u].emailVerified
               /\ UNCHANGED <<redis, memory>>
    <2>1. /\ InFlight(r) /\ req[r].op = "signIn" /\ req[r].subject = req[r].user
          /\ req[r].subject \in User /\ req[r].seen \in UserRow
      BY <1>3, Holds DEF SignInUpdate, InFlight, IInv, LocalShape
    <2>2. /\ End(r, "OK") /\ UNCHANGED <<redis, memory>>
          /\ \E b \in BOOLEAN : row' = [row EXCEPT ![req[r].subject].emailVerified = b]
      BY <1>1, <1>3, <2>1 DEF SignInUpdate, UserRow
    <2>3. PICK b \in BOOLEAN : row' = [row EXCEPT ![req[r].subject].emailVerified = b]
      BY <2>2
    <2>4. req[r].subject = u
      BY <1>1, <1>t, <2>1, <2>3
    <2>5. row'[u].notifications = row[u].notifications /\ row'[u].emailVerified = b
      BY <1>t, <2>3, <2>4 DEF UserRow
    <2>6. row'[u].emailVerified
      BY <1>t, <2>5 DEF UserRow
    <2> QED BY <2>1, <2>2, <2>4, <2>5, <2>6, ReqType DEF End, Done, RequestState
  <1>5. ASSUME NEW r \in Request, Start(r) \/ Step(r) \/ Fail(r),
               ~ToggleWrite(r), ~UpdateWrite(r), ~SignInUpdate(r)
        PROVE  row' = row
    BY <1>5, StartEffect DEF Step, CacheGet, UserFind, CacheSet, ToggleFind,
       UpdateFind, Find, CacheDel, SignInFind, Fail
  <1>6. ASSUME NEW w \in User, CreateUserRole(w) PROVE FALSE
    <2>1. row[w] # None /\ row' = [row EXCEPT ![w] = [row[w] EXCEPT !.admin = TRUE]]
      BY <1>6, <1>t DEF CreateUserRole
    <2>2. /\ row'[u].notifications = row[u].notifications
          /\ row'[u].emailVerified = row[u].emailVerified
      BY <1>t, <2>1 DEF UserRow
    <2> QED BY <2>2
  <1>7. ASSUME NEW w \in User, RemoveUser(w) PROVE FALSE
    BY <1>1, <1>7, <1>t DEF RemoveUser
  <1> QED BY <1>1, <1>2, <1>3, <1>5, <1>6, <1>7, StepCases
          DEF ExpireRedis, ExpireMemory, vars

\* A copy that was up to date falls behind only when the copies are about to
\* be dropped.
LEMMA RowChange ==
  ASSUME IInv, [Next]_vars, NEW u \in Calm, NEW copy,
         UpToDate(u, copy), ~UpToDate(u, copy)'
  PROVE  \E r \in Request : /\ InFlight(r) /\ req[r].user = u
                            /\ req'[r].pc = "cache.del" /\ req'[r].user = u
                            /\ UNCHANGED <<redis, memory>>
  <1>1. /\ row[u] # None /\ row'[u] # None
        /\ row[u].emailVerified => row'[u].emailVerified
    BY RowEffect, CalmAssumption DEF UpToDate
  <1>2. CASE /\ row'[u].notifications = row[u].notifications
             /\ row'[u].emailVerified = row[u].emailVerified
    BY <1>1, <1>2, SignedKept DEF UpToDate
  <1>3. CASE \/ row'[u].notifications # row[u].notifications
             \/ row'[u].emailVerified # row[u].emailVerified
    <2>1. PICK r \in Request :
            /\ InFlight(r) /\ req[r].user = u /\ UNCHANGED <<redis, memory>>
            /\ req'[r].pc \in {"cache.del", "done"} /\ req'[r].user = u
            /\ \/ req'[r].pc = "cache.del"
               \/ /\ req'[r].op = "signIn" /\ req'[r].code = "OK"
                  /\ row'[u].notifications = row[u].notifications
                  /\ row'[u].emailVerified
      BY <1>1, <1>3, Writer
    <2>2. CASE req'[r].op = "signIn" /\ req'[r].code = "OK" /\ row'[u].emailVerified
               /\ row'[u].notifications = row[u].notifications
      <3>1. SignedIn(u)'
        BY <2>1, <2>2 DEF SignedIn
      <3> QED BY <1>1, <2>2, <3>1 DEF UpToDate
    <2> QED BY <2>1, <2>2
  <1> QED BY <1>2, <1>3

LEMMA CalmFreshStep == IInv /\ [Next]_vars => CalmFresh'
  <1> SUFFICES ASSUME IInv, [Next]_vars, NEW u \in Calm
               PROVE  /\ \A i \in Instance : memory'[i][u] = None
                      /\ \/ redis'[u] = None
                         \/ UpToDate(u, redis[u])'
                         \/ \E r \in Request : req'[r].pc = "cache.del" /\ req'[r].user = u
                      /\ \A r \in Request :
                           /\ req'[r].pc = "cache.set" /\ Key(r)' = u =>
                                UpToDate(u, req[r].seen)'
                           /\ /\ req'[r].pc = "signIn.update" /\ req'[r].user = u
                              /\ row'[u] # None
                              => req'[r].seen.emailVerified = row'[u].emailVerified
    BY DEF CalmFresh
  <1>u. u \in User
    BY CalmAssumption
  <1>1. ASSUME NEW i \in Instance PROVE memory'[i][u] = None
    <2>1. ASSUME NEW r \in Request, CacheSet(r), u = Key(r) PROVE req[r].instance \in Steady
      BY <2>1, OwnKey DEF CacheSet, InFlight
    <2> QED BY <1>u, <2>1, CopyOrigin DEF IInv, CalmFresh
  <1>2. ASSUME redis'[u] # None, ~UpToDate(u, redis[u])'
        PROVE  \E r \in Request : req'[r].pc = "cache.del" /\ req'[r].user = u
    <2>1. PICK copy : copy = redis'[u]
      OBVIOUS
    <2>2. ~UpToDate(u, copy)'
      BY <1>2, <2>1 DEF UpToDate
    <2>3. CASE UpToDate(u, copy)
      BY <2>2, <2>3, RowChange
    <2>4. CASE ~UpToDate(u, copy)
      <3>1. redis[u] = copy
        <4>1. ASSUME NEW r \in Request, CacheSet(r), u = Key(r), copy = req[r].seen
              PROVE  FALSE
          BY <2>4, <4>1 DEF CacheSet, IInv, CalmFresh, UpToDate
        <4>2. redis'[u] \in {None, redis[u]}
          BY <1>u, <2>1, <4>1, CopyOrigin
        <4> QED BY <1>2, <2>1, <4>2
      <3>2. PICK r \in Request : req[r].pc = "cache.del" /\ req[r].user = u
        BY <1>2, <2>1, <2>4, <3>1 DEF IInv, CalmFresh, UpToDate
      <3>3. /\ InFlight(r) /\ req[r].op # "profile" /\ req[r].subject = u
            /\ req[r].instance \in Steady
        BY <3>2 DEF InFlight, IInv, LocalShape, CalmShape
      <3>4. ~CacheDel(r)
        BY <1>2, <1>u, <3>3 DEF CacheDel, IInv, TypeOK
      <3>5. ~Start(r) /\ ~Step(r) /\ ~Fail(r)
        BY <3>2, <3>4, StartEffect DEF Step, Fail, CacheGet, UserFind, CacheSet,
           ToggleFind, UpdateFind, Find, ToggleWrite, UpdateWrite, Write,
           SignInFind, SignInUpdate
      <3>6. req'[r] = req[r]
        BY <3>5, StepCases, StartEffect, StepEffect
           DEF CreateUserRole, RemoveUser, ExpireRedis, ExpireMemory, vars
      <3> QED BY <3>2, <3>6
    <2> QED BY <2>3, <2>4
  <1>3. ASSUME NEW r \in Request, req'[r].pc = "cache.set", Key(r)' = u,
               ~UpToDate(u, req[r].seen)'
        PROVE  FALSE
    <2>1. PICK copy : copy = req'[r].seen
      OBVIOUS
    <2>2. Key(r) = u /\ ~UpToDate(u, copy)'
      BY <1>3, <2>1, SeenOrigin DEF UpToDate
    <2>3. CASE req[r].pc = "cache.set" /\ req[r].seen = copy
      <3>1. UpToDate(u, copy)
        BY <2>2, <2>3 DEF IInv, CalmFresh
      <3>2. PICK w \in Request : /\ InFlight(w) /\ req[w].user = u
                                 /\ req'[w].pc = "cache.del"
        BY <2>2, <3>1, RowChange
      <3>3. InFlight(r)
        BY <2>3 DEF InFlight
      <3>4. w = r
        BY <2>2, <3>2, <3>3, OwnKey
      <3> QED BY <1>3, <3>2, <3>4
    <2>4. CASE row' = row /\ copy = row[u]
      BY <2>2, <2>4 DEF UpToDate
    <2> QED BY <1>3, <2>1, <2>2, <2>3, <2>4, SeenOrigin
  <1>4. ASSUME NEW r \in Request, req'[r].pc = "signIn.update", req'[r].user = u,
               row'[u] # None
        PROVE  req'[r].seen.emailVerified = row'[u].emailVerified
    <2>1. CASE row' = row /\ req'[r].seen = row[req'[r].user]
      BY <1>4, <2>1
    <2>2. CASE req[r].pc = "signIn.update" /\ req'[r].seen = req[r].seen
      <3>1. InFlight(r)
        BY <2>2 DEF InFlight
      <3>2. req[r].user = u
        BY <1>4, <3>1, StepCases, StartEffect, StepEffect
           DEF InFlight, CreateUserRole, RemoveUser, ExpireRedis, ExpireMemory, vars
      <3>3. row[u] # None /\ req[r].seen.emailVerified = row[u].emailVerified
        BY <1>4, <1>u, <2>2, <3>2, RowEffect DEF IInv, CalmFresh
      <3>4. row'[u].emailVerified = row[u].emailVerified
        <4>1. SUFFICES ASSUME row'[u].emailVerified # row[u].emailVerified
                       PROVE  FALSE
          OBVIOUS
        <4>2. PICK w \in Request : /\ InFlight(w) /\ req[w].user = u
                                   /\ req'[w].pc \in {"cache.del", "done"}
          BY <1>4, <4>1, Writer
        <4>3. w = r
          BY <3>1, <3>2, <4>2 DEF IInv, CalmShape
        <4> QED BY <1>4, <4>2, <4>3
      <3> QED BY <2>2, <3>3, <3>4
    <2> QED BY <1>4, <2>1, <2>2, SeenOrigin
  <1> QED BY <1>1, <1>2, <1>3, <1>4

-----------------------------------------------------------------------------
LEMMA InitIInv == Init => IInv
  <1> SUFFICES ASSUME Init PROVE IInv
    OBVIOUS
  <1>1. /\ row \in [User -> UserRow \cup {None}]
        /\ \A u \in User : row[u].id = u
        /\ redis \in [User -> UserRow \cup {None}]
        /\ memory \in [Instance -> [User -> UserRow \cup {None}]]
        /\ \A u \in User : redis[u] = None /\ \A i \in Instance : memory[i][u] = None
    BY DEF Init, UserRow
  <1>2. Idle \in RequestState
    BY DEF Idle, RequestState, Labels
  <1>3. /\ req \in [Request -> RequestState]
        /\ \A r \in Request : req[r].pc = "idle" /\ req[r].code = "none"
    BY <1>2 DEF Init, Idle
  <1> QED BY <1>1, <1>3, CalmAssumption
          DEF IInv, TypeOK, LocalShape, CopiesLagBehind, Copies, SeenLags,
              CalmShape, CalmFresh, InFlight

LEMMA IInvStep == IInv /\ [Next]_vars => IInv'
  BY TypeStep, LocalStep, CopyStep, CalmShapeStep, CalmFreshStep DEF IInv

(***************************************************************************)
(* IInv holds in every reachable state.                                    *)
(***************************************************************************)
THEOREM Inductive == Spec => []IInv
  BY InitIInv, IInvStep, PTL DEF Spec

(***************************************************************************)
(* Rows, copies and the locals of requests are what their types say.       *)
(***************************************************************************)
THEOREM TypeCorrect == Spec => []TypeOK
  <1>1. IInv => TypeOK
    BY DEF IInv
  <1> QED BY <1>1, Inductive, PTL

(***************************************************************************)
(* However reads, invalidations and outages of Redis interleave, a copy of *)
(* a user only ever lags behind the row.                                   *)
(***************************************************************************)
THEOREM LagBehind == Spec => []CopiesLagBehind
  <1>1. IInv => CopiesLagBehind
    BY DEF IInv
  <1> QED BY <1>1, Inductive, PTL

-----------------------------------------------------------------------------
(***************************************************************************)
(* ToggleInv, which is inductive in the states of IInv.                    *)
(***************************************************************************)
\* The labels that a step of request r goes between, as far as toggles and the
\* requests that could be taken for one are concerned.
Path(r) ==
  \/ /\ req'[r].code = "none" /\ req'[r].authed = req[r].authed
     /\ \/ req[r].pc = "cache.get" /\ req'[r].pc = "user.find"
        \/ req[r].pc = "user.find" /\ req'[r].pc = "cache.set"
        \/ /\ req[r].pc = "toggle.find" /\ req'[r].pc = "toggle.write"
           /\ req'[r].seen = row[req[r].subject] /\ row' = row
        \/ req[r].pc = "update.find" /\ req'[r].pc = "update.write"
        \/ /\ ToggleWrite(r) /\ req[r].pc = "toggle.write" /\ req'[r].pc = "cache.del"
           /\ row[req[r].subject] # None
           /\ row' = [row EXCEPT ![req[r].subject] =
                        [row[req[r].subject] EXCEPT
                           !.notifications = ~req[r].seen.notifications]]
        \/ req[r].pc = "update.write" /\ req'[r].pc = "cache.del"
        \/ req[r].pc = "signIn.find" /\ req'[r].pc = "signIn.update"
  \/ /\ req[r].pc \in {"cache.get", "cache.set"} /\ ~req[r].authed /\ req'[r].code = "none"
     /\ req'[r].pc = IF req[r].op = "toggle" THEN "toggle.find" ELSE "cache.get"
  \/ /\ req'[r].pc = "done"
     /\ \/ req[r].pc \in {"cache.get", "cache.set"} /\ (req[r].authed \/ req[r].op = "support")
        \/ req[r].pc \in {"signIn.find", "signIn.update"}
        \/ req[r].pc = "cache.del" /\ req'[r].code = "OK"
        \/ req[r].pc # "cache.del" /\ req'[r].code # "OK"

LEMMA StepPath ==
  ASSUME IInv, NEW r \in Request, Step(r)
  PROVE  Path(r)
  <1>0. PICK y \in RequestState : y = req[r]
    BY ReqType
  <1>1. ASSUME NEW l, Goto(r, l)
        PROVE  req'[r].pc = l /\ req'[r].code = req[r].code /\ req'[r].authed = req[r].authed
    BY <1>0, <1>1, ReqType DEF Goto, RequestState
  <1>2. ASSUME NEW l, NEW v, GotoWith(r, l, v)
        PROVE  /\ req'[r].pc = l /\ req'[r].code = req[r].code
               /\ req'[r].authed = req[r].authed /\ req'[r].seen = v
    BY <1>0, <1>2, ReqType DEF GotoWith, RequestState
  <1>3. ASSUME NEW v, NEW c, Done(r, v, c) PROVE req'[r].pc = "done" /\ req'[r].code = c
    BY <1>0, <1>3, ReqType DEF Done, RequestState
  <1>4. req[r].pc # "done" => req[r].code = "none"
    BY DEF IInv, LocalShape
  <1>5. ASSUME NEW v, Loaded(r, v), req[r].pc \in {"cache.get", "cache.set"} PROVE Path(r)
    <2>1. CASE req[r].authed \/ (~req[r].authed /\ req[r].op = "support")
      <3>1. req'[r].pc = "done"
        BY <1>3, <1>5, <2>1 DEF Loaded, End
      <3> QED BY <1>5, <2>1, <3>1 DEF Path
    <2>2. CASE ~req[r].authed /\ req[r].op # "support"
      <3>1. req' = [req EXCEPT ![r].authed = TRUE, ![r].seen = None,
                      ![r].pc = IF req[r].op = "toggle" THEN "toggle.find"
                                                        ELSE "cache.get"]
        BY <1>5, <2>2 DEF Loaded
      <3>2. req'[r].pc = (IF req[r].op = "toggle" THEN "toggle.find" ELSE "cache.get")
            /\ req'[r].code = req[r].code
        BY <1>0, <3>1, ReqType DEF RequestState
      <3> QED BY <1>4, <1>5, <2>2, <3>2 DEF Path
    <2> QED BY <2>1, <2>2
  <1>6. CASE CacheGet(r) \/ CacheSet(r)
    <2>1. CASE \E v : Loaded(r, v)
      BY <1>5, <1>6, <2>1 DEF CacheGet, CacheSet
    <2>2. CASE Goto(r, "user.find") /\ req[r].pc = "cache.get"
      BY <1>1, <1>4, <2>2 DEF Path
    <2> QED BY <1>6, <2>1, <2>2 DEF CacheGet, CacheSet
  <1>7. CASE UserFind(r)
    BY <1>2, <1>3, <1>4, <1>7 DEF UserFind, End, Path
  <1>8. CASE ToggleFind(r) \/ UpdateFind(r)
    BY <1>2, <1>3, <1>4, <1>8 DEF ToggleFind, UpdateFind, Find, End, Path
  <1>9. CASE ToggleWrite(r)
    BY <1>1, <1>3, <1>4, <1>9 DEF ToggleWrite, Write, End, Path
  <1>10. CASE UpdateWrite(r)
    BY <1>1, <1>3, <1>4, <1>10 DEF UpdateWrite, Write, End, Path
  <1>11. CASE CacheDel(r)
    BY <1>3, <1>11 DEF CacheDel, End, Path
  <1>12. CASE SignInFind(r) \/ SignInUpdate(r)
    BY <1>2, <1>3, <1>4, <1>12 DEF SignInFind, SignInUpdate, End, Path
  <1> QED BY <1>6, <1>7, <1>8, <1>9, <1>10, <1>11, <1>12 DEF Step

\* A request is as it was, or begins, or takes a step, or fails.
LEMMA Moves ==
  ASSUME IInv, [Next]_vars, NEW q \in Request
  PROVE  req'[q] = req[q] \/ Start(q) \/ Step(q) \/ Fail(q)
  BY StepCases, StartEffect, StepEffect
     DEF CreateUserRole, RemoveUser, ExpireRedis, ExpireMemory, vars

\* A request that fails is answered with nothing done.
LEMMA FailEffect ==
  ASSUME IInv, NEW q \in Request, Fail(q)
  PROVE  req'[q].pc = "done" /\ req'[q].code = "FAILED"
  BY ReqType DEF Fail, End, Done, RequestState

LEMMA ToggleShapeStep == IInv /\ ToggleInv /\ [Next]_vars => ToggleShape'
  <1> SUFFICES ASSUME IInv, ToggleInv, [Next]_vars, NEW r \in Request
               PROVE  /\ req'[r].pc \in {"toggle.find", "toggle.write"}
                           => req'[r].op = "toggle"
                      /\ req'[r].pc \in {"update.find", "update.write"}
                           => req'[r].op = "verifyEmail"
                      /\ /\ req'[r].op = "toggle"
                         /\ req'[r].pc \in {"cache.get", "user.find", "cache.set"}
                         => ~req'[r].authed
    BY DEF ToggleShape
  <1>0. /\ req[r].pc \in {"toggle.find", "toggle.write"} => req[r].op = "toggle"
        /\ req[r].pc \in {"update.find", "update.write"} => req[r].op = "verifyEmail"
        /\ req[r].op = "toggle" /\ req[r].pc \in {"cache.get", "user.find", "cache.set"}
             => ~req[r].authed
    BY DEF ToggleInv, ToggleShape
  <1>1. CASE req'[r] = req[r]
    BY <1>0, <1>1
  <1>2. CASE Start(r)
    BY <1>2, StartEffect DEF First, Operations
  <1>3. CASE Step(r)
    <2>1. req'[r].op = req[r].op
      BY <1>3, StepEffect
    <2>2. Path(r)
      BY <1>3, StepPath
    <2> QED BY <1>0, <2>1, <2>2 DEF Path
  <1>4. CASE Fail(r)
    BY <1>4, FailEffect
  <1> QED BY <1>1, <1>2, <1>3, <1>4, Moves

\* The one request of a calm user that changes the setting.
LEMMA SettingSeenStep == IInv /\ ToggleInv /\ [Next]_vars => SettingSeen'
  <1> SUFFICES ASSUME IInv, ToggleInv, [Next]_vars, NEW r \in Request, NEW u \in Calm,
                      req'[r].pc = "toggle.write", req'[r].user = u, row'[u] # None
               PROVE  req'[r].seen.notifications = row'[u].notifications
    BY DEF SettingSeen
  <1>u. u \in User /\ row[u] # None
    BY CalmAssumption, RowEffect
  <1>1. CASE req'[r] = req[r]
    <2>1. req[r].seen.notifications = row[u].notifications
      BY <1>1, <1>u DEF ToggleInv, SettingSeen
    <2>2. ASSUME row'[u].notifications # row[u].notifications PROVE FALSE
      <3>1. PICK w \in Request : /\ InFlight(w) /\ req[w].user = u
                                 /\ req'[w].pc \in {"cache.del", "done"}
        BY <2>2, Writer
      <3>2. InFlight(r) /\ req[r].user = u
        BY <1>1 DEF InFlight
      <3>3. w = r
        BY <3>1, <3>2 DEF IInv, CalmShape
      <3> QED BY <3>1, <3>3
    <2> QED BY <1>1, <2>1, <2>2
  <1>2. CASE Start(r)
    BY <1>2, StartEffect DEF First, Operations
  <1>3. CASE Step(r)
    <2>1. /\ req[r].pc = "toggle.find" /\ req'[r].seen = row[req[r].subject] /\ row' = row
      BY <1>3, StepPath DEF Path
    <2>2. InFlight(r) /\ req[r].op # "profile" /\ req[r].user = u
      BY <1>3, <2>1, StepEffect DEF IInv, LocalShape
    <2>3. req[r].subject = u
      BY <2>2 DEF IInv, LocalShape
    <2> QED BY <2>1, <2>3
  <1>4. CASE Fail(r)
    BY <1>4, FailEffect
  <1> QED BY <1>1, <1>2, <1>3, <1>4, Moves

\* A toggle that has been written stays so; another is written by one step.
LEMMA ToggledBy ==
  ASSUME IInv, ToggleInv, [Next]_vars, NEW u \in Calm, NEW q \in Request
  PROVE  /\ q \in Toggled(u) => q \in Toggled(u)'
         /\ (q \in Toggled(u)' /\ q \notin Toggled(u)) =>
              /\ Step(q) /\ ToggleWrite(q) /\ req[q].user = u /\ req[q].subject = u
              /\ row' = [row EXCEPT ![u] = [row[u] EXCEPT !.notifications =
                                              ~req[q].seen.notifications]]
              /\ row[u] # None
         /\ (Step(q) /\ ToggleWrite(q) /\ req[q].user = u /\ row' # row) =>
              q \in Toggled(u)' /\ q \notin Toggled(u)
  <1> DEFINE In == /\ req[q].op = "toggle" /\ req[q].user = u
                   /\ req[q].pc = "cache.del" \/ req[q].code = "OK"
  <1>0. /\ q \in Toggled(u) <=> In
        /\ q \in Toggled(u)' <=> In'
    BY DEF Toggled
  <1>1. CASE req'[q] = req[q]
    <2>1. In <=> In'
      BY <1>1
    <2>2. ~(Step(q) /\ ToggleWrite(q) /\ row' # row)
      BY <1>1, ReqType DEF ToggleWrite, Write, Goto, RequestState
    <2> QED BY <1>0, <2>1, <2>2
  <1>2. CASE Start(q)
    <2>1. ~In /\ ~In' /\ ~Step(q)
      BY <1>2, StartEffect, StepEffect DEF First, Operations, IInv, LocalShape, InFlight
    <2> QED BY <1>0, <2>1
  <1>3. CASE Fail(q)
    <2>1. ~In'
      BY <1>3, FailEffect
    <2>2. ~In
      BY <1>3, StepEffect DEF Fail, InFlight, IInv, LocalShape
    <2>3. ~(Step(q) /\ ToggleWrite(q) /\ row' # row)
      BY <1>3 DEF Fail
    <2> QED BY <1>0, <2>1, <2>2, <2>3
  <1>4. CASE Step(q)
    <2>1. /\ InFlight(q) /\ req[q].code = "none"
          /\ req'[q].op = req[q].op /\ req'[q].user = req[q].user
      BY <1>4, StepEffect DEF IInv, LocalShape, InFlight
    <2>2. Path(q)
      BY <1>4, StepPath
    <2>3. In => In'
      BY <2>1, <2>2 DEF Path
    <2>4. ASSUME In', ~In
          PROVE  /\ ToggleWrite(q) /\ req[q].user = u /\ req[q].subject = u
                 /\ row' = [row EXCEPT ![u] = [row[u] EXCEPT !.notifications =
                                                 ~req[q].seen.notifications]]
                 /\ row[u] # None
      <3>0. /\ req[q].pc \in {"toggle.find", "toggle.write"} => req[q].op = "toggle"
            /\ req[q].pc \in {"update.find", "update.write"} => req[q].op = "verifyEmail"
            /\ req[q].op = "toggle" /\ req[q].pc \in {"cache.get", "user.find", "cache.set"}
                 => ~req[q].authed
            /\ req[q].pc \in {"signIn.find", "signIn.update"} => req[q].op = "signIn"
        BY DEF ToggleInv, ToggleShape, IInv, LocalShape
      <3>1. /\ ToggleWrite(q)
            /\ row[req[q].subject] # None
            /\ row' = [row EXCEPT ![req[q].subject] =
                         [row[req[q].subject] EXCEPT
                            !.notifications = ~req[q].seen.notifications]]
        BY <2>1, <2>2, <2>4, <3>0 DEF Path
      <3>2. req[q].subject = u
        BY <2>1, <2>4 DEF IInv, LocalShape
      <3>3. req[q].user = u
        BY <2>1, <2>4
      <3>4. /\ row' = [row EXCEPT ![u] = [row[u] EXCEPT !.notifications =
                                             ~req[q].seen.notifications]]
            /\ row[u] # None
        <4>1. PICK s : s = req[q].subject
          OBVIOUS
        <4> QED BY <3>1, <3>2, <4>1
      <3> QED BY <3>1, <3>2, <3>3, <3>4
    <2>5. ASSUME ToggleWrite(q), req[q].user = u, row' # row
          PROVE  In' /\ ~In
      <3>1. /\ req[q].pc = "toggle.write" /\ Goto(q, "cache.del")
        BY <2>5 DEF ToggleWrite, Write
      <3>2. req'[q].pc = "cache.del" /\ req[q].op = "toggle"
        BY <3>1, ReqType DEF Goto, RequestState, ToggleInv, ToggleShape
      <3> QED BY <2>1, <2>5, <3>1, <3>2
    <2> QED BY <1>0, <1>4, <2>3, <2>4, <2>5
  <1> QED BY <1>1, <1>2, <1>3, <1>4, Moves

\* The setting of a calm user changes with the toggles that have been written,
\* one at a time.
LEMMA ToggleEffect ==
  ASSUME IInv, ToggleInv, [Next]_vars, NEW u \in Calm, row'[u] # None
  PROVE  \/ /\ Toggled(u)' = Toggled(u)
            /\ row'[u].notifications = row[u].notifications
         \/ \E q \in Request \ Toggled(u) :
              /\ Toggled(u)' = Toggled(u) \cup {q}
              /\ row'[u].notifications = ~row[u].notifications
  <1>0. /\ Toggled(u) \subseteq Request /\ Toggled(u)' \subseteq Request
        /\ u \in User /\ row[u] # None
        /\ row \in [User -> UserRow \cup {None}]
    BY RowEffect, CalmAssumption DEF Toggled, IInv, TypeOK
  <1>1. CASE \E q \in Request : q \in Toggled(u)' /\ q \notin Toggled(u)
    <2>1. PICK q \in Request : q \in Toggled(u)' /\ q \notin Toggled(u)
      BY <1>1
    <2>2. /\ Step(q) /\ ToggleWrite(q) /\ req[q].user = u
          /\ row' = [row EXCEPT ![u] = [row[u] EXCEPT !.notifications =
                                          ~req[q].seen.notifications]]
      BY <2>1, ToggledBy
    <2>3. Toggled(u)' = Toggled(u) \cup {q}
      <3>1. ASSUME NEW p \in Request, p # q
            PROVE  p \in Toggled(u)' <=> p \in Toggled(u)
        <4>1. req'[p] = req[p]
          BY <2>2, <3>1, StepEffect
        <4> QED BY <4>1 DEF Toggled
      <3> QED BY <1>0, <2>1, <3>1
    <2>4. req[q].pc = "toggle.write"
      BY <2>2 DEF ToggleWrite, Write
    <2>5. req[q].seen.notifications = row[u].notifications
      BY <1>0, <2>2, <2>4 DEF ToggleInv, SettingSeen
    <2>6. row'[u].notifications = ~req[q].seen.notifications
      BY <1>0, <2>2 DEF UserRow
    <2>7. row'[u].notifications = ~row[u].notifications
      BY <2>5, <2>6
    <2> QED BY <2>1, <2>3, <2>7
  <1>2. CASE ~ \E q \in Request : q \in Toggled(u)' /\ q \notin Toggled(u)
    <2>1. Toggled(u)' = Toggled(u)
      BY <1>0, <1>2, ToggledBy
    <2>2. ASSUME row'[u].notifications # row[u].notifications PROVE FALSE
      <3>1. PICK r \in Request : /\ InFlight(r) /\ req[r].user = u
                                 /\ ToggleWrite(r) \/ UpdateWrite(r)
        BY <2>2, Writer
      <3>2. row' # row
        BY <2>2
      <3>3. CASE ToggleWrite(r)
        BY <1>2, <3>1, <3>2, <3>3, ToggledBy DEF Step
      <3>4. CASE UpdateWrite(r)
        <4>1. PICK s : row' = [row EXCEPT ![s] = [row[s] EXCEPT !.emailVerified = TRUE]]
          BY <3>2, <3>4 DEF UpdateWrite, Write
        <4> QED BY <1>0, <2>2, <4>1 DEF UserRow
      <3> QED BY <3>1, <3>3, <3>4
    <2> QED BY <2>1, <2>2
  <1> QED BY <1>1, <1>2

Odd(n) == \E k \in 0..Cardinality(Request) : n = 2 * k + 1

\* What one more toggle does to an odd number of them, and to an even one.
LEMMA OneMore ==
  ASSUME NEW n \in Nat, Cardinality(Request) \in Nat, n + 1 <= Cardinality(Request)
  PROVE  Odd(n + 1) <=> ~Odd(n)
  <1> DEFINE N == Cardinality(Request)
  <1>1. PICK k \in Nat : n = 2 * k \/ n = 2 * k + 1
    <2>1. n \div 2 \in Nat /\ n % 2 \in 0..1 /\ n = 2 * (n \div 2) + (n % 2)
      OBVIOUS
    <2> QED BY <2>1
  <1>2. k \in 0..N
    BY <1>1
  <1>3. CASE n = 2 * k
    <2>1. Odd(n + 1)
      BY <1>2, <1>3 DEF Odd
    <2>2. ~Odd(n)
      BY <1>3 DEF Odd
    <2> QED BY <2>1, <2>2
  <1>4. CASE n = 2 * k + 1
    <2>1. ~Odd(n + 1)
      BY <1>4 DEF Odd
    <2>2. Odd(n)
      BY <1>2, <1>4 DEF Odd
    <2> QED BY <2>1, <2>2
  <1> QED BY <1>1, <1>3, <1>4

LEMMA TogglesCountStep == IInv /\ ToggleInv /\ [Next]_vars => TogglesCount'
  <1> SUFFICES ASSUME IInv, ToggleInv, [Next]_vars, NEW u \in Calm, row'[u] # None
               PROVE  row'[u].notifications <=> Odd(Cardinality(Toggled(u)'))
    BY DEF TogglesCount, Odd
  <1>1. row[u] # None /\ (row[u].notifications <=> Odd(Cardinality(Toggled(u))))
    BY RowEffect, CalmAssumption DEF ToggleInv, TogglesCount, Odd
  <1>2. Toggled(u) \subseteq Request /\ Toggled(u)' \subseteq Request
    BY DEF Toggled
  <1>3. /\ IsFiniteSet(Toggled(u)) /\ IsFiniteSet(Toggled(u)')
        /\ Cardinality(Request) \in Nat /\ Cardinality(Toggled(u)) \in Nat
        /\ Cardinality(Toggled(u)') <= Cardinality(Request)
    BY <1>2, RequestAssumption, FS_Subset, FS_CardinalityType
  <1>4. CASE /\ Toggled(u)' = Toggled(u)
             /\ row'[u].notifications = row[u].notifications
    BY <1>1, <1>4
  <1>5. CASE \E q \in Request \ Toggled(u) :
               /\ Toggled(u)' = Toggled(u) \cup {q}
               /\ row'[u].notifications = ~row[u].notifications
    <2>1. PICK q \in Request \ Toggled(u) :
               /\ Toggled(u)' = Toggled(u) \cup {q}
               /\ row'[u].notifications = ~row[u].notifications
      BY <1>5
    <2>2. Cardinality(Toggled(u)') = Cardinality(Toggled(u)) + 1
      BY <1>3, <2>1, FS_AddElement
    <2>3. Odd(Cardinality(Toggled(u)) + 1) <=> ~Odd(Cardinality(Toggled(u)))
      BY <1>3, <2>2, OneMore
    <2> QED BY <1>1, <2>1, <2>2, <2>3
  <1> QED BY <1>4, <1>5, ToggleEffect

LEMMA InitToggleInv == Init => ToggleInv
  <1> SUFFICES ASSUME Init PROVE ToggleInv
    OBVIOUS
  <1>1. \A r \in Request : /\ req[r].pc = "idle" /\ req[r].op = "none"
                           /\ req[r].code = "none"
    BY DEF Init, Idle
  <1>2. ToggleShape /\ SettingSeen
    BY <1>1 DEF ToggleShape, SettingSeen
  <1>3. ASSUME NEW u \in Calm
        PROVE  row[u].notifications <=> Odd(Cardinality(Toggled(u)))
    <2>1. Toggled(u) = {}
      BY <1>1 DEF Toggled
    <2>2. Cardinality(Toggled(u)) = 0
      BY <2>1, FS_EmptySet
    <2>3. ~Odd(0)
      BY RequestAssumption, FS_CardinalityType DEF Odd
    <2>4. ~row[u].notifications
      BY CalmAssumption DEF Init
    <2> QED BY <2>2, <2>3, <2>4
  <1> QED BY <1>2, <1>3 DEF ToggleInv, TogglesCount, Odd

\* ToggleInv holds along with IInv.
LEMMA ToggleInvariance == Spec => []ToggleInv
  <1>1. IInv /\ ToggleInv /\ [Next]_vars => ToggleInv'
    BY ToggleShapeStep, SettingSeenStep, TogglesCountStep DEF ToggleInv
  <1> QED BY <1>1, InitToggleInv, Inductive, PTL DEF Spec

(***************************************************************************)
(* The setting of a user who waits for each answer is on exactly if an odd *)
(* number of their toggles has been written, whatever else is under way:   *)
(* toggleNotifications negates what it read some awaits before.            *)
(***************************************************************************)
THEOREM EveryToggleCounts == Spec => []TogglesCount
  <1>1. ToggleInv => TogglesCount
    BY DEF ToggleInv
  <1> QED BY <1>1, ToggleInvariance, PTL

-----------------------------------------------------------------------------
(***************************************************************************)
(* A user who waits for each answer, on instances that do not lose Redis,  *)
(* is shown what they changed.                                             *)
(***************************************************************************)
THEOREM ChangesSeen == Spec => OwnChangesSeen
  <1> DEFINE A ==
        \A r \in Request :
          ( /\ req[r].op = "profile" /\ req[r].user \in Calm
            /\ req[r].subject = req[r].user
            /\ req[r].pc # "done" /\ req'[r].code = "OK" ) =>
          /\ req'[r].seen.id = req[r].user
          /\ UpToDate(req[r].user, req'[r].seen)
  <1>1. IInv /\ [Next]_vars => A
    <2> SUFFICES ASSUME IInv, [Next]_vars, NEW r \in Request,
                        req[r].op = "profile", req[r].user \in Calm,
                        req[r].subject = req[r].user,
                        req[r].pc # "done", req'[r].code = "OK"
                 PROVE  /\ req'[r].seen.id = req[r].user
                        /\ UpToDate(req[r].user, req'[r].seen)
      OBVIOUS
    <2>1. PICK u : u = req[r].user /\ u \in Calm /\ u \in User
      BY CalmAssumption
    <2>2. req[r].code = "none" /\ Key(r) = u
      BY <2>1 DEF IInv, LocalShape, Key
    <2>3. /\ ~Start(r) /\ req'[r] # req[r]
          /\ CacheGet(r) \/ CacheSet(r)
      <3>1. ~Start(r)
        BY StartEffect
      <3>a. ~Fail(r)
        BY ReqType DEF Fail, End, Done, RequestState
      <3>b. req'[r] # req[r]
        BY <2>2
      <3>2. Step(r)
        BY <3>1, <3>a, <3>b, StepCases, StartEffect, StepEffect
           DEF CreateUserRole, RemoveUser, ExpireRedis, ExpireMemory, vars
      <3>3. ASSUME UserFind(r) PROVE FALSE
        <4>1. \/ \E v \in UserRow : GotoWith(r, "cache.set", v)
              \/ \E c \in {"USER_NOT_FOUND", "INVALID_TOKEN"} : End(r, c)
          BY <2>1, <2>2, <3>3 DEF UserFind, IInv, TypeOK
        <4> QED BY <2>2, <4>1, ReqType DEF GotoWith, End, Done, RequestState
      <3>4. /\ ~ToggleFind(r) /\ ~ToggleWrite(r) /\ ~UpdateFind(r)
            /\ ~UpdateWrite(r) /\ ~CacheDel(r)
            /\ ~SignInFind(r) /\ ~SignInUpdate(r)
        BY DEF SignInFind, SignInUpdate, ToggleFind, ToggleWrite, UpdateFind, UpdateWrite, Find, Write,
               CacheDel, IInv, LocalShape
      <3> QED BY <3>1, <3>2, <3>3, <3>4, <3>b DEF Step
    <2>4. InFlight(r) /\ req[r].instance \in Steady
      BY <2>3 DEF CacheGet, CacheSet, InFlight, IInv, CalmShape
    <2>5. PICK v \in UserRow :
            Loaded(r, v) /\ v.id = u /\ UpToDate(u, v)
      <3>1. CASE CacheGet(r)
        <4>1. redis[u] # None /\ Loaded(r, redis[u])
          <5>1. ~Goto(r, "user.find")
            BY <2>2, ReqType DEF Goto, RequestState
          <5> QED BY <2>2, <2>4, <3>1, <5>1 DEF CacheGet
        <4>2. \A q \in Request : ~(req[q].pc = "cache.del" /\ req[q].user = u)
          BY <2>1, <2>4, <3>1 DEF CacheGet, InFlight, IInv, CalmShape
        <4>3. PICK v : v = redis[u]
          OBVIOUS
        <4>4. v \in UserRow /\ Lags(u, v)
          BY <2>1, <4>1, <4>3 DEF IInv, TypeOK, CopiesLagBehind, Copies, Lags
        <4>5. UpToDate(u, v)
          BY <2>1, <4>1, <4>2, <4>3 DEF IInv, CalmFresh, UpToDate
        <4> QED BY <4>1, <4>3, <4>4, <4>5 DEF Lags
      <3>2. CASE CacheSet(r)
        <4>1. PICK v : v = req[r].seen
          OBVIOUS
        <4>2. v \in UserRow /\ Loaded(r, v) /\ Lags(u, v) /\ UpToDate(u, v)
          BY <2>1, <2>2, <3>2, <4>1
             DEF CacheSet, IInv, LocalShape, SeenLags, CalmFresh, Lags, UpToDate
        <4> QED BY <4>2 DEF Lags
      <3> QED BY <2>3, <3>1, <3>2
    <2>6. req'[r].seen = v
      BY <2>4, <2>5, LoadedEffect
    <2> QED BY <2>1, <2>5, <2>6 DEF UpToDate
  <1> QED BY <1>1, Inductive, PTL DEF Spec, OwnChangesSeen
=============================================================================
