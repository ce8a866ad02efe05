# Template API in TLA+

A verification development for the Node.js/TypeScript API template in `src/`:
an Express server whose services keep users, sessions, verification links,
one-time codes, projects with media, and notifications in PostgreSQL (Prisma),
with Redis as a shared cache and AWS/Google for mail, SMS and objects.

The program is single-threaded per process, but every service method is a
chain of awaited calls, none of the authentication chains runs in a database
transaction, and several instances may share one database and one Redis.
Almost every interesting question is therefore of one kind: what may happen
between two awaits of one request.

## 1 Inventory

| Component | State | Operations | Used by, interacts with |
| --- | --- | --- | --- |
| User sessions (`api/user_session`) | `user_sessions`: user, bcrypt hash of a refresh token, ACTIVE / EXPIRED / LOGGED_OUT | `storeUserSession`, `updateUserSession`, `expireUserSession` | `AuthService.signToken`, `refreshToken`, `logout`; the client's cookies carry the token back |
| Verification links (`api/verification_uid`) | `verification_uids`: user, uid, bcrypt hash, purpose | `setVerificationUID`, `verifyUID`, `clearVerificationUID` | registration, forgotten password, resent verification; SES delivers the link |
| Login codes, phone codes, device tokens (`api/auth`) | `login_codes`, `phone_verification_codes`, `device_tokens` | send, verify, resend of each | users, sessions (a login code ends in `signToken`), SES, SMS |
| Users and their cache (`api/user`, `services/cache`) | `users`, `user_roles`; `user:<id>` in Redis or in the memory of an instance | `getUserById`, `toggleNotifications`, `updateUser`, `updatePassword`; `get`, `set`, `del` | every authenticated request, through `requireToken` |
| Authorisation (`middleware/auth`) | none | `requireToken(roles)` | reads users through the cache |
| OAuth sign-in (`api/auth`, `services/google`, `services/apple`) | `users` | `googleLogin`, `appleLogin` | writes users behind the cache's back |
| Projects and media (`api/project`, `api/media`) | `projects`, `media`, stored objects | create, list, get, delete media | one transaction; S3 or GCS outside of it |
| Notifications, pagination (`api/notification`, `common/pagination`) | `notifications` | list, toggle the read status, delete, create | users; a deletion is announced over the web socket; a new one by mail |
| Support requests (`api/support_request`) | `support_requests` | create, update the status | SES, twice |
| Rate limiter, CSRF, shutdown, log of errors (`middleware`, `core/app`, `core/server`) | points in Redis or memory; a cookie; a flag and the list of shutdown tasks; entries on their way to CloudWatch | middleware; `SIGTERM` handler | every request |
| `@serviceMethod`, `mapPrismaErrorToResponseCode` | none | turns an exception into a response code | every service method |

Hard behaviours, and what has to hold in spite of them:

* **Sessions.** `storeUserSession` reads the ACTIVE session, retires it and
  creates another in three calls; `updateUserSession` reads a row, computes two
  bcrypt functions and then writes by id. Wanted: one active session per user,
  a logout is final, a refresh token is good once, nobody is locked out, no
  session crosses from a user to another.
* **Links.** `setVerificationUID` clears and creates; `resetPassword` verifies
  one row, writes the user and clears "a" row. Wanted: a link proves only what
  it was mailed for, a used link is gone, whoever asks for a link has one.
* **Codes.** All codes of an address are deleted before one is made; a code is
  found, then deleted, then used. Wanted: one use, the right user and number,
  whoever asks for a code has one.
* **Cache.** What is put into the cache may be older than the invalidation
  that came before it; an invalidation may not reach Redis, and never reaches
  the memory of another instance. Wanted: users see their own changes, copies
  only lag behind, a deleted user is locked out in the end.
* **OAuth.** An account is looked up by the provider's id, then by address, then
  created, in three calls, and Apple names the address only once; a stale
  `emailVerified` is written back. Wanted: an id always comes back to its
  account, nobody who sends one request at a time meets a conflict unless a
  look-up threw, an address stays verified.
* **Projects and media.** URLs are signed inside a transaction that may still
  roll back; an object is deleted before its row, in another system. Wanted: a
  project comes with the rows of its files or not at all, nothing is stored for
  a row that never was, a deletion is told once, the client gets its URLs.
* **Rate limiter, CSRF, shutdown.** A broken Redis looks like an exhausted
  limit; parallel requests rotate one cookie; the database is disconnected
  while requests are still being answered, against a timer of ten seconds.
  Wanted: a page that waits for its answers is never refused for its token, a
  clean exit cuts nobody off, late requests start no work, the process ends,
  and errors are logged.
* **Notifications.** Found for their receiver, then written by id; a page and its
  total come from two queries. Wanted: a deletion is announced once, by one
  request and to its receiver; pages of an inbox that holds still fit together.

`PROJECT.json` lists the hazards at their lines, with the properties that
cover each, or the reason why none does.

## 2 Modules

| Module | What it models |
| --- | --- |
| `SessionLifecycle` | what the session table promises: sessions are opened, rotated while active, and closed for good |
| `UserSessions` | the session service and its three callers; shown to implement `SessionLifecycle` |
| `VerificationUIDs` | registration, password reset, address verification and the links behind them |
| `OneTimeCodes` | login codes, phone codes, stored device tokens |
| `UserCache` | reads and writes of users through the cache service, on several instances |
| `ProjectMedia` | the transaction of `createProject`, entries, uploads, overwrites and deletions of media over the database and both stores |
| `OAuthIdentity` | which account a sign-in with Google or Apple reaches, beside registration and confirmation |
| `RequestFront` | what every request passes before and after its handler, pages with their cookies, and the server that is told to stop |
| `Pagination` | the operators of `common/pagination`, with theorems for all values in `Messages_proofs` |
| `Messages` | notifications, their pages (it extends `Pagination`) and events, support requests |
| `MC...` | the symmetry sets and model values for TLC; one `.cfg` per question |
| `UserSessions_proofs`, `VerificationUIDs_proofs`, `OneTimeCodes_proofs`, `UserCache_proofs`, `ProjectMedia_proofs`, `OAuthIdentity_proofs`, `RequestFront_proofs`, `Messages_proofs` | theorems and their proofs |

**Conventions.** The database is a function from row ids to rows (`None` for no
row). A request is an element of `Request`, handled at most once; `req[r]` is
the record of its local variables, with `pc` naming the await it stands at, so
that an action is the code between two awaits and interleaving is at every
await and nowhere else. `Start` gives a request to a handler, `Step(r)` is what
the handler does next, `Fail(r)` is a query that throws (the decorator turns it
into a code), a process that stops or an answer that is lost, and it may strike
at every await. `AtRest` is the only stutter: it lets a run end when all
requests are done, so deadlock checking stays on. A Prisma update or delete by
id of a row that has gone answers NOT_FOUND, as `mapPrismaErrorToResponseCode`
maps P2025.

**UserSessions.** `users`, `sessions`, `expired` (tokens whose JWT has run out)
and `req`. A refresh token is its user, its session of origin and its serial;
`BcryptInput` keeps what the first 72 bytes of the JWT tell apart, which is the
user, and `Compare` is `bcrypt.compare` on that. `StoreFindUser` ...
`StoreCreate` follow `storeUserSession`, `Update...` `updateUserSession`,
`Expire...` `expireUserSession`; `Answer` is what the controller puts into the
cookies. A user in `Calm` sends a request when the one before is over, while the
others race; `RefreshToken`'s expiry and the failures are the same for all.

**VerificationUIDs.** `account` (password and whether the address is verified),
`uids` with their type, `mailed` (links SES accepted), `req`. A registration
that fails after the user was created leaves the user there, as the code does.
Results that the code ignores are ignored here: a look-up that throws lets a
registration go on to its creation (`RegisterFind`) and a forgotten password be
answered OK (`IssueFind`); a clear that throws (`ClearFails`) lets both of its
callers go on; and `Mail` is answered OK whether or not SES took the message.
`Calm` users have one request in flight at a time, and that is all: it may fail
or be cut off at any await like everybody's. `kept` marks a request whose clear
threw, and a user is `Clean` for a purpose when no clear of theirs threw. Among
these `UsedLinkDeleted` fails for who has two requests for a link under way, and
`CalmLinkDeleted` holds for who has one: a race that leaves two rows is all that
stands between them.

**OneTimeCodes.** Login codes are rows of an address with a value from a small
set, so that values of two users may coincide; phone codes carry the number
they prove. Expiry is an action that marks a row (the code compares
`expiresAt` with the clock when it reads).

**UserCache.** `row`, `redis`, `memory` (one store per instance) and `req`.
`emailVerified` stands for all that `updateUser` and `updatePassword` write.
An instance outside `Steady` may find at every call that Redis throws, and then
does what the fallback does; a run without `REDIS_URL` is an instance whose
calls always throw. A TTL is an action that may fire at any time. A sign-in
with Google or Apple reads the row, writes `emailVerified` from what it read and
drops no copy: two properties say where that shows.

**ProjectMedia.** `projects`, `media` (how far the row of each uuid has come:
unused, drawn, live, deleted), `urls` (signed and with a client), `objects` (what
lies in the two stores, under the key it was put) and `req`. A project is named
by the request that makes it. What a transaction has entered stays "drawn", out
of everybody's sight, until `Commit`; `Fail` rolls back by leaving it there. The
code signs URLs between the rows (`Sign`) and lets them out only in `Answer`,
and there only those of `uploadMedia` (`Delivered`): `createProject` hands
`mediaInfo` to `responseFormatter` beside `data`, where it is dropped.
`completeS3Upload` and `completeGCSUpload` look for the file at a path they draw
anew: `UploadCheck` finds nothing there in S3, and for Google Cloud asks for a
URL only, which needs no object. `StorageDelete` deletes the key `Name(f)`,
where the upload went to `Path(f)`: the object stays, although mediaDocs.ts:255
promises to delete "from both AWS S3 and the database". A client names only rows it can have been
told of (`Known`). `Crash` ends every request in hand; `ClientPut` may come at
any time while a URL is valid. The methods of `MediaService` are modelled as
their callers in `src/` see them; the routes of `mediaRouter.ts` pass the
controller's methods unbound, so that those that use `this` answer 500 before
any of it.

**OAuthIdentity.** `rows` (the users, named after the request that created them)
and `req`. A provider gives one id to an address and keeps it, so an id is its
address; a token may leave the address out, and may vouch for it or not.
`VerifyIdToken`, `FindById`, `FindByEmail`, `Update`, `Create` and `SignToken`
follow `googleLogin` and `appleLogin`, which have one shape; `Register` and
`Confirm` are what else writes these columns. `register` does not look at the code
that `getUserByEmail` returns, so that a look-up that throws counts as none
found: `FindRegistered` goes on to the creation (`Unread`), and `blind` remembers
that the row of the address was there to be seen. What a request that is over keeps
is what the properties ask of it (`Ended`), which keeps the instance small. Two
assumptions: nobody changes the address of their account at a provider, and
addresses are compared as they come. (`sanitizeInput` lower-cases the address
of a body, and nothing that of a token: a provider that spells an address with
capitals would open a second account.)

**RequestFront.** `req`, the cookie `jar` of each page, what the limiters have
`granted`, the `open` connections, `shuttingDown`, the `tasks` that are not
settled, the `exit` code and the `log` entries. The middleware between two
awaits is one action: `RateLimiter`, `Body` (log, health check, CSRF check,
shutdown check, router), `RouteRateLimiter`, `Handle`; each may end in `Respond`,
which sets the token of the next request and arranges for the entry in the log.
A page reads its cookie when it prepares a request and sends it later, so that
two of its requests may overlap; `Calm` pages do not let them. `HangUp`, a lost
answer (`Receive`), `StoreRejects` (Redis is away) and `Crash` strike at any
time. The limiters of routes have one shape and are one limiter; `granted` is
what it and the general one have given out, and `from` is where the answer of a
request arose: the general limiter, the middleware, the limiter of the route, or
the handler. The first of these comes before the log middleware, and a body that
cannot be parsed never reaches it.
`Shutdown`, `TaskSettles`, `TaskFails` and `ShutdownTimesOut` follow
`core/server`; Socket.IO's close and that of the HTTP server wait for the
connections that are left, which is what makes a clean exit clean.

**Messages.** `notifications` by the request that created them, `made` (the rows
of each `createdAt`, oldest first: rows may share one, and the order of a page
then says nothing), `support`, `events` and `req`. `FindMany` and `CountRows`
are the two queries of a page, in either order; `FindOwn` finds for the
receiver, `WriteRead` and `DeleteRow` write by id; `EmitDeleted` is the event of
the controller. `createNotification` has no caller in `src/` and is called by
nobody in particular. `UpdateSupportRequestStatus` is refused by its schema in
every case, since that reads a route parameter of another name.

A database call either takes effect and answers, or does neither. A commit whose
acknowledgement is lost is outside of all models here: where a property says that
someone is told of what happened, it is under this assumption.

## 3 Runs

| Run | What it checks and shows |
| --- | --- |
| `sessions_concurrent` | everything interleaves, users may be deleted: `UserIsolation`, `LogoutSticks`, `NoLockout`, `CalmSingleSession` and `CalmLogoutClosesAll` for a user who waits beside one who does not, and `ImplementsLifecycle`, the refinement of `SessionLifecycle` |
| `sessions_single` | violation: racing logins leave two active sessions, against the documentation |
| `sessions_rotation` | violation: a rotated refresh token is accepted again, against the documentation |
| `uids` | `ProvenByMail`, `SomeLinkSurvives`, `CalmLinkDeleted`, `ClearedByItsOwn` with a calm and a hasty user |
| `uids_cleared` | violation: two requests for a link race and leave two rows, a reset with one link deletes the other row, and the link that was used can be used again although nothing failed, against the documentation |
| `codes` | `CodeUsedOnce`, `NumberProved`, `SomeCodeSurvives`, `OneLiveCode`, with a patient and a hasty user |
| `cache` | `CopiesLagBehind` for all users, `OwnChangesSeen` and `TogglesCount` for calm ones, and under fairness `RemovedUserLockedOut`: the tokens of a deleted user open nothing in the end |
| `media` | creations, completions, overwrites and deletions of three requests with failures, crashes, uploads: `ProjectWhole`, `StoredHasRow`, `DeletedByOne` |
| `media_urls` | violation: `createProject` answers OK and its client gets none of the URLs it is to upload to, against the documentation |
| `front` | `GracefulExit`, `LateRequestsRefused`, `CalmPageServed`, and under fairness `ShutdownEnds` and `ErrorsAreLogged`, which is about whatever goes wrong in a handler or at the limiter of its route, for pages and mobile clients alike |
| `messages` | `DeletionAnnouncedOnce`, `PagesAgree` |
| `oauth` | `ReturnsToAccount`, `CalmNeverConflicts`, `VerifiedStays`, with an address whose requests do not overlap and one whose account may be deleted |

**Bounds.** Each request is handled once, so the number of requests bounds every
run; nothing else is cut off. Two users are enough for what crosses from one
user to another, since every action names at most two, and every race found in
the code is one of two requests with a third that comes after them (two logins,
then a refresh; two resets, then a mail). The runs about one user's races use
three requests for that reason. Two values are enough for codes that may
coincide. Two instances, one of which loses Redis, are enough for a copy
that an invalidation does not reach. For media a row has to be made before two
requests can race for it, which takes three requests; three uuids and at most
two files in a request let a creation fail after its first file with another
request's row beside it. For sign-ins it takes a registration, a sign-in with each
provider and a confirmation to reach what the code can do to one row, four
requests, and a second address for what must not cross over. In `messages` two
rows have to be made and two pages of them read, four requests, of which one
(`r0`) is over when the run begins. `front` has two requests, a page and a mobile
client with one point each: a point is spent and the next refused, two requests
of a page overlap, and a request meets the shutdown with another under way;
`Shared = TRUE` adds an unreachable Redis to what memory does. The tables have as many row ids as
requests can create. Symmetry is used on requests, users and row ids and never in
a run with a liveness property.

**Fairness.** Two runs have liveness properties. `UserCache!FairSpec` is weak
fairness of `Step(r)` for each request, since an awaited promise of Prisma or
Redis settles, resolved or rejected, and nothing a request awaits is held by
another request; and of the expiry of copies, since time passes and a TTL is
never renewed without a `set`. `RequestFront!FairSpec` is weak fairness of
`ShutdownTimesOut`, since a timer fires in a process that runs, and of
`SendLogEvents(r)`, since the client of CloudWatch gives up after some tries and
whatever it throws is swallowed. Nothing makes a client send or come back, a
handler return, a signal come, a connection close or a call fail: `ShutdownEnds`
holds because of the timer alone.

**Disagreements with the documentation** (`findings` in `PROJECT.json`): the
violation runs. "New login automatically logs out the previous session" holds
for a user whose requests do not overlap (`CalmUserOneSession`) and fails for
two logins that race. "Each refresh ... invalidates the old refresh token" fails
without any race: bcrypt sees 72 bytes of a token, and those are the same in all
refresh tokens of a user. The answer of `POST /project` is documented with the
URLs in `data.mediaInfo` and has no data. A used link is not always
deleted ("Verify UID, update password, delete VerificationUID record"): with two
links of one purpose there, which a race of two requests leaves, the clear may
find the other one (`uids_cleared`); for a user who waits, and whose clears do
not throw, there is only the one (`CalmLinkDeleted`).

Others that the models show, or that showed while they were written, and that
have no run of their own:

* "Update request status" (docs/API_REFERENCE.md:156): the schema takes the id from
  `req.params.id` (supportRequestInput.ts:37), and the route is
  `/updateStatus/:supportRequestId`: every request is refused as invalid
  (`UpdateSupportRequestStatus`).
* A clear that throws after a link was accepted leaves the link, and the answer is
  OK (`ClearFails`; authService.ts:275, 380, 547).
* "Verification email sent successfully" and "Password reset email sent
  successfully" (authDocs.ts:231, 472) are answered when SES refused the mail, too,
  after the older link was deleted (`Mail`; authService.ts:245, 350).
* Redis away: the cache goes on in memory, while the limiters answer every request
  with 429 and log "Rate limit exceeded" as long as a configured Redis is out of
  reach (`StoreRejects`); they use memory only when `REDIS_URL` is unset.
* Pages are ordered by `createdAt` alone: rows that share one may show on two pages
  of a listing, or on none (`PagesAgree` excepts them).
* `deleteS3File` deletes a key that the upload did not use (above), and
  `getDownloadUrl` signs the same key for reading.
* `getProjectById` hands `project` on beside `data`, as `createProject` does.
* "Set `shuttingDown` flag -> new requests receive 503" (docs/DEPLOYMENT.md:130):
  the health check is registered before `shutdownHandler` and answers 200 all
  through a shutdown (`Body`), and so do refusals for the limit or the token
  come before it with 429 and 403.
* docs/API_REFERENCE.md:137 and 145 describe `numberOfFetched` and batches of 20
  where the code has `page` and `perPage`.
* "Block duration after general limit exceeded" (docs/ENVIRONMENT.md:53):
  `generalLimiter` is made of points and duration only
  (middleware/rate_limiter/index.ts:37-41), and blocks nobody beyond its window.
* "On every response, a CSRF token is set" (middleware/csrf/index.ts:15): not by
  answers that arise before the check, by the refusal itself, and by those to
  mobile clients (the last argument of `Respond`).
* "Logs errors (4xx/5xx)" (docs/ARCHITECTURE.md:272): the 429 of the general
  limiter and the answer to a body that cannot be parsed come before the log
  middleware and leave no entry (`ErrorsAreLogged` is about the rest).

## 4 Proofs

TLAPS checks the theorems for every value of the constants that satisfies the
named assumptions (`None` is not a value of anything else, subsets are subsets).

* `UserSessions_proofs`. `IInv` is inductive for `Spec`: it adds to the type
  invariant that the locals a request reads are set at the await where it reads
  them (`LocalShape`), that a token counted as run out had been delivered
  (`ExpiredDelivered`), that a row a request holds belongs to its user
  (`HeldRow`), that sessions carry tokens of their own user (`RowOrigin`) and
  that what a logout closed is not ACTIVE (`LogoutSticks`). From it follow
  `TypeCorrect`, `Isolation`, `LogoutFinal`, `NeverLockedOut` and `Refinement`:
  an update by id meets a row that was read long before, and only the first of
  these facts together say that it writes no more than a token. `CalmInv` adds
  for each calm user that of their sessions only the one their request is
  working on may be active, and gives `CalmUserOneSession` and `CalmUserLogout`,
  whatever the other users do at the time.
* `UserCache_proofs`. `IInv` says of calm users that their Redis copy, and what a
  request of theirs is about to cache, agree with the row except between a
  write and its invalidation (`CalmFresh`), which holds because only their own
  single request ever reaches their copies, on instances that keep Redis
  (`CalmShape`), and of everybody that what is about to be cached only lags
  behind (`SeenLags`). It gives `TypeCorrect`, `LagBehind` and `ChangesSeen`,
  which are about any finite number of requests where the run has two.
  `ToggleInv` adds that the setting a calm user's toggle is about to negate is
  still the one in the row (`SettingSeen`) and that a toggle comes to its write
  only by its read (`ToggleShape`); the parity of the toggles then goes over with
  the setting (`EveryToggleCounts`). What `Toggled` counts must be finite, so
  `Request` is assumed to be (`RequestAssumption`): requests are handled once,
  and only finitely many have been.
* `VerificationUIDs_proofs`. `IInv` relates each row to the request that made
  it (`RowOrigin`), what a request holds to a link that was mailed
  (`LinkHeld`), accounts to the registrations that made them (`AccountOrigin`)
  and each proof to its link (`ProvenByMail`). It gives `TypeCorrect`,
  `OnlyByMail`, `OneAccount` and `OwnLinksOnly`. `LinkInv` is inductive in the
  states of `IInv`: whoever is past looking for an account has seen one, so that
  a registration opens no account that a link waits for (`AccountHeld`); a user
  with a request past its clear has a link or one about to be made
  (`LinkSurvives`), since whoever has deleted a row is about to make
  another; a calm user has one request in flight (`CalmAlone`), one row
  for each purpose, and the clear has found that one, as long as no clear threw
  (`CalmRows`). It gives `LinkRemains` and `CalmLinksAreDeleted`.
* `OneTimeCodes_proofs`. `IInv` says whose request made a row (`RowOrigin`), that
  the row a verification holds is, or was, one made for its user (`RowHeld`) and
  is gone once the verification got past its deletion (`UsedUp`); nobody creates
  that row again, so no other request can delete it, which is why `CodeUsedOnce`
  holds. `CodeSurvives` is `SomeCodeSurvives` from the moment a request has
  deleted the older codes; `PatientAlone` and `PatientClear` say of a patient
  user that nothing comes between the deletion and the creation. It gives
  `TypeCorrect`, `OneUsePerCode`, `NumbersAreProved`, `CodeRemains` and
  `ResendingReplaces`.
* `ProjectMedia_proofs`. `IInv` says that a uuid belongs to the one request that
  drew it (`OwnShape`), so that only this request may enter a row for it, and
  that other requests hold only rows that were committed (`RowShape`); which
  await a request may stand at (`LocalShape`, after `Route`) and what it has
  signed (`InfoShape`); that a project is there exactly when its request has
  passed its commit (`ProjectShape`); and who was told of a deletion
  (`ToldShape`, which states `DeletedByOne` without counting). It gives
  `TypeCorrect`, `AllOrNothing`, `NothingStranded` and `OneDeletion`, for any
  number of requests and files.

* `OAuthIdentity_proofs`. `IInv` says that an id is linked to one row and is that
  of the row's own address (`OwnIds`), and of each request that what it was told
  of an account is still so: the row it is about to link has its address
  (`UpdatesOwn`), who was signed in is linked (`SignedInLinked`, `KnewLinked`),
  and a look-up in vain means that the account known before has gone
  (`KnewFollowed`). It gives `TypeCorrect` and `AlwaysReturns`. `CalmInv` adds
  that an address has one row (`OneMail`) and that what the single request of a
  calm address has read still holds, unless the look-up of a registration threw
  (`CalmLocal`), and gives `CalmHasNoConflict` and `VerificationKept`.
* `RequestFront_proofs`. `IInv` says that whoever waits has a connection, and
  that the server is closed only when none is left (`ConnectionsHeld`), that late
  is what came after the signal (`LateAfterSignal`), that a calm page has one
  request under way, prepared with the cookie it still has (`CalmOneAtATime`),
  and that a prepared request has no answer yet (`PreparedShape`). It gives
  `TypeCorrect`, `GracefulShutdown`, `NoLateWork` and `CalmPagesPass`, for any
  number of requests, clients and points.
* `Messages_proofs` begins with the arithmetic of pages for all integers:
  `ParamsNormal`, `NormalKept`, `PagesHaveRows` and `PagesCover`. `IInv` relates
  rows, the targets of requests and events to the request that made the row
  (`RowOrigin`) and says that one request at most has deleted a row and not yet
  announced it (`DeletedOnce`). It gives `TypeCorrect` and `OneAnnouncement`.
  `PageInv` adds that a row gets its `createdAt` once (`Dated`) and that what the
  queries of a listing brought is still a page, and a count, of the rows they saw
  (`ListingsSound`); rows made later are newer, and `PagesKept` shows that they
  do not disturb it. That the page has the promised size goes from one `createdAt`
  to the next older (`PageSize`), and two pages share no row because their
  ranges of positions do not meet (`RangesApart`, `PagesApart`). `PageSize` needs
  an induction over positions; `LeastNumber`, that a set of positions has a least
  one, takes its place. It gives `PagesAreConsistent`.

**Only model-checked.** Liveness under fairness (`RemovedUserLockedOut`,
`ShutdownEnds`, `ErrorsAreLogged`) is out of the prover's reach, as is whatever
needs `ENABLED`. Every other property of a passing run is stated by a theorem. What
the violation runs refute stays with them. `OneAccountPerAddress`, `PagesHaveRows`
and `PagesCover` are proved and not repeated by a run.

## 5 Not modelled

* Validation, sanitising and headers are functions of one request: the models
  start from input that passed them, except where a schema decides a property
  (`ValidListing`, `UpdateSupportRequestStatus`). Configuration is read once at
  the start, the API description is static, and the start of the server
  (`start`, connecting and listening) is one straight line.
* Cryptography, tokens of providers and mail are modelled by what they
  distinguish; logs by when an entry is sent, not by what it says.
* Reads of projects and media and download URLs touch no row. `getUploadURL`,
  `getGCSUploadURL` and `getS3UploadURL` sign URLs for temporary paths, which end
  in the current millisecond and which no row ever names: `StoredHasRow` is about
  the paths of rows, not about these.
* Points and copies that several processes share in Redis are modelled in
  `UserCache` (two instances) but not in `RequestFront` (one process).
* `verifyDeviceToken`, `getUserSession`, `delByPrefix`, `throwOnError`,
  `createUserRateLimiter` have no caller, and `uploadMedia` and `deleteMedia` no
  route; these two are in `ProjectMedia` all the same.

## 6 Plan

All modules planned at the beginning are written. What is left:

1. `RequestFront` with two processes that share their points, and the temporary
   upload paths in `ProjectMedia`, once a route delivers what they lead to.
2. `login` with a password beside `OAuthIdentity!Link`, which writes `authType`:
   whether an account may keep both ways in is for the code to decide first.
3. An abstract specification of one-time codes (sent, used once), which both
   `OneTimeCodes` and `VerificationUIDs` could be shown to implement as
   `UserSessions` implements `SessionLifecycle`.
