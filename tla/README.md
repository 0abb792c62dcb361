# A TLA+ model of the Auth microservice

This directory models the parts of the service that keep state shared between
requests, cron jobs and service instances (login sessions, user accounts, the
caches of API keys and endpoint rules, the transactional outbox), how long tokens
and sessions open the API, and how all of it decides who may call what. TLC
checks the models on small instances; TLAPS proves the theorems for every size.

Paths such as `users.service.ts` are below `src/src/`; `PROJECT.json` maps each
definition to its lines.

## 1. Inventory

The service is a NestJS application. Postgres (through TypeORM) is the source
of truth, Redis holds sessions, reset tokens and two caches, RabbitMQ carries
mails and audit events. Node runs one request at a time *between two awaits*;
every `await` is a point where other requests, cron jobs and other instances
may run. Nothing takes a lock except the claim of the outbox.

| Component | State | Operations | Hard behaviour | What makes it correct |
|---|---|---|---|---|
| Outbox: `cron/outbox-*.ts` | table `outbox`: status, claimed_at | record (TypeORM subscriber), claim, publish, mark, reset, purge | overlapping cron runs and instances, crash between publish and mark, claims that time out | no committed change goes unpublished; duplicates only for a reason; the table drains |
| Sessions: `users.service.ts`, `sessions.service.ts`, `roles.service.ts` | `auth_session:<sid>`, `user_sessions:<user>`, user.roles, role.permissions | logIn, refreshToken, logOut, findUserSessions, deactivateSession, assignRole, assignPermissions and the propagation to sessions | whole sessions are read before and written after an await; two keys with separate expiry | sessions belong to their user, carry only what the user was granted, end for good, expire |
| User accounts: `users.service.ts`, `user.entity.ts`, `email.service.ts` | table `users`, `reset_password:<token>` | register, first activation, activate, deactivate, forgotPassword, resetPassword, credentials check | mail inside a transaction, check-then-insert validators, saves of whole entities | the mailed password opens nothing, tokens are single use, mails and accounts agree |
| API keys: `api-keys.service.ts`, `api-keys-cache-reconciliation.service.ts` | table `api_keys`, `api_key:fp:<fp>`, set `api_keys` | create, deactivate, activate, changePermissions, lookup with backfill, warm-up, hourly reconciliation | backfill racing revocation, stale saves, Redis restarts | the tracking set is exact, a revoked key leaves the cache |
| Endpoint rules: `endpoint-permission-rules.service.ts`, `epr-cache-reconciliation.service.ts` | table of rules, `epr:<name>`, set `epr_keys` | create, update/rename, assignPermissions, enable, disable, delete, lookup, warm-up, hourly rebuild | DEL/SREM and SET/SADD are separate commands | the cache answers with current codes of enabled rules |
| Tokens: `jwt.service.ts` | none (signed tokens) | generate, verify, rotate | tokens, sessions and account status end on different clocks | a login, and a deactivated account, is over in bounded time |
| Guards: `common/guards` | none | AuthGuard, ApiKeyGuard, MicroserviceGuard, canDo | compare codes of two caches with different owners | the decision is the one the tables would give, or its cache is known to be stale |
| Catalogue: `roles.service.ts`, `permissions.service.ts` | tables `roles`, `permissions` | create, update, delete, assignPermissions | relations by id, caches by code; most operations refresh no cache | relations lead to rows, codes and names stay unique, a reused code lends nothing |
| Seed: `database/seed` | all tables | upserts in one transaction | re-runs after edits, order of its parts, caches untouched | the admin can reach every seeded endpoint again |
| Controllers and DTOs: `*.controller.ts` | cookies | one service call per route | the endpoint keys of routes and of the seed are separate lists | every guarded route has its rule |
| Redis connection, e-mail templates, request context, errors, observability, start-up | none of their own that a decision reads | wiring, formatting, metrics | – | not modelled |

How they interact: every service writes Postgres through a repository, and the
outbox subscriber adds a row in the same transaction. Role changes call
`SessionsService`, which rewrites the sessions in Redis. Guards read what the
session, API key and rule components cached. The cron jobs repair the caches
from Postgres.

The hazards, each with its line and the properties aimed at it, are in
`PROJECT.json`.

## 2. Modules

| Module | Models | Remarks |
|---|---|---|
| `AuditDelivery` | what the audit service is promised: every committed change is delivered at least once, and kept until then | abstract specification, no code of its own |
| `Outbox` | subscriber, publisher, cleanup | refines `AuditDelivery` |
| `Sessions` | sessions, their index, role and permission propagation | |
| `UserAccounts` | accounts and reset tokens | |
| `ApiKeys` | keys, cache, reconciliation | |
| `EndpointRules` | rules, cache, rebuild | |
| `Tokens` | JWT lifetimes, rotation, session expiry, account status, the token part of the guards | composes the timing of tokens, `Sessions` and `UserAccounts` |
| `Authorization` | permissions, roles, accounts, rules, an API key, the seed, and the guards that decide by their caches | composes the components request by request |
| `Routes` | the routes of all controllers with guard and endpoint key, and the data of the seed | constants only |
| `MCSeed` | `Authorization` with the data of `Routes` | INSTANCE, see section 3 |
| other `MC…` | symmetry sets and model values for TLC | |
| `OutboxProofs`, `OutboxTimelyProofs`, `SessionsProofs`, `ApiKeysProofs`, `EndpointRulesProofs`, `UserAccountsProofs`, `TokensProofs`, `AuthorizationProofs` | theorems | |

### Conventions

* **An action is the code from one await to the next.** `job[p]` is a request
  that is suspended: the await it is at (`at`) and the values it has read. The
  next action of `p` uses those values, not the current ones, exactly as the
  local variables of the handler do. A handler that starts is `Start(p)`, its
  continuations are `Step(p)`.
* **A call that rejects** is `Fail(p)`: the request ends, or goes on where the
  code catches the error. A process that dies does no more than that to the
  shared state, since nothing but Postgres, Redis and the broker is shared. A call
  that took effect and whose answer was lost is its step followed by `Fail` (or
  `Crash`) at the next await. Where the code that catches the error goes on
  differently, in the publisher, the failing call has both outcomes: `EmitFails`
  may have published, `MarkFails` may have written SENT.
* **Redis** commands are atomic, a `multi` is one action. `SET … KEEPTTL` on a
  missing key creates it without an expiry, a set whose last member goes
  disappears, `PEXPIRE` on a missing key does nothing.
* **TypeORM** `save(entity)` makes the row what the entity says, columns changed
  by others in the meantime included. `UserAccounts` splits it into the SELECT
  and the UPDATE of the differing columns that TypeORM really performs; the
  other modules take it as one step. A `find` with a condition on a joined
  relation also filters the relation it loads. `remove(entity)` deletes the
  entity's rows of the junction tables with it; an `upsert` on a unique column
  updates the row that has the value or inserts one.
* **Data** is reduced to what decisions read: a password is `temp` (generated
  and mailed) or `own` (chosen); an event is its rank in `ORDER BY`; time is a
  count of ticks.
* **History variables** (`alone`, `torn`, `sends`, `welcomed`, `mailed`,
  `spent`, `opened`, `everRoles`, `everPerms`, `recorded`, `timely`, `setAt`,
  `inactiveSince`, `rewritten`, `overtaken`, `stale…`, `everGranted`,
  `everRequired`, `denotes`, `seeded`) are written for the
  properties' sake. `mailed` is also the client's knowledge of a token. `alone` is TRUE as long as
  no request started, and no session key expired, while another request was in
  flight; a property `alone => P` therefore speaks of one request at a time
  inside a model that also contains all the overlaps.
* **Mutants** (`…Unchecked`, `…Only` and so on, marked in a comment) are plausible
  mistakes in one operation; each breaks one property, and none is part of `Next`.

### Correspondence, by module

`Outbox`: a worker is one invocation of `handleAuditEvents` (@Cron every ten
seconds, no overlap protection, several instances). `Claim` is the SELECT … FOR
UPDATE SKIP LOCKED, `CommitClaim` the UPDATE and COMMIT, then `Emit`/`EmitFails`,
`MarkSent`/`MarkFails` and `ResetPending` per event, `Crash` anywhere.
`resetting` and `resettingSent` are the same await, the reset in the catch: the
model tells apart what the worker cannot know, whether its update to SENT was
committed before the call rejected.
Batches may outlive `PROCESSING_TIMEOUT_MS`; the history `timely` is TRUE as long
as none has, and the properties that need it say `timely => …`.

`Sessions`: `LogIn`, `LogInSet`, `LogInAdd`, `LogInExpire` are the SET, SADD and
PEXPIRE of `logIn`; `Refresh`, `RefreshFind`, `RefreshSet` are `refreshToken`;
`RefreshMembers`, `RefreshGet`, `RefreshExec` are `refreshSessionPermissions`
(SMEMBERS, MGET, MULTI); `FindByRole`, `NextUser` the loop of
`refreshSessionPermissionsByRole`.

`UserAccounts`: `Register` is what the DTO's validators saw, `RegisterInsert` the
INSERT in the transaction (it waits while another open transaction holds the
unique key), `RegisterMail` the mail inside the transaction, `RegisterCommit` the
COMMIT. `ResetPassword` is the GETDEL.

`ApiKeys`, `EndpointRules`: one action per call of the service methods, and of
the two reconciliation jobs. In `ApiKeys` a fill and an invalidation are MULTIs
and so one action each; in `EndpointRules` those of a single rule are two commands
and two actions, while the warm-up and the rebuild are MULTIs.

`Tokens`: `LogIn`, `LogInSign`, `LogInSet`, `LogInDone` are `logIn` from the
credentials check to the cookies; `Refresh` to `RefreshSign` are `refreshToken`
with `JwtService.refreshToken` at its end; `Guard`, `GuardGet`, `LogOutDel` are
AuthGuard in front of `logOut`; `Deactivate`/`Propagate` and `WriteBack` are the
other writers of sessions. `Tick` lets time pass between any two awaits; a
session key and a token go when their time has come. The threshold is drawn at
start-up from `Thresholds`, and `Minute` ticks make a minute, so that the
rounding of `shouldRotateRefresh` is there. The index and the permissions are in
`Sessions`. A signature cannot be forged: clients hold tokens that were signed
for them, and keep those that cookies would have dropped.

`Authorization`: one action per request, without overlaps or failures; these are
in the component modules. A permission is an id whose code can change; `FreshId`
draws ids that were never used. `Outdated`, `DeleteRole`, `AssignPermissions` and
`Seed` mark the caches they leave behind (`staleUsers`, `staleRules`, `staleKey`)
and the operations that renew a cache take the mark away. `AuthGuard`,
`ApiKeyGuard`, `MicroserviceGuard` and `canDo` are the decisions as operators on
the state; `UserRequest` and `KeyRequest` are what a guarded request does to the
caches. `Seed` is the whole transaction in the order of `SeedService.run`.

## 3. What TLC checks

| Run | Instance | Result |
|---|---|---|
| `OutboxLive` | 2 workers, 2 events, 2 faults, any slowness | `NoLostEvent`, `BoundedDuplicates`, and for workers in time `ExclusiveClaim`, `DuplicatesNeedFaults`, `SentIsFinal`; with fairness `EventuallyDrained` and the refinement `DeliversAtLeastOnce` |
| `SessionsConcurrent` | 2 users, 2 session ids, 2 overlapping requests | `SessionsKeepTheirOwner`, `NoForeignPermissions`, `OnlyInFlightRevives` |
| `SessionsSerial` | one user with two roles, 2 session ids, 2 permissions, one request at a time, a fault | `EverySessionExpires`, `IndexIsComplete`, `NoStaleGrant`, `SerialEndingsAreFinal` |
| `SessionsLive` | 1 session, 2 overlapping requests, a fault, fairness | `RefreshConverges` |
| `UserAccounts` | 1 account, 2 tokens, 2 overlapping requests, a fault | `TemporaryPasswordOpensNothing`, `TokenSpentOnce`, `WelcomeMailsAccounted`, `OnlyActivateReadmits` |
| `ApiKeysCache` | 2 keys, 2 overlapping requests, a fault or restart, fairness | `CacheTracked`, `CachedPermissionsCurrent`, `RevokedKeysEventuallyEvicted`, `RevocationHolds` |
| `EndpointRulesCache` | 2 rules, 2 names, 2 overlapping requests, 2 faults or restarts, fairness | `CacheAgreesWithRules`, `EnabledRulesEventuallyCurrent`, `TrackedDisabledDenied`, `SerialDisabledDenied` |
| `Tokens` | 1 user, 1 session, 2 overlapping requests, 6 ticks, thresholds 0 to 2 | `LoginBoundsAccess`, `NoRotationNoImmortality`, `DeactivationBoundsAccess` |
| `Authorization` | 2 users, 2 codes with 2 ids each, 2 roles, 2 endpoint keys, 4 edits and any number of logins, requests, rebuilds, restarts and seeds | `GuardsFollowTables`, `NoBorrowedAccess`, `SeedRestoresAdmin` |
| `SessionsByRole` | violation | `FreshPermissions` |
| `EndpointRulesUntracked` | violation | `DisabledEventuallyDenied` |
| `SeedCoverage` | violation, with the repository's routes and seed data | `SeedOpensEveryRoute` |

`TypeOK` of each module is checked in one of its runs.

**Bounds.** The conflicts in this code are between two requests (or a request and
a cron job) about one row or key, so two requests that may be at any pair of
awaits, one after the other as often as the bounds allow, reach them; a second
object is there where one request could touch the wrong one (users, keys, names)
or where an order matters (events, tokens). `MaxEdits` bounds writes of the
administrator and is large enough for create, change, revoke and re-activate;
`MaxFaults` bounds failures: one is enough to lose any single step. The outbox
has two because a retry can fail as well, the endpoint rules because only a lost
SADD together with a lost DEL takes an entry out of the rebuild's sight. `SessionTtl` and
`ProcessingTimeout` of one to three ticks let keys and claims expire before,
between and after the steps of a request. Six ticks of `Tokens` are three
session lifetimes: a login, a session put back after it expired, and a rotation
after that. Four edits of `Authorization` are enough to create a permission, give
it to a role and a rule and take it away again, or to rename it and reuse its
code; the seed, which is not counted, provides an admin, a role, a rule and a
permission to start from. Symmetry is used only in runs without temporal formulas
beyond `[][A]_vars`.

`MCSeed` takes `Authorization` by INSTANCE and not by EXTENDS: `None # C` for
every set `C` of the 32 seeded codes is more than TLC can enumerate, and the
assumption is evaluated in the run `Authorization`. No edits are made there
(`MaxEdits = 0`), the question is only what the seed by itself provides.

**Deadlock** is checked except for `Outbox` and `Sessions`, where the bounded
events and session ids are used up and the model stops.

**Fairness.** A call that was made returns or rejects, which is weak fairness of
each request's `Step`. The cron scheduler keeps firing: weak fairness of claims
and cleanups, and strong fairness of `Reconcile` in the two caches, since the
models have a fixed pool of request slots that clients may keep busy while the
real timer needs no slot. Time passes (`Tick` of the outbox). Nothing is assumed
of clients: `RefreshConverges` names the refreshes it needs in its premise.

### Findings

1. **`SessionsByRole`** – `refreshSessionPermissionsByRole` finds the users of a
   role with a condition on the joined relation, so each user comes back with that
   one role; the sessions of a user with two roles lose the codes of the other
   (sessions.service.ts:98) until a refresh.
2. **`EndpointRulesUntracked`** – DEL and SREM, SET and SADD interleave and leave
   an entry outside `epr_keys`, which the hourly rebuild never deletes. It does not
   even take an overlap: in one Redis outage the SADD of `create` and, later, the DEL
   of `disable` (whose error is swallowed) leave the same entry.
   `SerialDisabledDenied` says that without overlap one failure is not enough,
   `TrackedDisabledDenied` that whatever `epr_keys` does list is cleared, with any
   overlaps and failures.
3. **`SeedCoverage`** – the routes `change-permissions` and `activate` of API keys
   have the keys `api-key.update` and `api-key.activate` (api-keys.controller.ts:130,
   161), for which the seed has no rule, so everybody gets a 404 there until an
   administrator adds them.

Four limits of the code are stated as what does hold, and no run refutes them:

* *Revived sessions.* `refreshToken` (users.service.ts:66) and
  `refreshSessionPermissions` write back sessions they read before an await, so a
  logout or deactivation in between is undone. `OnlyInFlightRevives` shows that
  this is the only way, `SerialEndingsAreFinal` that it takes an overlap. Such a
  session has no expiry (KEEPTTL on a missing key); `Tokens` calls it `rewritten`
  and shows that it is useful for ever only with the rotation of refresh tokens.
* *Lost revocations.* `changePermissions` of API keys saves the entity it loaded
  earlier, column `active` included; `RevocationHolds` says that, besides
  `activate`, only a `changePermissions` that loaded this key while it was active
  can undo a deactivation, and that while the key is revoked only `activate` comes
  to hold an active copy of it.
* *SENT is not always final.* A worker whose update to SENT was committed but whose
  call rejected puts the row back to PENDING (outbox-publisher.service.ts:44-53)
  and the event is published again. `SentIsFinal` says that among workers in time
  this worker, about that row, is the only one; `DuplicatesNeedFaults` counts the
  duplicate against the failed call.
* *Stale caches.* docs/architecture.md:257 says that permission changes are
  propagated immediately to all affected sessions. Renaming and deleting a
  permission and deleting a role refresh nothing; `GuardsFollowTables` lists these
  operations and shows that there are no others. `NoBorrowedAccess` excludes codes
  that have stood for two permissions: then a stale session passes with the code
  of a permission its user never had.

Observed while modelling, without a run: docs/architecture.md:217 says that a
second run of the seed updates the admin's roles only, the code also makes it
ACTIVE (seed.service.ts:160); README.md:384 says that existing roles keep their
permissions, the code assigns all (seed.service.ts:130); both count 23 permissions
and rules where seed.data.ts has 32 and 36; a rule whose last permission was
deleted asks for none and lets every session pass; docs/authentication-flow.md:155 gives the lifetime of a
session as `JWT_AUTH_EXPIRES_IN`, the code uses `JWT_REFRESH_EXPIRES_IN`
(users.service.ts:158); the outbox status FAILED is never written; the catch of
`NotFoundException` in `resetPassword` never applies, as `findOne` throws
`UsersException`; two saves of one user that run between each other's SELECT and
UPDATE can leave the mailed password on an account that `activate` then opens –
the exception that `TemporaryPasswordOpensNothing` states.

## 4. What is proved

All theorems hold for every value of the constants that satisfies the `ASSUME`
of its module: natural bounds, positive batch sizes, finitely many workers of the
outbox, lifetimes of at least a tick, seed data that speak of seeded codes, and `None` different from real values.

| Theorem | States |
|---|---|
| `OutboxProofs!TypeCorrect`, `NothingLost` | `TypeOK`; `NoLostEvent` |
| `OutboxProofs!ImplementsDelivery` | `Outbox` implements the safety part of `AuditDelivery` |
| `OutboxProofs!DuplicatesBounded` | `BoundedDuplicates` |
| `OutboxProofs!InvocationsEnd` | every step of an invocation lowers a bound on the steps it has left (`StepsLeft`), and nobody else raises it |
| `OutboxTimelyProofs!ClaimsExclude`, `SentStaysSent`, `DuplicatesArePaidFor` | `ExclusiveClaim`, `SentIsFinal`, `DuplicatesNeedFaults` |
| `OutboxTimelyProofs!BatchIsDelivered` | an invocation whose own calls succeed has, when it ends, published all it claimed and left it SENT or purged |
| `SessionsProofs!TypeCorrect`, `NoSessionChangesHands`, `NothingForeignGranted` | `TypeOK`, `SessionsKeepTheirOwner`, `NoForeignPermissions` |
| `SessionsProofs!EndedUnlessInFlight` | `OnlyInFlightRevives` |
| `SessionsProofs!SerialSessionsExpire`, `SerialIndexComplete`, `SerialGrantsCurrent`, `SerialEndingsFinal` | `EverySessionExpires`, `IndexIsComplete`, `NoStaleGrant`, `SerialEndingsAreFinal` |
| `SessionsProofs!RefreshHeals` | after the last assignment a refresh that completes leaves its session with exactly the user's permissions, and it keeps them |
| `SessionsProofs!RequestsEnd` | for finitely many users and sessions: every step of a request lowers a bound on the calls it has left (`CallsLeft`), and nobody else touches it |
| `ApiKeysProofs!TypeCorrect`, `EveryEntryTracked`, `SerialEntriesCurrent`, `RevocationIsKept` | `TypeOK`, `CacheTracked`, `CachedPermissionsCurrent`, `RevocationHolds` |
| `ApiKeysProofs!ReconciliationEvicts` | one pass of the hourly job leaves no entry of a revoked key, whatever the cache held |
| `EndpointRulesProofs!TypeCorrect`, `SerialCacheAgrees` | `TypeOK`, `CacheAgreesWithRules` |
| `EndpointRulesProofs!ReconciliationRestores` | one pass of the hourly job leaves exactly the enabled rules with their codes |
| `EndpointRulesProofs!OneRulePerName` | whatever overlaps, a lookup by endpoint name finds at most one rule, and the codes and the enabled flag it reads are that rule's |
| `UserAccountsProofs!TypeCorrect`, `TemporaryPasswordIsUseless`, `TokensAreSingleUse` | `TypeOK`, `TemporaryPasswordOpensNothing`, `TokenSpentOnce` |
| `UserAccountsProofs!MailsAreAccounted`, `ReadmissionIsExplicit` | `WelcomeMailsAccounted`, `OnlyActivateReadmits` |
| `TokensProofs!TypeCorrect`, `LoginIsBounded`, `RotationAloneProlongs`, `DeactivationIsBounded` | `TypeOK`, `LoginBoundsAccess`, `NoRotationNoImmortality`, `DeactivationBoundsAccess` |
| `AuthorizationProofs!TypeCorrect`, `GuardsAreFaithful`, `NothingBorrowed`, `SeedRestores` | `TypeOK`, `GuardsFollowTables`, `NoBorrowedAccess`, `SeedRestoresAdmin` |

**The arguments.** None of these properties is inductive, because what a request
writes was decided earlier; each invariant says what a suspended request may
carry.

* *Outbox.* `Inv` adds to `NoLostEvent` that a worker about to mark an event has
  published it (`MarkedAfterEmit`), that workers and rows speak of committed
  events (`ClaimsAreRecorded`, `RowsAreRecorded`), and that the rows of an open
  claim are neither sent nor purged (`ClaimedRowsOpen`, the row locks). The
  refinement maps `delivered` to the events sent at least once and `retained` to
  the rows of the table. For `BoundedDuplicates`, with workers as slow as they
  like, `Budget` adds to what was sent what can still follow: one send per worker
  that holds the event or, while its row can be claimed, may come to hold it
  (`Publishers`), and a full round of all workers for each one that is about to
  reset the row (`Reopeners`). Only a fault makes a re-opener, and it raises the
  bound by a round; a worker that marks the row SENT closes it to all others,
  because an open claim still holds the row lock (`ClaimedRowsOpen`).
* *Timely outbox.* `TimelyInv` says that a row in a live batch is PROCESSING and
  exactly as old as the batch, so it is not stale and nobody else can claim it; or
  that it is in doubt (`InDoubt`), marked SENT by the worker of the batch itself
  in a call that was rejected.
  For duplicates, an accounting invariant counts what an event was sent, what is
  about to be re-sent and the faults.
* *Sessions.* `Inv` says that every session value, in Redis or in the hands of a
  request, belongs to the owner of its id and holds only what that user was ever
  granted, and that the histories cover the present. `LoginsApart` says that the
  session ids of logins under way are pairwise different and in no client's hands,
  so that a login revives nothing; every other write of a usable session is a copy
  in flight. For one request at a time, `Calm` says that what the request has read
  still agrees with Redis and Postgres (`Agrees`), that a usable session has an
  expiry, is in its user's index and does not outlive it (`Stored`), and that a
  session which allows more than the roles belongs to a user whom the assignment in
  flight is still going to reach (`Grants`, `Pending`); a failed call gives up the
  last part only.
* *API keys.* A fill carries loaded entities, never "no value", so the MULTI adds
  the entry and the set member together. `Undisturbed` says what holds until
  requests overlap: at most one is in flight, its entities agree with their rows,
  and only the entry of a change under way may be out of date. `RevocationIsKept`
  needs none of this: a request that comes to hold an active copy of a key copies
  the row, so while the row is revoked only `activate` does.
* *Endpoint rules.* `Inv` says which values each await leaves in the hands of a
  request, and that no two rules have a name in common: the unique column decides
  between racing creates and renames, whatever the validator saw. `AloneOK` is the
  counterpart of `Undisturbed` for one request at a time: an entry that does not
  agree with the table has a name that the request in flight is still going to
  invalidate or load (`Dirty`).
* *Accounts.* `Guarded`: until two saves have been mixed, every account that is
  not PENDING has a chosen password, in the table and in every loaded entity.
  `Single`: of the key of a token, the requests that hold it and its past use at
  most one exists. `Admission`: at most one registration of a user holds the
  inserted row, and none once the account is there; mails minus announced accounts
  are at most the faults; and what a request saves of a user it saw deactivated is
  deactivated, except in `activate`.
* *Tokens.* `Inv` says that tokens, sessions and requests name the user their
  session id was drawn for; that a session which was never put back expires one
  lifetime after its login; with threshold 0, that refresh tokens and the requests
  that verified them end by then (`TokensOK`, `JobsOK`); and that a login which a
  deactivation did not overtake stored its session before it (`HistoryOK`).
* *Authorization.* `CachesOK`: a cache that is not marked holds the codes of its
  permissions. Since codes are unique (`TablesOK`), comparing codes is comparing
  ids (`CodesMeet`), which gives `GuardsFollowTables`. `OriginOK` says of every
  cached code, stale or not, that it has stood for a permission the user was
  granted or the rule asked for; `HistoryOK` that the histories cover the tables.
  `SeededOK` says what the seeded tables allow the admin. `EditStep` and
  `CacheStep` reduce each operation to what it does to the tables and caches.

**What the liveness properties rest on.** The prover does not treat fairness, but
each liveness property repeats a step that is a matter of safety, and these steps
are proved. Except for the two bounds, each is a theorem about a specification of
its own: it starts in any state that satisfies the inductive invariant and the
named conditions, not only in `Init`, and its next-state relation leaves out
what would undo the result.

* `InvocationsEnd`, `RequestsEnd`: no invocation of the publisher and no request
  on sessions retries or loops for ever, so weak fairness of its calls makes it
  end. The bounds count three steps per event of a batch and three calls per user
  of a propagation; they never rise, because the loops run over what was read at
  the start. `RequestsEnd` assumes `FiniteStore`, finitely many users and session
  ids.
* `BatchIsDelivered` (for `EventuallyDrained`): from the claim on, everything may
  happen except a failure of this worker, a further claim by it, and a batch that
  outlives the timeout. `BatchOK` says that what the worker no longer holds is SENT
  or purged; that nobody re-opens it is `HandledStep`.
* `RefreshHeals` (for `RefreshConverges`): logins, refreshes, logouts, listings,
  expiry and failures go on; no assignment or deactivation is in flight or starts,
  and what a login or refresh is about to write was loaded after the last
  assignment (`Fresh`). Each part is needed: such requests write old permissions.
* `ReconciliationEvicts` (for `RevokedKeysEventuallyEvicted`): a pass that has read
  the tracked keys runs while requests and other passes that carry only active
  entities run and fail, and Redis may restart. `PassOK` says that every entry of a
  revoked key is in the hands of the pass.
* `ReconciliationRestores` (for `EnabledRulesEventuallyCurrent`): lookups and
  warm-ups run and fail while no rule is edited, and the wrong entries at the start
  are in `epr_keys`; the run `EndpointRulesUntracked` shows that this last condition
  is needed.

**Only model-checked:** what holds under fairness – `EventuallyDrained`,
`RefreshConverges`, `RevokedKeysEventuallyEvicted`, `EnabledRulesEventuallyCurrent`,
`TrackedDisabledDenied`, `SerialDisabledDenied` and the liveness half of `DeliversAtLeastOnce`. That the
proved steps happen, and happen often enough, is TLC's part. Every invariant and
every action property of a passing run is proved.

## 5. Not modelled

* Cryptography: a signature verifies exactly for tokens the service signed, a
  password comparison succeeds exactly for the same password.
* The subnet check of AuthGuard, which refuses more requests and grants none.
* Pagination and other reads, Swagger, the shape of answers, formatting of mails,
  errors, metrics, start-up and configuration: nothing they keep is read by a
  decision. The Redis connection and the request context are wiring; a connection
  that fails is a call that rejects.
* The publisher's payloads are not looked into. Saves of roles, API keys and rules
  are single steps: mixtures of their columns as in `UserAccounts` are outside
  those models.

## 6. Plan

Done, in this order: Outbox with its abstract specification and proofs, Sessions,
ApiKeys, EndpointRules, UserAccounts, Tokens, Authorization with Routes and the
seed.

Every invariant and action property of a passing run is proved, and so are the
steps that the liveness properties repeat. What is left is outside the prover: to
join those steps by fairness (`ENABLED` of each call, and leads-to), which the runs
do on their small instances.
