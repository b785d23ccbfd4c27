# TLA+ models of admin-platform

The server under `src/src/admin_platform` is an administration back end: FastAPI on one event loop per
worker process, MySQL 8 (InnoDB, READ COMMITTED) behind SQLAlchemy's async session, Redis for
idempotency keys, login counters and captchas. A request runs in one database transaction. Several
workers run the same code against the same database, so everything between two `await`s may
interleave with other requests, and any process may die.

## Parts of the system

| Part | State | Operations | What makes it correct |
|---|---|---|---|
| Refresh tokens (`domains/auth`) | `auth_refresh_tokens`, lock rows in `app_locks` | login, rotate, logout, forced logout, password change, clean-up | one exchangeable token per family, revocation is final, absolute limit, session cap |
| Scheduled tasks (`domains/scheduled_task`) | `scheduled_tasks`, `scheduled_task_logs`, job table per worker | reconcile, fire, claim, run, record, manual run, CRUD | no instant runs twice, exclusive tasks do not overlap within the stale window, result and task row agree |
| Scheduler leadership (`scheduler.py`) | MySQL `GET_LOCK`, `is_leader`, scheduler object | acquire, probe, demote, stop | standby takes over, at most the claim decides |
| Departments, menus | adjacency lists with RESTRICT foreign keys, one tree lock each | create, move, delete | forest, no orphans, buttons are leaves |
| Users (`domains/user`) | `users` | CRUD, password reset | a super admin remains |
| Roles, bindings, data scope | association tables | replace-all binding, scope computation | scope of a request is that of its snapshot |
| Idempotency (`core/idempotency.py`) | Redis key per subject, path and key | in-flight lock, response cache | a retry does not repeat the effect |
| Request lifecycle (`db/session.py`, `core/middleware.py`, `audit/`) | transaction, audit buffer, background tasks | commit after the response | what is answered, audited or deleted agrees with the commit |
| Files | blob on disk, row in `files` | upload, download, delete | a row never names a missing blob |
| Login guard, captcha | Redis counters with a TTL | check, count, lock | threshold holds |
| Application locks (`db/locks.py`) | `app_locks`, per-process cache of known rows | ensure row, `FOR UPDATE` | mutual exclusion also when the row is missing |
| Dictionaries, posts, notices, configuration | one table each | CRUD | unique constraints |
| Excel, JWT, permissions check, logging, settings, CLI, front end | none of its own | | |

The parts meet in the database: row locks (explicit `FOR UPDATE`, and those that `UPDATE`, `DELETE`
and foreign-key checks take), in `app_locks` rows that serialise a user, a task or a tree, and in the
order of commit, response, cache and background task.

What is hard about them is listed under `hazards` in `PROJECT.json`, each at the line where it bites:
values read before a lock queue and used after it, checks and writes in separate statements, a clock
read once and compared later, commits that come after the answer, locks with a TTL, crashes between a
claim and its result. A hazard with properties is covered by the runs, and where
it has a note too, up to what the note says; one with nothing but a note is not covered, and the note says
why.

How the models divide the parts, and where they touch:

- a login passes the guard and writes its log row (`Login`), and opens or closes sessions inside its
  transaction (`RefreshTokens`);
- a worker is elected and fires (`SchedulerLeader`); what a fired execution does, in whichever worker, is
  `ScheduledTasks`, which lets any worker fire and so allows more than the election does;
- a request is let in and given a scope (`Access`), runs its transaction and is audited (`Catalog`), and
  its answer, its cached copy and its background task lie around the commit (`RequestLifecycle`);
- menus are a tree (`TreeWrites`), seeded beside the edits (`MenuSeed`), and give permissions (`Access`)
  and routes (`MenuSeed`);
- the locks that the models of tokens, tasks and trees take for granted are `AppLocks`.

## Modules

| Module | What it is | Code |
|---|---|---|
| `RefreshTokens` | the token table, the requests that write it, their locks, clocks and rollbacks | `domains/auth`, `domains/monitor` |
| `SessionFamilies` | what that table promises: a family is opened, moved forward, closed for good | |
| `Login` | failure counters, soft lock, captcha, login log | `auth/login_guard.py`, `captcha.py`, `service.py` |
| `ScheduledTasks` | job tables, triggers, claim, handler, result, task administration, crashes | `scheduled_task/executor.py`, `service.py` |
| `TaskLedger` | what the execution log promises: one entry per instant, ended once | |
| `SchedulerLeader` | election, probe, reconciliation, firing, shutdown | `scheduled_task/scheduler.py` |
| `RequestLifecycle` | idempotency middleware, handler transaction, background task, files | `core/idempotency.py`, `domains/file` |
| `Catalog` | dictionaries, posts, configuration, notices; constraint errors, audit trail, lists | `domains/dict`, `post`, `config`, `notice`, `core/errors.py`, `rbac_audit.py` |
| `Access` | users, roles, bindings, permissions and data scope | `domains/user`, `role`, `rbac_binding`, `core/permissions.py` |
| `TreeWrites` | create, move, retype and delete in the department and menu trees | `domains/dept`, `menu` |
| `Forest` | what a tree promises: leaves come and go, a row moves outside its subtree | |
| `AppLocks` | the lock of a name: a row that is made, found, locked, lost | `db/locks.py` |
| `MenuSeed` | the seed of built-in menus beside edits, under `AppLocks`; what is shown of menus | `rbac/seed.py`, `domains/menu` |
| `...Proofs` | inductive invariants and theorems of `RefreshTokens`, `Login`, `ScheduledTasks`, `Catalog`, `TreeWrites`, `Access`; of `AppLocks` and `MenuSeed` in `MenuSeedProofs`, of `SchedulerLeader` and `RequestLifecycle` in `WorkerProofs` | |
| `MC...` | the instances that TLC checks | |

`map` in `PROJECT.json` names the lines that each definition stands for. Definitions that follow a
comment "Faulty variant" are not part of the models: each is the body a definition would have with a
plausible bug, and is used to see that a property notices it.

The models share one idiom. A request has a `phase` (`pc`, `at`), and what it has read before it queues
for a lock is kept in `call` (`asked`, `run`, `saw`, `seen`): it may be stale afterwards. Uncommitted
writes are kept apart from the tables (`plan`, `staged`, `pend`, or the phases `written` and `ready`),
and `Commit` applies them in one step. Row locks are variables, or follow from what the other requests
have written and not committed. Every request may be rolled back between any two steps.

### RefreshTokens

A request runs in one transaction: `Start...` is what it reads without a lock (`login` verifies the
password, `refresh` looks up the token and, with it, the owner), `Acquire` is `FOR UPDATE` on the
`app_locks` row of its user, `Decide...` is the body of `RefreshTokenService` under that lock, `Commit`
and `Abort` end it. `refresh` keeps the clock it took at its start (`call.at`); `login` reads it under
the lock. `FlushPassword` stands for the UPDATE of `users` that `change_password` flushes before it asks
for the lock: it takes the users row, and the foreign key of an INSERT waits for that row
(`NeedsInsert`, `userRow`). Who waits for a users row holds its user's bucket, and who has that row and
is not done waits for that bucket, so every cycle has two members; `DeadlockVictim` is InnoDB's rollback
of one of them.

`openedAt` and `pwdMark` are history and only read by properties. Ids stand for token values: the lookup
by `jti` always matches its secret, as a mismatch only refuses.

### ScheduledTasks

`next` is the job table of each worker (`AsyncIOScheduler` with `coalesce` and `max_instances=1`),
`Fire` and `ManualRun` start an execution, which queues for the lock of its task, reads, and either
enters a log row (`Claim`), enters a skipped one (`Skip`) or finds its instant taken (`Taken`, the
unique key on task and tick). The handler runs outside any transaction; `ReadBack` and `Close` are the
result transaction, in which the task is read without a lock. Any worker may have jobs loaded at any
time: that allows every outcome of the election and more. The clock counts minutes, the resolution of
cron; `Ticks` is the set of instants an expression denotes.

### TreeWrites

One module for both trees, with `tree` saying which. `TakesLock` tells which writes take the tree lock:
a department is created without it, and a menu is moved to the root without it. A request keeps the row
it read before it queued (`saw`), because SQLAlchemy's identity map does, and its UPDATE writes only
the columns that differ from that row (`NewParent`, `NewType`). `Located` and `CycleFree` are the two
checks, in two steps; `ForeignKeys`, `RowFree` and `NotWritten` are what the database checks and locks
by itself when the statement is flushed.

### RequestLifecycle

A request has two halves, `mw` and `app`. The response leaves the application before the dependency
that owns the transaction is left, so `CacheAndReturn` may come before `Commit`, and the background task
of a removal always does (`db/session.py` says so for the cache). `Claim` is SET NX, `Resolve` is what
happens when it failed: GET, then a replay, a refusal, or the handler without a lock when there is
nothing to read. A faulty store looks like a taken key. `Expire` is the TTL of an entry.
Switches decide what may fail: `StoreFaults`, `SlowHandlers` (a handler outlasts the TTL of its lock),
`Crashes`, `Forgets` (a stored answer reaches its TTL). All are on in the safety run, all off in the
two configurations that look for a counterexample, so those need nothing but two or three requests and
the TTL of a lock whose handler has already answered.

### SchedulerLeader

`owner` is the session that MySQL takes for the owner of the named lock, `conn` what a worker has in
`_leader_conn`: a connection may be `lost` without the worker knowing, and then MySQL may have released
the lock or not noticed yet (`Reap`). `pc` follows `_loop`: `TakeLock` is GET_LOCK with no wait, `Probe`
is `_verify_leadership` with `_demote`, `List` and `Apply` are the two halves of `_reconcile`, between
which rows may change. `AfterError` is what an exception does: inside `start()` it ends the process,
inside the loop it is logged. `Stop` and `Drained` are the two halves of `stop()`. `Due` is what
APScheduler does with a job that is due (`coalesce`, `max_instances=1`, grace). `Budget` bounds starts,
stops, crashes, faults and edits together.

### Login

Each Redis call is a step. Time is left out: a key with a TTL may expire at any moment, a key without
one never does, so that a handler that dies between INCR and EXPIRE leaves a key for ever, as it does in
Redis. `before`, `recorded` and `counted` are history: what was on record when an attempt arrived.

### Catalog

One record serves the five tables, and one pair of steps the services: `Check` is what a service reads
and refuses, `Clear` the bulk UPDATE of `clear_other_defaults`, `Flush` the flush with the constraint
errors the database finds, `Record` the flush that `persist_audit_in_session` causes (a deletion reaches
the database only there) with the success row in its savepoint, `Store` the middleware that writes the
buffered failure in a transaction of its own. An upload over the size limit ends in `RefuseUpload`, before the
trail is entered. `Broken` is the registry of constraint names in
`core/errors.py`. `ListPosts` and the other orders, with `TotalPages` and `Page`, are
`core/pagination.py` and the repositories' ORDER BY; `Fields` are the fields posts may be sorted by.

### Access

`LoadAccount`, `LoadPerms`, `LoadRoles` and `LoadDepts` are the statements of `a_load_authz_context` and
`a_get_effective_scope`; between any two of them others may commit, since the engine runs at READ
COMMITTED. `Authority` is the reference definition: what the tables say of a user when they are read at
once. `Check` is the guard and the service's refusals, `Cut` and `Put` the two statements of a
replace-all binding under its table lock, `Write` the rest, and `WriteNothing` what it comes to when the row has
been deleted since the check. The schema (`InTables`, `OneSuper`,
`BothEnds`) and the payloads (`WellFormed`) are assumptions on the tables at the start and on the
requests. `moments` is history and only read by properties: everything the tables have said of an operator
(`Facts`: the authority, and the roles it is made of) since its account was read.

### AppLocks and MenuSeed

`acquire_transaction_lock` is `Want`, then `Ensure` (a transaction of its own makes the row, when the
caller has no connection yet) or `Insert` (INSERT IGNORE inside the caller's transaction), then
`Select`. An edit of `MenuSeed` always has a connection, since its guard has loaded the authority in the same
session. `known` is the process's memory of rows it has seen, which a rollback or a deletion can make
wrong; `Missed` is the retry. `MenuSeed` extends it: seeds lock `rbac:seed`, edits `menu:tree`. A seed
reads the built-in menus once (`Load`) and writes by difference to what it read (`Differing`), node by
node (`Upsert`), then removes what the manifest no longer has (`Prune`). `Routers` is what
`assemble_menu_forest` and `build_routers` show of the menus that were granted.

## Runs

| Run | Shows |
|---|---|
| `RefreshTokens_safety` | `OneLiveTokenPerFamily`, `ClosedFamilyStaysClosed`, `RotationChains`, `AbsoluteDeadline`, `RevocationIsFinal`; `CommitsEstablish` (at each commit `LoginRespectsCap` and `ClosingIsComplete`); the table implements `SessionFamilies` |
| `RefreshTokens_liveness` | `EveryRequestEnds`, for two overlapping requests of one user |
| `Login_guard` | `PasswordsAreGuarded` (`GuessesAreBounded`, `CaptchaIsAsked`, `CaptchaWorksOnce`), `EveryAttemptIsLogged`, `BlocksEnd` |
| `ScheduledTasks_safety` | `OneRunPerTick`, `ExclusionHolds` (`ExclusiveRunsAreApart`, `SkipsAreJustified`), `LastRunIsLogged`, with crashes and failing transactions |
| `ScheduledTasks_liveness` | `EveryExecutionEnds`, and the log implements `TaskLedger` |
| `SchedulerLeader_leadership` | `Leadership` (`OneSchedulerUnlessLost`, `NoIdleOwner`, `DrainBeforeRelease`), `NoInstantTwice`, `LeadershipSettles` (`LeaderEmerges`, `DeposedStops`, `JobsFollowRows`) |
| `RequestLifecycle_safety` | `AnswersMatch`, `LossNeedsRollback`, `OrphansNeedFailure`, with everything that may fail failing |
| `Catalog_safety` | `RowsAreConsistent`, `AuditIsTrue` (`AuditTellsTheTruth`, `RefusalsAreOnRecord`), `RacesAnswerLikeChecks`, `NothingIsHalfDone` (`DefaultsAreNotLost`, `ImportIsAllOrNothing`), `PagesCoverOnce` |
| `Access_safety` | `AuthorityIsReal` (`LoadedAuthorityIsReal`, `ListShowsWhatGetShows`), `ManagementIsKept`, `BindingsAreWhole` (`BindingsHaveBothEnds`, `BindingIsOneRequest`), `NobodyGains` |
| `TreeWrites_safety` | `Acyclic`, `ButtonsAreLeaves`; every commit is a step of `Forest` |
| `MenuSeed_safety` | `SeedsAreSerial` (with the `OneHolder` of `AppLocks`), `SeedApplies`, `GrantedPagesAreShown` |
| `MenuSeed_NoCycles` | violated: a seed and an edit close a cycle |

Each module's type invariant is checked with them, by itself or as a conjunct of the property that says
so.

Some properties are narrower than their names suggest. `LoginRespectsCap` speaks of the commit of a login,
because a rotation that is judged with the clock from before its queue can revive a family that had
expired meanwhile and so exceed the cap. `AnswersMatch` does not say that the answered execution was
committed, as the code answers first and `core/idempotency.py` and `db/session.py` document that.
`OneRunPerTick` speaks of instants between two entries and not of their keys, which may be late ones
(below). `LoadedAuthorityIsReal` speaks of requests during whose loading nothing that concerns the
operator was committed, neither its authority nor the roles behind it (below). The torn load that the last
one leaves out does happen, as `Access_ActsOnOneSnapshot` shows. `RefusalsAreOnRecord` speaks of requests
past their guards and validation, and excepts two refusals by name: the deletion that meets the foreign
key and the upload over the limit (below). `GuessesAreBounded` and `CaptchaIsAsked` speak of failures that
were on record when an attempt arrived: attempts that run at the same time all pass. `BlocksEnd` needs
fewer faults than `IpLimit`: with as many handlers dying between INCR and EXPIRE an address stays blocked.
That a successful login leaves the count of the address alone cannot be told at these bounds and is not
claimed.

### Where code and comments disagree

`MenuSeed_NoCycles` is a run, and its finding quotes the comments. The following configurations are kept
for whoever wants to see the trace; each checks one invariant, which TLC finds violated
(`tlc -config <cfg> MC<module>`).

| Configuration | What happens |
|---|---|
| `RefreshTokens_NoDeadlock` | `change_password` flushes `users` before it asks for the user's lock (`auth/service.py:357`), a login does the opposite through its foreign key; the comments at `service.py:364` and `refresh_service.py:144` promise one order. `EveryRequestEnds` shows that InnoDB's victim resolves it. |
| `RefreshTokens_PasswordChangeEndsOldSessions` | A login or rotation that read before a password change commits after it and leaves an old session usable; the docstring at `auth/service.py:328` says all of them end. |
| `ScheduledTasks_KeyIsTheTrigger` | A claim that is delayed past the next instant is entered under that one. |
| `ScheduledTasks_RunningRowsAreRunning` | A task deleted during the result transaction leaves its log row running. |
| `RequestLifecycle_AtMostOnce` | The key of a refused attempt expires between SET NX and GET, and the retry runs without a lock beside another one. |
| `RequestLifecycle_ListedFilesHaveContent` | The background task deletes the content before a commit that then fails. |
| `Access_ActsOnOneSnapshot` | The authority a request acts with is a mixture of two moments: `role/provider.py:110` and `core/permissions.py:105` speak of one snapshot, `db/engine.py:30` sets READ COMMITTED. |

Seen while modelling, and excepted by name in the properties concerned:

- An update that sets a dictionary entry as default which its session has read as default already clears
  the others and then writes nothing to the row itself: if another request took the flag meanwhile, the
  dictionary is left without a default (`dict/service.py:139`; the third case of `DefaultsAreNotLost`).
- A type or setting that became built-in after the check is deleted (`dict/service.py:86`).
- An entry created after its dictionary vanished is refused with the code of the foreign key, which says
  that the type has data, where the check says that it was not found.
- A refusal that the client sees without any audit row: `import_posts` reads the upload before it enters
  `audited_write` (`post/api.py:151`), so `post.EXCEL_TOO_LARGE` for a file over the limit (413) is not
  recorded, while the same code for a zip bomb, raised inside the service, is.
- The foreign-key error of a deletion appears in the flush of its own audit row (`rbac_audit.py:57`),
  outside the handlers that keep a failure event; a constraint error of a binding is not audited either.
- An update of a row that was deleted meanwhile ends in 500 and leaves no audit row (a user is looked up again
  first, and is not found if it had gone by then); a commit that fails does so after the answer.
- A lock that expires together with a Redis fault leaves only the captcha in the way of an attempt.
- A new leader's jobs start at its clock (`scheduler.py:190`): instants that were due between two leaders
  are not made up.
- A seed that turns a page back into the button of its manifest does not look at the children it was
  given meanwhile; they are no longer shown. `GrantedPagesAreShown` excepts what hangs below a button.
- After two rollbacks in one process the lock's row can be missed three times, and the caller gets a
  RuntimeError (`db/locks.py:95`), the step `failed` of `AppLocks`.

### Bounds

- `RefreshTokens_safety`: one user, two overlapping requests, three token ids (a login and two
  rotations, or two logins and a rotation), cap 1, lifetimes 2 and 3 with a clock up to 2: a family expires
  idle at 2 or is evicted by the cap, and a rotation at 2 is cut by the absolute limit at 3. The theorems
  depend on none of these numbers. The liveness run has two tokens and a clock up to 1, at which a family
  has expired.
- `Login_guard`: three attempts, two at a time, one account, one address, one captcha, thresholds 1 and
  2, one fault. Two failures reach the lock and the block, the third attempt meets them; two attempts
  share one captcha. Accounts have keys of their own and meet only in the address.
- `ScheduledTasks_safety`: one task, two workers, two executions at a time, instants 1 and 3, two log
  rows, a stale window of one minute and a clock and starts up to 2: both workers fire the same instant, a
  manual run stands between, a crash, the wait for the window and the next claim all fit. That two
  entries of a task are of different instants, however late, is the theorem `InstantsRunOnce`. Executions
  of different tasks share nothing but the process. The liveness run has one worker and one instant.
  `QueueLimit <= Slack` is an assumption about the environment: a claim that waits longer than the 60
  seconds added to the grace looks back too short a time.
- `SchedulerLeader_leadership`: two workers, one task, expressions with instants {1, 2} and {2}, and a
  budget of four starts, stops, crashes, faults and edits: both workers start and two things go wrong. A
  leader treats its tasks independently.
- `RequestLifecycle`: three requests, one key, two bodies: two retries beside a first attempt, an upload
  with two removals. Requests are sent once; a retry is another request with the same key.
- `Catalog_safety`: two requests out of the operations of five tables, one dictionary with up to three
  entries, three posts, two keys, one fault; page sizes 1 to 3.
- `Access_safety`: two requests of a super admin, an administrator or a user, four users, three roles, three
  menus with a permission each, three departments of which one is below another, three starting
  tables in which the administrator holds one, two or three roles of different scopes.
- `TreeWrites_safety`: three rows, two requests: two opposite moves, a move against a removal, and a
  creation against a change of type. `MaxDepth` is the number of rows, so the recursive query returns
  everything, as it does in the code for trees of up to 64 levels. Nothing in the code keeps a
  tree that shallow: with a `MaxDepth` below the depth of the tree `Acyclic` fails, which is the
  premise `QueryIsComplete` of the theorem.
- `MenuSeed_safety`: two seeds of one of two versions of a manifest, one edit, one deletion of a lock's
  row, four ids, and three starting tables (empty, seeded by an older version, seeded and edited).

Symmetry is used only in runs without liveness, over requests, attempts, accounts or seeds that the
definitions never tell apart. Runs with CHECK_DEADLOCK FALSE are those where the ids, the log rows, the
clock, the budget or the requests are used up, and the system stops. `TreeWrites_safety` always goes on.

### Fairness

`RefreshTokens`: InnoDB grants row locks in order of arrival, so who waits gets a lock that is released
again and again (strong fairness of `FlushPassword`, `Acquire` and `DecideAny`); a deadlock is
detected, and what waits for nothing goes on (weak fairness of `Commit`, `DeadlockVictim`, `UserGone`).
Users, administrators, the clock and the clean-up need not act. `ScheduledTasks`: the same for the lock
of a task and for `Close`, weak fairness for the steps of an execution that wait for nothing and for the
clock. A handler need not end: only the time limit of `asyncio.wait_for` ends it, which is why
`EveryExecutionEnds` excepts executions without a limit. `SchedulerLeader`: weak fairness of the
controller's loop (the event loop runs what is ready and the poll period passes), of firing, of
executions that end, of the drain, and of MySQL giving up dead sessions; nobody has to start, stop or
edit, and faults are bounded by the budget. The other models state no fairness.

## Proofs

The proof modules follow one argument: an inductive invariant holds initially and is kept by every
action, and the properties are conjuncts or consequences of it. Constants are arbitrary within the
named assumptions of the modules (`BucketAssumption`, `SettingsAssumption`, `LocksAssumption`,
`StartsAssumption`, ...), which TLC evaluates on the instances.

**RefreshTokensProofs.** `IInv` adds to the table's properties what makes them inductive: from `locked`
to commit a request holds the bucket of its user (`LockHeld`), so no other request of that user
rewrites what it decided on; the rows a plan rewrites are still there, unrevoked and all of their family
(`RewritesOK`); the row it inserts has an id of its own and opens a family or continues the family of
the row it replaces (`InsertOK`); ids beyond `nextJti` are unused. Proved: `TypeCorrect`,
`OneLiveToken`, `ClosedIsClosed`, `ChainsOK`, `DeadlineHolds`, `RevocationFinal`.
`StoreKeepsSessions`: the table implements `SessionFamilies`. As a family has at most one row that is
not revoked, `LiveToken` is that row; a commit opens a family, moves one, or takes rows out of the unrevoked,
and the clean-up and the deletion of a user only do the last.
`CommitsKeepTheirWord` (`CommitsEstablish`): what was decided under the lock is still so at the commit.
`CInv` says it of each pending plan (`CapOK`, `ClosesOK`), against a table that others change meanwhile
and a clock that goes on: both only take families away. That a login leaves room for one more
is a matter of counting: families are ordered by their latest row, those with fewer than
`MaxSessions - 1` later ones are at most `MaxSessions - 1` (`RoomForOneMore`).

**TreeWritesProofs.** `Inv`: past the queue a request that takes the lock holds it (`LockHeld`), and
what it checked under the lock stays true until its commit (`TargetsOK`), because the writes that go
beside the lock only add department leaves, add menus at the root or move rows to the root. From it
`TypeCorrect` and `ButtonsStayLeaves`. `NoCycles` is conditional: `Spec /\ []QueryIsComplete =>
[]Acyclic`. Its strengthening `MovesSafe` says that for a move under way there is a set of rows around
the moved one that is closed under children and does not contain the new parent. Commits of others keep
such a set: they add leaves, remove leaves, or take a row to the root. A cycle closed by the move would have
to leave that set.
`TreesAreForests`, under the same premise: every commit is a step of `Forest`. `FKsHold` says that a
foreign key checked when a statement was flushed still holds at the commit: nobody else has written the row it
refers to, and a row about to be removed gets no children, because the row locks of the two statements
exclude each other. `MovesSafe` gives the set outside of which a row moves.

**CatalogProofs.** `CatalogInv` has the committed rows and, for each request, what it has staged and
where it is. Proved, for any tables, requests, constants and faults:

- `RowsStayConsistent` (`RowsAreConsistent`). Every request sees tables that are consistent, and what two requests
  have staged is apart (`Apart`): different rows, none that would collide, no new entry under a row the other has
  written. That is what `Waits` is for, and it makes a commit of one keep what the other sees consistent. It needs
  that an update leaves an entry in its dictionary and that primary keys are not given out again (`given`).
- `TrailIsTrue` (`AuditIsTrue`). `TrailInv` says per request what is on record, in the transaction and in the
  buffer. A failing commit empties neither the table nor the buffer on its own: the row goes with the transaction,
  and the error that comes out of it is not one that owes a row. `Owed` leaves out the two refusals that the
  code does not record: a deletion that meets the foreign key, and an upload over the limit.
- `NothingIsLeftHalfDone` (`NothingIsHalfDone`). Whoever clears the defaults of others has staged one of its own
  when it comes to its commit, or had read its entry as default (`SetItself`), which is the exception the property
  makes; an import has staged all of its codes or none (`WholeImport`).
- `LosersHearTheCheck` (`RacesAnswerLikeChecks`). What a rollback leaves a request to see is the table, and
  from which constraint failed follows which check would now refuse it. The proof found the exception the property
  makes: a dictionary that is filled and made built-in while its deletion is on its way is refused for its entries
  (foreign key), where the check would have named its protection. It takes three requests; the run has two.
- `EveryRowIsListedOnce` (`PagesCoverOnce`) and, beyond the sizes of the run, `EveryPageSizeListsOnce`. The orders
  are total on the rows of a table, so a row has one place (one more than the rows before it), whatever
  the order the database gives to ties, and a place is on one page.

**WorkerProofs**, the requests. `LifecycleInv` has two halves.
`Answers`: a completed entry was stored by an execution of the same key and body that is past its response and
therefore cannot fail any more. `Disk`: content belongs to an upload past its write and stays until its commit; a
row exists only after that commit; a removal has read the row, and its content is gone before it may commit.
Proved, from the assumption on names: `LifecycleTypes`, `NoForeignAnswers` (`AnswersMatch`), `OneWayToLoseContent`
(`LossNeedsRollback`), `OneWayToLeaveContent` (`OrphansNeedFailure`).

**MenuSeedProofs**, the locks. `LocksInv`: whoever has a row locked holds it after a SELECT that found it, so the
row is stored or this task's own insertion (`RowsHeld`), and who believes to hold a lock has it
(`HoldersHold`). Rows that nobody has locked may be deleted and insertions rolled back without touching
it. From it `LockIsExclusive` (`OneHolder`), for any tasks, processes and names.

**MenuSeedProofs**, the seed. `SeedsFollowProtocol`: every step of a seed or an edit is a step of the lock protocol or
leaves its variables alone, so `MenuSeed` implements `LocksSpec` and inherits its theorem. `Places` ties
where a task is to how far it is with its lock. `Known`, what a seed has read is complete until it
commits, is kept because an edit inserts no key and changes none (`Keyed`), and the commit of another seed
would make two holders of one lock. From them `SerialSeeds` (`SeedsAreSerial`), for any number of seeds,
edits, manifests and tables.

`SeedsApply` (`SeedApplies`): a seed that commits has applied its manifest. `SeedInv` (`SeedInvariance`) adds
three parts.

- `Data`: types of rows, of pending writes and of requests.
- `Progress`, for each seed by itself: what is left of the manifest is its end, and for what it has passed, in
  the table it sees, a key has one row (`OneRowEach`), each row is as the manifest says (`AsSaid`), and
  nothing but rows of passed nodes and removed menus has been written (`OwnRows`). A later node does not
  disturb an earlier one: its key is another, and its parent comes before it (`ManifestsAssumption`).
- `Table`, the seed beside the others: pending writes are on different rows and do not name each other's rows
  as parents (`Apart`), new ids are nobody's (`Fresh`), the table and what each transaction makes of it are
  trees with distinct keys (`Tree`), and what a seed has read is complete and still there unless `changed`
  has it (`StillTrue`). `TreeAfterFlush` and `TreeAfterCommit` are the two lemmas behind it: the foreign key is
  checked when a statement is flushed, against what its transaction sees, and the row locks make that
  check good for the table another transaction commits first.

At the commit all nodes are passed and no stale leaf is left, so the rows the seed has written are the
manifest's, up to what others committed meanwhile. What is stale and not a leaf is then a cycle, where the loop
over the leaves ends early (`rbac/seed.py:465`, "not reachable, the tree has no cycle"; `MenuSeed_NoCycles` is how
one comes about). The property excepts these rows because the proof needs it: it takes two stale menus, more than
the instance of the run has.

`GrantedAreShown` (`GrantedPagesAreShown`) is two things: `SeedInv` gives the types, and from the types alone
follows what is shown, for any menus (`TypesGiveShown`). `Down` is computed in as many layers as there are ids. It is
shown to be the smallest set that has its roots and is closed under children (`DownIsLeast`): layers that grow
must end within the number of ids (`LayersEnd`). With that, a page is reached when nothing above it is a button or
in a cycle by induction over what is above it, and the other way round because the reached pages are closed. The
induction theorems of the library take an operator and cannot be cited; the smallest
counterexample among finite sets (`Smallest`, from the well-foundedness of strict inclusion) takes their place.
The assumptions are the schema and the manifest: finitely many ids, starting tables that are trees
with distinct keys (`StartsAssumption`), and manifests that name a menu once, after its parent.

**WorkerProofs**, the election. `LeaderInv` says of each worker by itself what its parts say of each other
(`Sound`): a connection that is alive owns the lock, the leader flag is set exactly while
there is a connection, a leader has a scheduler exactly until it drains. Since the lock has one owner, two
workers with schedulers cannot both have a live connection. `DueInstants` keeps the types: what is fired
is an instant of the expression, for which a finite set of instants must have a last one
(`LastInstant`). Proved: `LeadershipHolds` (`Leadership`), for any workers, tasks, expressions and faults.
`InstantsFireOnce` (`NoInstantTwice`) adds `FiredPast`: what a worker has fired of a task lies in the past, and a
next instant is later than all of it. A replaced job starts at the clock, so it never goes back.

**LoginProofs.** `LoginInv` relates numbers that different attempts change in single Redis calls. `Counts`:
failures on record, with those of attempts between INCR and their last call, never exceed the counter, which
in turn is bounded by the attempts past their turn. `Unlocked`: without a lock, the
failures of the account with those that will not lock it stay below the threshold; the attempt that crosses
the threshold has to set the lock before its failure is on record. Hence whoever reads the
lock before the password and finds none had arrived below the threshold. `Spent`: a captcha somebody passed
is gone. `Blocks`: a counter of the address without a TTL is at most the number of faults spent and of
handlers that are about to set it. Proved: `GuardHolds` (`PasswordsAreGuarded`), `LogIsComplete`
(`EveryAttemptIsLogged`), and `BlocksHaveAnEnd` (`BlocksEnd`) under `Faults < IpLimit`, which is the
premise of the property and not of the model.

**ScheduledTasksProofs.** `TasksInv` says of each row of the log (`RowOK`), of each two (`PairOK`) and of
each execution (`RunOK`) what holds between any two statements. A scheduled entry bears the last instant of its
expression up to the moment its claim read (`TickOK`); a claim was triggered within grace and queue limit, so
with `QueueLimit <= Slack` it looks back far enough. Two entries of one task are in the order of their
claims and of different instants. What a claim has read under the lock of its task stays true until it is
entered (`EntryOK`), as others only end entries of this task meanwhile. Proved:
`InstantsRunOnce` (`OneRunPerTick`), `ExclusionIsKept` (`ExclusionHolds`), `LastRunsAreLogged`
(`LastRunIsLogged`) and `LogIsALedger`, that the log implements `TaskLedger`.

**AccessProofs.** `Inv` says of the tables that they are typed, that every pair has both ends and that one
user has the super flag and is active (`Tables`), and of each request that what it checked still holds
(`Checked`) and that what it staged is what it may write, to rows that are as they were (`Held`). That is
inductive because of two locks: rows that one request writes are neither written nor referred to by another
(`RowsApart`), and two replacements of one table are never under way at once (`BindingsApart`).

- `ManagementStays` (`ManagementIsKept`): the count of super admins is read without a lock, but no payload
  has the flag and no request ends the one who has it, so the count was not stale.
- `BindingsStayWhole` (`BindingsAreWhole`): between the deletion and the insertion of a replacement no pair of
  its subject comes in, and ids that were checked are checked again by the foreign keys.
- `NobodyEverGains` (`NobodyGains`): without the super admin's authority a commit adds no pairs but of users
  with posts, changes no menu and no role that is there, and moves users only where the operator sees.
  Hence everybody holds at most the roles from before, as they were (`PlainHolds`), and authority is monotone
  in the roles (`FewerRolesGiveNoMore`), however many commits came between the checks and this one.
- `LoadedAuthorityStaysReal` (`AuthorityIsReal`): an authority is a sum over the facts of the roles
  (`RolesSumUp`). As long as the tables have said one thing of an operator, what has been loaded by then is the
  part of that sum whose roles are no longer to be read (`PartRead`). It has to be one thing of the roles
  too: with the same authority, a department can move from one custom role to another between two statements
  and be missed.

Only model-checked:

- `EveryRequestEnds`, `EveryExecutionEnds`, `LeadershipSettles`: liveness; fairness and ENABLED are out of the
  prover's reach.

Every other property of the runs that pass is stated by a theorem.

## Not modelled

- Formats, display columns, messages, and the wiring of the application at its start.
- In `RefreshTokens`: login without a pepper (it issues no token). The clean-up and what administrators do
  to a user are one step each; the log row of a login is in `Login`.
- In `ScheduledTasks`: changes of a cron expression (they are in `SchedulerLeader`), and the validation of
  parameters.
- In `TreeWrites`: role bindings of menus and users of departments (they are in `Access`), fields other than
  parent and type.
- In `RequestLifecycle`: keys that are too long, and the client's view of a connection that breaks.
- In `Catalog` and `Access`: masking and the fields of audit rows, problem documents, encoding of tokens,
  hashing of passwords, parsing and formatting of Excel cells.
- In `MenuSeed`: the type distinction of directories and pages, the one built-in role, which the same
  lock protects.
- An administrator who resets a password ends no session (`user/service.py:118`): no comment says what
  should happen, and nothing in the models reads the password.
- Logging, settings, column types and migrations (no protocol state; constraints are guards of the
  models), development scripts (sequential, outside the running system), the browser client.

## Plan

What remains worth doing, in this order:

1. `RefreshTokens`, `ScheduledTasks` and `TreeWrites` over `AppLocks` instead of a lock variable, in the way
   `MenuSeed` is; the theorem `LockIsExclusive` is what they rest on.
