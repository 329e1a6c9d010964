# landing-api: specifications in TLA+

TLA+ modules that model the parts of landing-api where steps of several actors
meet: HTTP handlers, a queue worker, PostgreSQL transactions, the Redis cache and
the object store. TLC checks them on small instances; for seven of them TLAPS proves
the safety properties for every value of the constants.

* [1 The system](#1-the-system): components, state, operations, what is hard
* [2 The modules](#2-the-modules): what each models and how it maps to the code
* [3 The runs](#3-the-runs): questions, bounds, fairness
* [4 The proofs](#4-the-proofs)
* [5 Where code and documents disagree](#5-where-code-and-documents-disagree)
* [6 Not modelled](#6-not-modelled)
* [7 What is left](#7-what-is-left)

`PROJECT.json` has the same information for tools: the map from definitions to
source lines, the runs, the hazards with the properties aimed at them, and for
every checked property a *mutant*, a plausible bug with which the property fails.
Operators marked "seeded fault" in the modules are those bugs; nothing else uses
them.

## 1 The system

A NestJS API over PostgreSQL (Prisma), Redis, BullMQ and MinIO. A request passes
guards, validation, a thin controller and a service; the service talks to the
stores and every `await` lets another request in. Several instances of the API may
run at once. There is no unit test of any service, only an end-to-end smoke test.

| component | state | operations | what makes it correct |
|---|---|---|---|
| Jobs (`modules/jobs`) | rows Jobs and JobSteps, a BullMQ queue, the locals of a running handler | create a run, retry it; worker: execute a step, pass its output on, complete or halt the run | steps in order, each once at a time, on the outputs before it; a run is COMPLETED only when whole, FAILED only when it can be retried, and never stuck |
| Sessions (`auth.service`, `google.service`, `jwt.strategy`) | rows UserSessions, row locks | sign in (password, OTP, Google), refresh, log out, reset | at most `MAX_ACTIVE_SESSIONS`, the most recent ones; a reset ends all; no request waits for ever |
| One-time codes (`auth.service`, `mail.service`, `one-time-code.service`) | user row (attempts, block), OneTimeCodes, Redis | register, forgot, resend, verify, reset | a mailed code works, once; too many attempts block; a verified user is let in |
| Documents, categories | rows with a soft-delete flag and a reference | create, update, remove | no document in a deleted category; deleted rows stay as they are |
| Content (13 modules) | rows with soft delete | list, read, create, update, remove | what an update does not say it keeps, also beside another update; deleted rows stay as they are |
| Listing, pagination | none | search, filter, order, limit, skip, metadata | the pages are a partition of the listing |
| Files, MinIO | rows Files, objects of a bucket | upload one or many, read, recompress in place | a file that was answered is served; a failed upload leaves nothing |
| Guards, decorators of the controllers | none | let a request through to its handler | who changes the site holds a role that may |
| Roles | Roles, Permissions, UserRoles, RolePermissions | create, update, remove, replace grants | a replacement leaves one whole set |
| Users | Users | create, update, delete, link Google | one live user per email and per Google id |
| Redis service | Redis, a per-process map used when Redis fails | get, set, del, cache | a value set is the value read until it expires |
| Error and response pipeline | none | normalise, sanitise, wrap | no internal cause in a 5xx; one envelope |
| Websocket gateway | sockets and rooms | connect, disconnect, emit | a socket is in its user's room while connected |
| Mail, env, logger, swagger, start-up, seeds | none | I/O and wiring | |

How they interact: the HTTP handlers share rows with each other only through
PostgreSQL at READ COMMITTED, and only some use a transaction. Jobs hand over to
the worker by the queue, after the transaction. Codes live twice, in PostgreSQL
and in Redis, and the write to Redis is not undone by a rollback. Files live twice,
a row and an object, and no transaction joins the two. The guards read roles at each
request, but `isVerified` from a token made earlier. The content modules, the
documents and the files share no row that a check of another reads.

What is hard: (a) check in one statement, write in the next; (b) effects outside a
transaction (queue, cache, mail, object store) next to effects inside; (c) BullMQ's
at-least-once delivery; (d) READ COMMITTED visibility, row locks and deadlocks;
(e) crashes between any two awaits; (f) a statement that was carried out and
reported failed. `PROJECT.json` lists each place under `hazards`.

## 2 The modules

In all modules an action is the code from one `await` to the next (one statement of
a store), so that TLC interleaves requests exactly where the program can be
interrupted. Actions bear the names of the functions they come from, `pc` values
name the statement that is next. A failed check that only throws is the request
becoming idle. Data is cut to what the checks read: an output is the list of the
steps it was computed from, a session or a code is the number of its creation, a
block is "long", "short" (under a minute left) or "past", a value of a column is left
out, null, or one of two others, an object is its size.

**JobPipeline** models `jobs.service.ts` and `jobs.processor.ts`. `job` and `step`
are the tables, `queue` the log of BullMQ entries, each with the program counter of
the `process()` activation that executes it, `client` the requests. `createJob`,
`retryJobRead/Reset`, `requestEnqueue` are JobsService; `markRun` to `finishRun` are
`process()`; `haltStep`, `haltRun` are `onFailed`. BullMQ is external: an entry waits,
is taken by one of `Slots` workers, is retried until `MaxAttempts`, and is delivered
again after its worker died until `MaxStalls`. `Faults` selects the faults of an
instance: `worker` (a worker dies anywhere in `process()`), `store` (a statement in it
throws, carried out or not, save that the last one, which queues the next step or
completes the run, throws only before it takes effect: afterwards the entry would be
repeated as after a death, which `worker` covers), `halt` (`onFailed` is cut short),
`request` (an HTTP request is cut short between two awaits).

**JobRun** is the abstract promise for a run: start, advance in order, complete
after the last step or halt, resume. JobPipeline implements it by the mapping
`phase`, `total`, `done` at its end.

**Sessions** models the sessions of one user: the statements of `login`, `verifyOtp`,
`googleLogin`, `refreshTokens`, `logout`, `resetPassword` and `generateTokens`. A
request carries the rows its transaction has written and locked; others see them at
`commit`. A revoking UPDATE takes its rows one by one, waits for locked ones and looks
at them again. A circle of waiting requests, however long, ends by `deadlockVictim`. Sign-ins and resets
update the user's row first, which serialises them; a refresh does not.

**SessionList** is the abstract promise: a sign-in issues the newest session and keeps
only most recent ones, a refresh does so in place of the session it was asked with, a
reset ends all. `Spec` is the list without refreshes, which sessions_sign_in checks,
`RotatingSpec` the list with them (4).

**OneTimeCodes** models one email: `user` is its row (existence, verification,
attempts, block), `codes` the committed rows, `cache` the copies in Redis. `mailed`,
`handed`, `dropped`, `admitted` and `alone` are history: what was mailed, returned,
deleted from the cache and admitted, and whether requests have come one at a time so
far. A transaction holds the user's row from its first statement and publishes its
row writes at commit; writes to the cache appear at once and survive a rollback
(`crash`). Clients submit only an OTP that was mailed to them.

**ContentTypes** holds what differs between the thirteen content services, one record
each: what the DTO asks of a column, the expression create and update have for it,
what the Prisma model asks, the order of the listing, the columns of its search and
of its filters. `OnCreate` and `OnUpdate` are those expressions (`dto.x ?? null`,
`!== undefined`, `new Date`, casts) as functions of what the request said.

**ContentStore** is such a service, its table and its callers: `create`, `update` and
`remove` of several editors (find, then write), and a visitor who walks through the
pages of `findAll`, the page and its count being two statements. The service and the
followed columns are chosen at the start. An instance is a *history* of partial
updates or a *walk* while rows are added and removed; each follows what the other
needs not. `given` is history: for every column, the last thing a request said of it.

**DocumentLibrary** models both document services. Each handler is its check and then
its write. `contended` is history: the categories for which a request about to write
a document and a running removal have met.

**FileStore** models `files.service.ts` and the methods of `minio.service.ts` that it
calls: the row, the check of the object's name, which refuses some extensions
(`validated`), the look for the bucket and its creation, the object, the key, and the
deletion of the row on failure; `uploadMany` side by side under `Promise.all`; `getFile`
in its three statements; the recompression in place that a comment of it names.
`failUpload` fails any statement, carried out or not, and `die` ends the process.

**Routes** holds the decorators of every handler of the controllers, **Access** what
they do: `JwtAuthGuard` and `AuthGuard` in front of a handler, one database read
apart, while admins change roles, their permissions and the roles of the user
(`roles.service.ts`). `deleteMany` and `createMany` of a replacement follow PostgreSQL:
`saw` is the rows the first sees, less those that a rival deletes meanwhile; a row the
rival creates in their place is another one, which it does not see. `dropped` is what it
deletes after waiting for its rivals; a key that is still there makes `createMany` fail.
`ever` and `always` are history: roles the user has held at some or at every moment
of the check; `beside` is what others have committed during a replacement.

**MCSite** puts the content modules, the library and the files into one run: they
share no state, so one is chosen at the start. It has a second instance of ContentStore,
whose visitor takes one row a page. **MCJobPipeline**, **MCSessions**,
**MCOneTimeCodes** and **MCAccess** instantiate the others. They define the symmetry
of interchangeable requests, files and ids, which is used only where no liveness is
checked. The `*_proofs` modules hold the theorems.

## 3 The runs

| run | instance | question | answer |
|---|---|---|---|
| jobs_chain | 1 run, up to 3 steps, 2 workers, 3 attempts, 2 retries one at a time, 2 faults of store, halt, request | do steps run in order on the whole chain of outputs, is a settled run whole or retriable, is completion final, does the run settle? | yes; a run is stranded only if `onFailed` or a request was cut short |
| jobs_refine | 2 runs, 2 clients, 2 workers, 2 steps, 1 retry, no fault | do the rows implement JobRun, progress included? | yes |
| jobs_faults | 1 run, 3 steps, 1 worker at a time, dying twice | what survives redelivery? | steps are first started in order and none is skipped; the run settles or BullMQ gives it up |
| jobs_double_retry | 2 clients retry one run | do steps execute sequentially? | no, see 5 |
| jobs_redelivery | a worker dies after it enqueued the next step | is each output computed from the one before? | no, see 5 |
| sessions_sign_in | 3 requests, limit 2, 5 sessions, 1 expiry, 1 rollback, no refresh | limit, reset, refinement of SessionList | hold |
| sessions_refresh | 2 requests of all kinds, limit 2, 6 sessions | how far can the limit be missed, does every request end? | by less than the number of requests in flight; yes |
| sessions_excess | a sign-in and a refresh, limit 3 | is the limit kept with refreshes? | no, see 5 |
| codes | 2 requests, 4 codes while they come in turn, 3 once they have met, 2 crashes | does a mailed code work; admission, blocks | yes, until a request deletes it; in turn, a code admits once, a block has its attempts and stops new codes |
| codes_claim | 1 request, 2 codes | do the tokens of verifyOtp say verified? | no, see 5 |
| site | content: any service, 2 editors, 3 rows, 3 writes, pages of 2 and, for chronology and experts without removals, of 1; library: 2 requests, 2 documents, 2 categories; files: 2 files, 2 uploading requests, 1 visitor, 2 failures, 1 death | do updates merge, do pages partition, what hides a row from a walk; orphans, late writes; what do failed uploads leave, what can be read? | updates merge and deleted rows are final; a quiet walk shows all, a growing table hides nothing but for a torn count; an orphan document needs an overlap; a row without object needs two mishaps or a death, an object without row a put reported failed; an answered file is served, its length right unless it shrinks in between |
| access | 1 user, 1 permission, 2 admins' requests at once and in all, 4 roles | can a replacement leave a mixture, can the guard misjudge? | no: one whole set and what others committed meanwhile; admission needs a role held at some moment, refusal is never of one held all along |

Why the bounds are enough to be of interest. Three steps give a first, a middle and
a last one; two steps are enough for a second driver to fall behind the first. Two
stalls are one more than BullMQ allows. A limit of two sessions with five or six ever
created lets the list overflow more than once; three sign-ins give every pair a
bystander. Four codes let register and forgot pass the third attempt and resend block
at it; three allow two requests to replace each other's code. Three rows on pages of
two give a full and a partial page; on pages of one, a walk over two rows goes on after
a third has come in between its pages. Three writes allow an update between another's
find and its write. In the library each id has a second one to be mistaken for. Two failures
let a rollback fail. Four roles are the three of the seed and one made by an admin,
which may be called Admin, as the guard compares names in lower case. The bounds stop
requests from *starting*; they never cut one short, so no request ends because a
bound was met. For most of these properties a proof covers every size (4).

What the answers leave open. The properties of `codes` that say `alone` are claimed for
requests that do not overlap. Without that TLC finds each of them violated: two
verifications read a code from the cache before either deletes it, an attempt counted
from a stale row stands beside another request's block, and a request that passed the
check generates a code after another has blocked the user. `MailedCodesWork` accepts a
code that was deleted from the cache by a transaction that was then rolled back,
because the code does exactly that (`mail.service.ts:79`). `BlockIsEarned` has no
converse: only `resendOtp` ever sets a block. `OrphansComeOfOverlap` and the two
properties about halves of a file say when they can arise, not that none does.
`QuietWalkShowsAll` and `AdditionsHideNothing` exempt listings with ties, between which
PostgreSQL may choose anew for each page; five services order by a date alone.
`ReplacedWholesale` allows the union of two overlapping replacements: the second deletes
the rows it saw at first, not those the first has created meanwhile, and adds its own.
`AnsweredFilesServe` excepts an object that is recompressed between the question for its
length and that for its bytes, and `RefusalsHaveCauses` names the two ways in which an
upload is refused without a failed statement: its name and the race for the bucket.

Deadlock checking is off in every configuration: the system may stop when nobody sends
a request, and every instance stops when its bounds are reached. That waiting
requests go on is a liveness property (`RequestsEnd`, `WorkerFaultsNeverStrand`).

Fairness. Jobs: weak fairness of the worker (BullMQ polls as long as a process runs,
handlers return or throw) and of requests that have started; none for creating or
retrying. `haltIsLost` and `requestIsLost` are how such obligations may end instead.
Sessions: strong fairness of each request's statements, as PostgreSQL grants a row
lock in the order of the queue, so a waiter whose lock is free again and again gets
it, and weak fairness of the deadlock detector, a timer of the server. All others:
safety only.

## 4 The proofs

Every invariant and every action property of the passing runs is also a theorem,
`WorkerFaultsNeverStrand`, `RequestsEnd` and the progress half of `ImplementsJobRun`
being liveness and therefore TLC's. Each proof module states an inductive invariant,
shows it step by step for each action, and derives the properties from it. Each part
of an invariant was checked by TLC before it was proved. The assumptions are those
named in the modules (`PipelineAssumption`, `SessionsAssumption` and so on: bounds are
naturals, limits are positive, sets of ids do not meet), and what follows here.

**JobPipeline_proofs.** Two things can put a run into several hands, and jobs_double_retry
and jobs_redelivery show each of them do it: two requests to retry the same run between
the check and the transaction of `retryJob`, and the new delivery of an entry whose
`process()` has already returned. The theorems are about the behaviours without them:

    Disciplined == []RetriesApart /\ [][ReturnIsRecorded]_vars

Everything else may happen, in any number: clients retry one run after another, workers
die at every statement before the return, statements throw (2), `onFailed` and requests are
cut short. `OrdinaryRunsAreDisciplined` names constants for which every behaviour is
disciplined, those of jobs_chain and jobs_refine among them; its proof counts the
retries. Type correctness needs no hypothesis. The properties one cares about are not
inductive: that a started step has COMPLETED predecessors depends on where the entry
that starts it stands. The missing part of `PipelineInv` is `DriversAtFrontier`: whatever
drives a run (an entry or a request about to enqueue) stands at the run's frontier,
earlier steps COMPLETED, later ones PENDING, the run open, the local result being the
whole chain. With `OneDriver`, an action of one driver cannot invalidate what another
assumes. The proof takes each action for the run it writes (`RowsOK`, `DriverOK`) and
shows that all other runs keep still. Further:

* `RowsImplementJobRun`: disciplined rows implement the safety half of JobRun if no
  entry is interrupted between saveResult and its return (`NoRepeats`). After that the
  entry marks its step PROCESSING again, which JobRun never does to a completed step.
  `FaultlessRowsImplementJobRun` is the instance without such interruptions and with at
  most one retry, that of jobs_refine for all sizes.
* `NothingIsSkipped`: with `NoRetries` alone, whatever dies, throws or is delivered
  again and with any number of clients, steps are first started in their order, and a
  run is called COMPLETED only when each has been. A step once started is never
  PENDING again, so that what findNone saw still holds when finishRun writes
  (`StartedInv`). `DisciplinedRunsSkipNothing` has retries instead. With retries and
  redeliveries together it is false: TLC finds a retry that resets the FAILED step to
  PENDING while an entry delivered twice works behind it.

**Sessions_proofs.** Sign-ins and resets update the user's row first, so that each
excludes the others; a refresh does not: sessions_excess is what comes of a refresh beside
a sign-in. Two hypotheses about a behaviour say of what refreshes it is free:

    CreationsApart   no transaction of a refresh overlaps one of a sign-in or refresh
    ResetsApart      no transaction of a refresh overlaps one of a reset

A transaction reaches from its first statement to its commit; logouts, and requests that
have yet to begin theirs, may always be there. Both are no assumption where sessions are
not refreshed or requests come in turn (`OrdinaryRefreshesAreAlone`). From its scan on, a
transaction that meets no other commit keeps, has revoked or is to revoke every active
session (`Covers`). The first hypothesis makes that so of sign-ins and refreshes, hence
the limit (`TheLimitIsKept`), the second of resets (`ResetsLeaveNone`). With both
(`RefreshesAlone`) there is one transaction at a time, and what it has read of the
sessions still holds, though a logout may take one away (`SerialInv`): each transaction
has the effect of one step of SessionList (`TransactionsAreAtomic` with refreshes,
`SignInsAreAtomic` without), and nobody is deadlocked (`DeadlocksComeOfRefreshes`): who
waits, waits for the open transaction, and that one for nobody.

For every overlap
`ExcessAlwaysBounded` says how far refreshes can miss the limit. The limit plus one per
rival is not inductive, since a session that is still to be revoked counts too.
`MissInv` speaks of every set S of transactions that have read the sessions to keep:
the active sessions that none of S is going to revoke, and S itself, are together at
most `MaxActive` + the number of clients - 1. The empty S is the theorem.

**OneTimeCodes_proofs.** `MailInv` carries `MailedCodesWork`: a code whose row is still
to come belongs to one request, and is cached before its row is committed. `AloneInv`
carries the three properties of requests in turn: what the only request has read of
the user's row, of its block and of the submitted code is still so. `ExistsInv` says
what there is before the user exists.

**ContentStore_proofs.** `RowsInv`: the rows, the requests and `given` fit the tables of
ContentTypes, and every row is what one creation with all that was given would be
(`UpdatesAlwaysMerge`). `QuietInv` and `GrowthInv` are about the visitor: what was seen
so far are the first pages of one listing; while rows are only added, the rank of a row
in the listing never falls, so that what was there at the start is on a page already
turned or still to come. Proved for any number of editors and rows and any page size.

**DocumentLibrary_proofs.** `LibraryInv`: a removal remembers that it counted no document
(`RemoversSawNoDocument`), a writer that it saw the category (`WritersSawCategory`), and
both may be wrong only if they have met (`MeetingsNoted`).

**FileStore_proofs.** `FileInv`: for each place where an upload can stand, what the two
stores hold, what failed and what is unsure, and what else can undo it (`Excused`); that
the files of an answered request are stored; and what a fetch has learnt: the length of
the object as it is, or the object has shrunk since.

**Access_proofs.** `CheckInv`: the guard judges on the roles of one moment, which lies
between the watched extremes. `TableInv`: a replacement that is about to commit has
dropped every row that is not `beside` it (`Covers`).

Out of the prover's reach: liveness and ENABLED. The claims of the four `violation`
runs are refuted by TLC's traces.

## 5 Where code and documents disagree

1. *Two retries, two drivers* (`jobs.service.ts:134`, run jobs_double_retry). retryJob
   checks FAILED before its transaction and resets without a condition. Two concurrent
   retries enqueue the step twice and two steps of a run execute at once, although
   `schema.prisma` calls them sequential. A condition on the status in the UPDATE would
   do.
2. *Redelivery skips ahead* (`jobs.processor.ts:101`, run jobs_redelivery). A
   redelivered entry looks for the first PENDING step; the next one being PROCESSING, it
   enqueues the one after it, whose handler gets a null previous result.
3. *One session too many* (`auth.service.ts:275`, run sessions_excess). A refresh does
   not touch the user's row; a sign-in and a refresh miss each other's session.
4. *Verified, but not in the token* (`mail.service.ts:81`, run codes_claim). verifyOtp
   makes its tokens of the row read before the update; AuthGuard, which reads the
   claim, refuses the user just verified until the next refresh.

Met while modelling, mostly without a sentence in the repository that contradicts it:
resendOtp mails nothing and deletes the code that was mailed; register and forgot never
set a block; dateDiff ends a block when less than a minute is left; a failed
verification leaves its code deleted from the cache. retryJob takes FAILED runs only, so
that a run whose request was cut short before it queued the entry stays as it is for
good. The listings of five services order by a date alone: two equal dates may put a
row on two pages and another on none. The comment at `roles.service.ts:227` says that a
user's roles are replaced wholesale; when two replacements overlap, the second may add
to what the first has just committed.

## 6 Not modelled

* *Jobs*: a lost BullMQ lock (two activations of one entry at once), the work of the
  handlers, the listing of runs.
* *Sessions and codes*: JWT signing and password hashing are assumed to work; wrong
  OTPs change nothing; the soft deletion of a user under a request, which leaves the
  sessions active; the password that login compares before its transaction.
* *Content*: findById and uniqueness of slugs; bodies that differ in what no property
  tells apart; empty arrays for a required text; a null status, which the database
  refuses with a 500; a missing title of the DTOs that have only `@ValidateNested` is
  modelled as passed on, what the database stores of it is not.
* *Files*: optimizeImage, the download log, headers of error responses, methods of the
  object store that nothing calls. A missing object is taken to be recognised by
  `isNoSuchKey` when stat and get report it.
* *Guards*: required permissions (`RequirePermissions` is on no handler); `isVerified` in
  Access (OneTimeCodes has it).
* *Users*: administration and Google linking are one row at a time, and the email's
  uniqueness is a constraint of the database.
* *Redis fallback*: a value set while Redis is down is in one process and may be missing
  later. The code promises nothing across that change.
* *Errors, gateway, mail templates, logging, environment, swagger, start-up, seeds*:
  translation, I/O or wiring without state of its own.

## 7 What is left

1. `Users`: email uniqueness over deleted rows, Google linking, deletion against
   sessions; composed with Sessions.
2. `RedisCache`: Redis and the per-process fallback, abstractly one register; then
   OneTimeCodes over it.
3. JobPipeline: activations of one entry that overlap after a lost lock.
