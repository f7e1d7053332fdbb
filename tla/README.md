# Formal model of facets-api

TLA+ models of the parts of facets-api whose correctness depends on the order of things:
account balances and their snapshots, one-time codes, sessions, registration beside the seed script,
avatars, workspace files, and the pipeline of requests with its handlers. TLC checks the models on
small instances (`*.cfg`); TLAPS proves most of their safety for every value of the constants
(`*Proofs.tla`). Paths below are relative to `src/src/` unless they say otherwise.

The application is a NestJS service: stateless handlers over PostgreSQL (Prisma) and an
S3-compatible bucket (R2). Any number of instances serve requests at the same time, and inside one
instance requests interleave at every `await`. So all concurrency is between handlers that
share rows or objects, a handler sees what it read before its last `await`, and what is not in one
transaction can be cut in half by a failure. That is what the models keep.

## Inventory

| component | state | operations | what is hard | what makes it correct | module |
|---|---|---|---|---|---|
| Account balances, one request at a time (`modules/account-balances`) | `account_reconciliations`, `account_daily_balances`, `Account.currentBalanceCached` | create, update, delete a reconciliation, each followed by `recomputeFromDate`; `getBalanceSummary` and lists | derived rows rebuilt over a range of days that depends on the rows themselves | snapshots chain, reconciled days close at their targets, the cached balance is the last closing, no day is lost; a summary differs from itself only beside a commit | `AccountBalances`, `BalanceLedger`, `BalanceSummaries` |
| The same under concurrent requests | the same, row locks | the same, statement by statement | overlapping recomputes at READ COMMITTED; deadlocks, unique conflicts, retry of P2034 only | nobody waits for ever; a request that runs alone repairs what overlapping ones left | `AccountBalancesConcurrent` |
| One-time codes (`modules/otp`) | `otp_codes` | `generate`, `verify` | check and write are separate statements, generation is two | a code over when a call began is refused; limits exceeded only by overlapping calls, by a bounded amount | `OneTimeCodes` |
| Sessions (`modules/auth`) | `refresh_tokens`, `User.password`, status and membership | `login`, `refreshTokens`, `logout`, `logoutAll`, `resetPassword` | `Promise.all` over independent statements, no transaction, token stored long after the checks; where the cookie goes | a rotated token is revoked, late requests refused, a reset ends the sessions it can | `Sessions` |
| Registration and user lifecycle (`auth.service.ts`, `modules/users`) | `users`, `workspaces`, `workspace_memberships`, `workspace_settings` | `register`, `verifyEmail`, `resendVerification` | e-mail read outside the serializable transaction; a verification racing another one and a suspension | one user per e-mail, with all of its workspace or none; a late verification changes nothing | `Registration` |
| Seed (`src/prisma/seed.ts`) | the same tables, catalogue, plans, subscription, profile | `main`, dry or real | no transaction but the admin's; runs overlap, crash, and meet whatever is there | a run that nothing disturbs establishes everything and reports it; never two default plans | `Seed` |
| Avatars (`auth.service.ts`, `users.repository.ts`, `storage`) | `UserProfile.avatarStorageKey`, objects of the public bucket | `uploadAvatar`, `removeAvatar` | two stores, any call may fail after its effect | the profile's object exists, no object is forgotten | `AvatarStorage` |
| Workspace files and their cleanup (`storage`) | `files`, objects | `upload`, `deleteWorkspaceFile`, `cleanupSoftDeletedFiles` | two stores, job beside job, files that never delete, retention | active files keep objects, rows outlive objects, deleted files go in the end | `WorkspaceFiles` |
| Guards, roles and request pipeline (`common`, `jwt.strategy.ts`, `main.ts`) | access, the process's phase | four guards, validation, timeout, filter, shutdown | the timeout answers while the handler goes on; roles change during a request | an answer tells what was written; writes only for those entitled | `RequestPipeline` |
| Accounts (`modules/accounts`) | `accounts` and their typed profile | create, update, archive, reactivate, reads | status read, then written | overlapping updates never undo each other's columns | `Accounts` |
| Workspaces and preferences (`modules/workspaces`) | `workspaces`, settings, preferences | updates and upserts of independent columns, reads | write and read of the answer are two statements; a workspace without settings has no answer | the same, and a refusal after a write only where there are no settings | `Workspaces` |
| Profile and onboarding (`modules/me`) | `user_profiles` | profile, onboarding | date and country read, then written | the date moves only on request or beside another update | `Workspaces` |
| Health (`health`) | one flag | two probes against a timer | race of answer and timer; the pool closes before the flag is set | no success once the shutdown has begun | `Health` |
| AI and voucher analyzer (`ai`, `modules/voucher-analyzer`) | none | one call to a gateway, normalisation of its reply | the places and forms of a reply | what is shown was in a valid reply | `VoucherAnalyzer` |
| Reference data, mail, database and configuration | none of their own | reads, output, wiring | - | - | not modelled |

How they interact. `resetPassword` and `verifyEmail` (`Sessions`, `Registration`) call
`OtpService.verify` (`OneTimeCodes`) and go on only when it accepts; `Sessions` starts a reset there,
and `Registration` keeps the newest usable code of an e-mail. `verifyEmail` ends in the login of `Sessions`.
The JWT strategy reads user and membership rows that no code in the repository suspends: the models
let the environment do it (`ChangeAccess`, `Disturb`). Registration and the seed write the same tables;
`Seed` EXTENDS `Registration` and adds its own, so that both run side by side over one e-mail. `Server` composes
`RequestPipeline` with `Accounts`, `Workspaces`, `Health` and `VoucherAnalyzer`: every handler
runs behind the guards and beside the timer. Balances read the transactions table, which
is loaded outside the application: `AccountBalances` lets the environment change it
(`ChangeTransactions`); in `Accounts` a recompute of the balance is an action beside the requests
(`Recompute`). Avatars share the profile row with `me`, on other columns. Mails are fire-and-forget:
a failure is logged, no state depends on them but the code they carry (`LoseMail`).

## Modules

**BalanceCalendar** holds what the two balance modules share: days as `1..MaxDate`
(`account-balance-date.utils.ts` normalises to UTC midnight and only ever adds days), the table of
reconciliations with ids in `createdAt` order, `Effective` (the newest of a day) and
`CarriedInto` (closing of the previous snapshot or the initial balance).

**AccountBalances** runs one request at a time. `CreateReconciliation`, `UpdateReconciliation`
and `DeleteReconciliation` are the handlers up to the loop of `recomputeFromDate`: they compute the
reconciliations the transaction will publish, the last day (`ThroughDate`), the first one
(`StartDate`), drop the rows from there and carry the opening balance. `MaterializeDay` is one
turn of the loop, `Commit` publishes everything, `Abort` nothing. `stale` is a ghost: the days
whose transactions changed since a recompute that owes them.

**BalanceSummaries** EXTENDS it with one `getBalanceSummary` after the other: `FindAccount` and
`FindLatestDailyBalance` are its two statements, which are in no transaction, and any step of a request
may come in between (`Beside`); `Answer` is what the second answers. `call.beside` is a ghost: something was
committed since the first.

**BalanceLedger** is the promise, without snapshots or ranges: the balance is the replay of
counted transactions and of each day's newest reconciliation. `AccountBalances` states
`RefinesLedger` with `counted <- Counted` (what the snapshots say) and
`balance <- currentBalanceCached`.

**AccountBalancesConcurrent** is the same handlers statement by statement, in PostgreSQL
transactions at READ COMMITTED. `request[w]` holds what the handler `w` has read, written and
locked. A statement sees committed rows plus its own (`Seen`); `Write` waits for a row lock;
`deleteMany` picks rows (`SelectRows`) and then waits for those that others delete (`DeleteRows`);
`createMany` inserts row by row and waits on a day somebody holds, or fails on a day that is taken
(`UniqueViolation`). `DeadlockVictim` is PostgreSQL's detector together with `runWithRetry`.
`updateAccountCurrentBalance`, `touchWorkspaceFinancialData` and COMMIT are one step: both rows
are locked at the end, in that order, so the last to write is the last to commit.

**OneTimeCodes** is `generate` (invalidate, create) and `verify` (find, check, then increment or
mark, answer) for one user and purpose, with any number of calls. A code is its row's number: codes
are taken to be distinct, and a guess is one of them or wrong. Rows expire in any order, since
every instance sets and compares `expiresAt` by its own clock.

**Sessions** is one user's `login` (user, membership, token), `refreshTokens` (token, then
revocation, user and membership in any order, then the new token), `logout`, `logoutAll` and
`resetPassword` (password and revocation in any order). A password is the number of the reset
that set it. `Platforms` says what the devices run: a browser sends its refresh cookie only to the path it was
set for, which is not that of `logout`; `left` holds the tokens of browsers that were told they are
logged out. `issue` is a ghost that remembers how a token came about; `late` and `denied` of a request remember
that its token was over when it began, and what has not been active since. `Cut` ends a request
anywhere: a statement of a `Promise.all` that fails does not stop the others, so any subset of them
may have run.

**Registration** is `register` (e-mail check, then workspace, user, membership with settings,
commit: one SERIALIZABLE transaction, a step per statement), the verification mail in the background,
`resendVerification`, and `verifyEmail` up to its login (user, code, use, status, workspace). E-mails have
several spellings, lowered before they are stored. `locked` is what PostgreSQL holds for an open transaction: the
row of a user, or the index entry of one being inserted; whoever meets it waits, then fails on the unique
e-mail or on serialization. `Cut` ends a request anywhere, `Disturb` suspends and deletes from outside.

**Seed** is `main` of the seed script: currencies, countries, plan, super admin, report. A row holds
"absent", "other" or "seeded", which is all that the script's comparison tells apart, but for the free plan:
it is "renamed" when it differs in what a subscription copies of it (id, code, name, currency), and a
subscription is "renamed" when it is a copy of that. The script reads the free plan once more after the admin
(`ReadPlanAgain`) and compares the subscription with it as read (`Against`); in a real run it has been restored by then.
The super admin may edit his settings and profile through the application (`EditSettings`, `EditProfile`),
plan and subscription are edited by hand. Only the admin is written in a transaction. `before` and `alone` are ghosts of a run: the database when it began, and whether only this
run has changed it since.

**AvatarStorage** is `uploadAvatar` (object, profile, previous object) and `removeAvatar` (profile,
object). The profile's transactions are SERIALIZABLE and hence one step each. `PutFails`,
`ReplaceFails`, `RemoveFails` include the failures reported after the effect; `doubtful` and
`leftover` are ghosts that mark what such a failure may leave.

**WorkspaceFiles** is `upload` with its rollback, `deleteWorkspaceFile` (find, then mark by id) and
the job: its batch is the oldest due rows, a set of files with their places in the order of deletions,
taken from the oldest on; for each it deletes the object, then the row. Time
is the order of deletions: `cutoff` is the newest deletion that is a day old. `Scheduled` says whether anything
starts the job.

**RequestPipeline** is what every request goes through: `Receive`, `Guard` (strategy, membership,
platform role, workspace role), `TimeOut` of the interceptor beside the validation of the body
(`RefuseMalformed`: pipes run beneath the interceptors) and beside the handler, `Fail` (a statement the database refuses, answered 500 by the filter), and around them
`ChangeAccess`, `Disconnect` and `Stop`: on shutdown the pool is closed first, and the server stops listening
only later. `request[w]` keeps where the handler is and what the client was told; a handler is written
with `Statement` (needs the database), `Go`, `Answer` and their variants that commit a write. A client
that got 408 is told nothing more (`Ended`). `entitled`, `late`, `wrote` and `overlapped` are ghosts.

**Accounts**, **Workspaces**, **Health**, **VoucherAnalyzer** are the handlers, one action per
statement: the row read before (`existing`, `read`) is kept per worker and used after. A body is the set
of what it contains. `Workspaces` also has the profile and the onboarding of the caller; the date of
onboarding is a number, 0 if not completed. Whatever shows a workspace shows its settings and answers 404 when there
are none (`AnswerWithSettings`): registration and the seed always write them, but schema and code allow a
workspace without, so `Beginnings` has one. `VoucherAnalyzer` enumerates the places a reply may hold the
model's answer in, and the forms of a text that holds it; `Normalized` says which of them
`ai-response-normalizer.ts` understands, and which replies it takes as a whole for the answer (`Envelope`). **Server** composes them, lists the bodies of each route, and states the properties.

`AccountBalancesProofs`, `AccountBalancesConcurrentProofs`, `OneTimeCodesProofs`, `SessionsProofs`,
`AvatarStorageProofs`, `WorkspaceFilesProofs`, `SeedProofs` (with `Registration`) and `ServerProofs` hold the proofs; `MC*` give the constants their values.

Definitions that begin with the comment *Faulty variant* are not part of a specification: each is a
plausible bug, and putting it in the place of the definition that follows breaks a property. They
show that the properties notice.

## What the runs check

| run | shows | size |
|---|---|---|
| `AccountBalances` | every layout of transactions (none, or in and out) on 3 days, 2 reconciliations, 2 targets, 1 change of transactions, summaries at any time: the invariants of the ledger, `SnapshotsNeverVanish`, `PastUntouched`, the refinement, and what a summary tells (`SummaryTornOnlyBeside`) | 1.0 M states |
| `Concurrent` | 2 workers, 3 requests, 2 days, on an account with nothing or with everything materialised: no request waits for ever (`RequestsEnd`), one that runs alone repairs what overlapping ones left (`AloneRealigns`), no day is lost, and once the last day is materialised its row serialises the recomputes (`CacheAlignedBehindLastDay`) | 63 k |
| `ConcurrentCache`, `ConcurrentStaleDate` | two violations, see below | - |
| `OneTimeCodes` | 2 calls, 3 codes, 2 attempts: how far overlapping calls pass the limits, and no further | 2.6 M |
| `Sessions` | 2 requests, 2 tokens, 2 turns (resets, suspensions, expiries): `ResetEndsSessions`, `UsedTokensRevoked`, `LateRequestsRefused` | 1.3 M |
| `WebLogout` | a violation, see below | - |
| `AvatarStorage` | 2 requests, 4 uploads | 44 k |
| `WorkspaceFiles` | 2 requests, 2 jobs, 3 files (one never deletes), batch of 2, 4 deletions, 1 failure; `DeletedFilesCleaned` is liveness | 118 k |
| `FilesNeverCleaned` | a violation, see below | - |
| `Bootstrap` | 2 requests and 2 runs of the seed on one e-mail in two spellings, from every initial catalogue and default plan: `RegistrationsWhole`, `OneDefaultPlan`, `LateVerificationsRefused`, `SeedEstablishes`, `SeedReportsTruth` | 318 k |
| `Server` | 2 requests side by side on routes that share state, 2 callers, 1 change around them: `AnswersTellTheTruth`, `WritesEntitled`, `LateProbesFail`, `AnalysesFaithful`, `ColumnsKept`, `OnboardingKept`, and `RequestsAnswered` (liveness) | 664 k |

**Bounds.** Every bound is a constant and a guard; the `Max...` bounds stop new requests, not running ones.

* Balances: three days are the smallest calendar with a day before, on and after the affected one;
  two reconciliations give two on one day, moves across a day, and removal of either. Two workers
  show every pairwise race, and the handlers know nothing of each other but the rows; a third request follows
  the two and shows the repair.
* Codes and sessions: three codes let two generations overlap on top of an older code. Two tokens are a refresh
  with its successor; two turns are two overlapping resets, or a reset beside a suspension or an expiry.
* Files: a batch of 2 with one file that never deletes and two that do is the smallest case in which
  starvation could show.
* Bootstrap: one currency and one country that refers to it, one e-mail that is also the super admin's,
  four requests where a seed run counts for two, one suspension, deletion or edit from outside. So two runs overlap, or
  one runs beside a registration with its verification.
* Server: an administrator with the platform role and a guest without, of whom only the membership is
  suspended (the strategy treats the three rows alike); `Areas` lets two requests overlap only on
  routes that share state, as others cannot meet; the account is a loan, which has a profile, and accounts of
  cash have none; `Beginnings` are a workspace with settings and a date of onboarding, and one with neither, as
  no route touches both. One change: a role, a suspension, a failure, or the shutdown.

**Deadlock** is not checked by TLC's option, because the requests are bounded and the models stop
when they are used up; that nobody waits for ever is `RequestsEnd`.

**Symmetry** is used on workers (and seeders) in runs whose properties are invariants and action properties.

**Fairness.** `AccountBalancesConcurrent`: weak fairness of every statement that is not waiting
and of the deadlock detector; PostgreSQL runs statements and breaks cycles after
`deadlock_timeout`. Nothing forces a request to arrive or a failure to happen. `WorkspaceFiles`: time
passes, the scheduler fires again and again (`Cleanup`, only when `Scheduled`), a running job and a
running deletion go on. `Server`: only the timer of the interceptor, which fires whatever the handler
waits for; statements and the gateway may never answer. Safety properties use no fairness.

## Disagreements with the documentation

1. `ConcurrentCache`. On an account without snapshots, two overlapping creates on different days
   delete nothing in common and insert disjoint rows. Both commit; the last one writes the closing of its own
   last day over `currentBalanceCached`, although a later snapshot exists.
2. `ConcurrentStaleDate`. A PATCH without a date recomputes from the date it read before it waited
   for the row. If another PATCH moved the reconciliation to an earlier day meanwhile, that day keeps its old
   closing.
3. `WebLogout`. The refresh cookie is set for the path of the refresh route, so a browser does not send it
   to `logout`, which then revokes nothing, clears the cookies and answers with success. Mobile clients send the
   token in the body and are not affected; neither is the e2e test, which does the same.
4. `FilesNeverCleaned`. `cleanupSoftDeletedFiles` relies on `@Cron`, but no module imports
   `ScheduleModule.forRoot()`: the job is never started.

Limits of what holds, which the properties state rather than a run:

* A login or refresh past its checks while a password is reset stores its token after the reset has revoked all of
  them, so "all active sessions will be terminated" is true of the others only; `ResetEndsSessions`
  says exactly which may survive.
* Codes are superseded, counted and used by separate statements: overlapping calls pass the limits by as
  many as overlap. A verification that overlaps another can lift a suspension.
* 408 and 500 do not tell whether the write took place. Every other answer does, but one: the new name of a
  workspace that came without settings is committed, and then answered 404 "Workspace settings not found"
  (`workspaces.service.ts:134`). `AnswersTellTheTruth` names that case (`NotShown`) and allows no other.
* `getBalanceSummary` reads the account and the latest snapshot in two statements: when a reconciliation commits in
  between, the answer holds the balance from before it and the snapshot from after it, although
  `src/docs/account-balances-quick-test-plan.md:322` expects of it that the two are aligned.
  `SummaryTornOnlyBeside` says that nothing else tears them apart, and that the difference fits the snapshot even then.
* A dry run of the seed compares the subscription with the free plan as it finds it. When that has been renamed, or its
  currency changed, since the last seed, it reports "update" where a real run, which restores the plan first, reports
  "unchanged". `SeedReportsTruth` leaves out that part in that state (`Foretold`).
* Until the strategy has read the database a request has no timer: `RequestsAnswered` begins past the guards.
* `src/prisma/schema.prisma:113-115` speaks of one subscription row per workspace from day 0, but `register` creates
  none, as `src/docs/mobile-backend-contract-alignment.md:28` knows; the seed creates the admin's. No
  partial unique index backs `isDefault`: `OneDefaultPlan` rests on the order of the seed's two writes.
* Registration fails as a whole while the base currency is not seeded: the settings refer to it.

## What is proved

For every value of the constants: any number of requests, jobs, runs, tokens, codes, uploads, days.
Each module finds an invariant that says what a request in flight already knows or holds.

* **AccountBalancesProofs** (from `ConstantsAssumption`). All properties of the run: the invariants, both
  action properties and the refinement; and over `SummarySpec`, whose steps are those of `Spec` or leave its
  variables alone, `SummaryTornOnlyBeside`: between the two statements of a summary that nothing was committed beside,
  the balance it has read is still the cached one. The invariants are not inductive: after the recompute's reads, what
  `Commit` will publish has to be known. `IInv` adds `LoopInvariant` (below its cursor, the loop holds a
  prefix of a correct timeline; before the start day, the old rows) and `RecomputeReachesADay` (the
  range is never empty, so a reconciled day is always reached). `BeginLoop` shows that an edit opens the
  loop with its invariant, `MaterializeDay` extends the prefix, `Commit` turns it into the ledger's
  invariant. For `RefinesLedger`: the balances after each day, read off the snapshots, follow the rule by
  which the ledger replays (`TimelineFollowsRule`, from the chain, the targets and the absence of orphan
  adjustments), and two sequences that follow it are the same (`ReplayUnique`: they have no first day on which
  to differ), so the cached balance is the replay (`CachedBalanceReplays`). An open transaction
  holds one of the three edits (`TxOrigin`) and its commit counts the transactions of every
  day from the affected one on (`CommitCounts`): it is the ledger's step for that edit.
* **AccountBalancesConcurrentProofs** (from `ConcurrentAssumption`). The types, `CacheAlignedBehindLastDay`,
  `SnapshotsNeverVanish` and `AloneRealigns`, for any number of workers and days. For each request in flight `IInv`
  says what it knows whatever the others do (`HandlerInv`: its range, the days it has selected and deleted,
  none before its start; `RowsInv`: its rows are consecutive and the last closes at the balance it will cache).
  On an account materialised through its last day every range ends there (`RangesOverLastDay`), so every commit
  writes that day and caches its closing. A request that is alone, moreover, has read what is
  committed (`ReadsAreCurrent`), and its rows continue the committed timeline at the targets as it will leave them
  (`RowsAreCurrent`); nothing is assumed of the tables that overlapping requests left to it. `AloneCommit`
  then gives `AloneRealigns`.
* **OneTimeCodesProofs** (from `CodesAssumption`: finitely many workers, a positive limit). The
  bounds are strengthened by the calls that passed their check and have not written yet: attempts
  plus pending increments stay below the limit plus the number of workers, and alike
  for acceptances and usable codes. `LateRefused` is the action property.
* **SessionsProofs** (from `SessionsAssumption`). `UsedTokensRevoked` needs that a refresh whose revocation is
  no longer pending holds a revoked token (`UsedInv`). `ResetEndsSessions` needs that nobody logs in or refreshes
  unmarked beside a reset (`BesideInv`), that resets have passwords of their own (`ResetsInv`), that a
  reset that has swept leaves only marked tokens (`SweepingInv`), and that a checked login, or a refresh past its
  check, is as good as its password unless marked (`CheckedInv`). `LateRequestsAreRefused` is an action property:
  what a request was denied from its beginning it has not been granted at any of its checks (`RefusalsInv`).
* **SeedProofs** (from `SeedAssumption` and `RegistrationAssumption`). A registration past its insert holds the
  entry of an e-mail that nobody has (`RequestInv`); what a run has read of the admin stays true until it
  holds the row (`AdminInv`); between the two plan writes of a run at most the free plan is a default
  (`PlansInv`). From these `RegistrationsWhole` and `OneDefaultPlan`; `LateVerificationsRefused` follows from
  a verified e-mail's staying verified. `SeedEstablishes` and `SeedReportsTruth` relate a run's end to its beginning:
  at every statement of a run that is alone each part is either written, and then seeded, or as the run found it, and
  what is summarised tells what was found (`RunInv`); a part is summarised before it is written. The subscription is
  summarised against the free plan as read, which a real run has restored and a dry one has left as it is.
* **AvatarStorageProofs** (from `AvatarAssumption`). `AvatarExists` and `NoOrphans` depend on who holds which
  key: a key being uploaded is held once, is not the profile's and has its object exactly from `Put` on;
  a key about to be deleted is not the profile's, unless in doubt.
* **WorkspaceFilesProofs** (from `FilesAssumption`). A file being uploaded is no other upload's, has no
  row that is not in doubt, and has its object from the put on (`UploadsInv`); what a batch holds is past its retention and
  stays so, since no deletion of it is under way (`BatchesInv`); a row the job is about to delete has lost
  its object, which does not come back (`RowsInv`). From these the types, `ActiveFilesExist`, `NoOrphans` and `RetentionKept`.
* **ServerProofs** (from `PipelineAssumption`, `AccountsAssumption` and `WorkspacesAssumption`). One invariant per request: where it is
  tells its route and whether it has written (`PathInv`), until it is done only its timer has answered
  (`TimerInv`), past the guards its caller was entitled at some time (`EntitledInv`), a late one saw the
  process leave "serving" (`LateInv`), a finished one answered what it did, but for a name that could not be shown (`AnswerInv`). Settings, once there, stay, and
  those inserted later stay told from those there at first, so after an update of the settings the answer always finds
  them, and a 404 after a write is that of a name (`Settled`). `ColumnsKept` and
  `OnboardingKept` add what a request at an upsert has in its body and has read (`ColumnsInv`): the date it read is still
  there unless another update of it ran beside.

Least and greatest days, codes and places come from the well-foundedness of the naturals (`MinOfNaturals`,
`MaxOfInterval`). TLC evaluates the assumptions on every run. `SeedAssumption` asks, beyond what the code
gives, that no currency or country has the name of another part of a run's report.

Only model-checked: liveness (`RequestsEnd`, `DeletedFilesCleaned`, `RequestsAnswered`), which needs
`ENABLED`, and the four violations, which are counterexamples. Every other property of the passing runs is a theorem.

## What the models leave out

* Amounts are integers, not Decimal(19,4): an overflow is one more failed statement. A reconciliation decades away
  makes as many rows as there are days; the calendar here is small.
* `financialDataUpdatedAt` and `recomputedAt`, which only record times; notes and page sizes.
* In `AccountBalancesConcurrent` transactions do not change, so the reads of the latest snapshot and
  of the latest transaction are one step. `getBalanceSummary` changes nothing and is left to `BalanceSummaries`.
* Signing, hashing and comparing tokens, passwords and codes. The branch of `refreshTokens` for
  a hash that does not match is not reached by a token the service issued. Access tokens expire by themselves;
  what they carry is `claims` of `RequestPipeline`.
* `deleteExpired`, `findActiveByUserId`, `updateStatus` and `softDelete` have no caller. Nothing calls `upload` and
  `deleteWorkspaceFile` yet; they are modelled all the same. The seed does not restore a super admin
  that is softly deleted: he stays unable to log in.
* As many broken files as the batch takes would fill every batch of `WorkspaceFiles`; the run has fewer, and
  `DeletedFilesCleaned` would not hold with more.
* A currency or a country retired between its check and the write that uses it is written all the same; answers are
  read in a statement after the write, so they may show a later state. No property is about either.
* The fields of account profiles (a kind instead), the words of prompts, base64, presigned URLs, logging and
  timing interceptors. The metadata of a call to the gateway; the timer of its client is the interceptor's length and either
  may fire first, which `TimeOut` and `GatewayFails` allow.
* Not modelled as components: **reference data** (read-only catalogues, written by the seed alone), **mail**
  (output; that it may fail is in `Registration`), **database and configuration** (connection set-up and parsing of the
  environment; what PostgreSQL does for a request is modelled where it matters).
