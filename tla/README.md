# A TLA+ model of VerifyHub

VerifyHub issues one-time codes ("challenges"), delivers them by mail or
WhatsApp, compares what users type with them, and tells the client's systems
through webhooks. This directory holds TLA+ modules translated from its source,
TLC instances of them, and TLAPS proofs.

## 1. The system

| Part | State it keeps | Operations | What makes it correct |
|---|---|---|---|
| Challenge service (`challenge.service.ts`) | row of `challenges` | create, verify, resend, cancel, find | attempts stay within the limit; verified only on a match; verdicts fit the row |
| Signed link (`verify-link.*.ts`) | none (HMAC over id and deadline) | verify by link | only before the deadline, only on an active row |
| Delivery worker (`email.processor.ts`) | `delivery_attempts`, BullMQ job | fetch, send, record, announce, retry | a completed job sent its code; bounded duplicates; jobs end |
| Cleanup worker (`cleanup.processor.ts`) | none | daily purge of challenges and refresh tokens | whatever is old leaves some day |
| Webhooks (`webhook-endpoint.service.ts`, `webhook.processor.ts`) | `webhook_endpoints`, `webhook_deliveries`, BullMQ job | trigger, send, retry, replay, endpoint CRUD | a delivery ends; SUCCESS means the endpoint accepted it |
| Quotas (`policy.service.ts`) | `quota_policies`, `usage_counters`, counts of challenges | validate before a creation | limits hold up to what overlaps |
| Rate limit (`rate-limit.guard.ts`) | Redis counters with a TTL | one check per request | no more than `limit` per window; windows end |
| WhatsApp sessions (`whatsapp-session.manager.ts`, registry) | Redis lock, in-memory registry, status row | bootstrap, init, stop, logout, restart, client events | one client per connector; status row agrees with the registry |
| SMTP connectors | one row each | CRUD, connection test | encrypted password |
| Templates (`template.service.ts`) | `templates`, `template_versions` | create, update, rollback, remove, render | exactly one current version |
| Auth (`auth.service.ts`) | `users`, `refresh_tokens` | register, login, refresh, logout | a refresh token is used once |
| API keys, roles, workspaces, audit, dashboard, secrets, wiring | rows or nothing | CRUD, guards, reads | database constraints and pure decisions |

How they interact: every handler is an async function over PostgreSQL (Prisma)
and Redis (ioredis, BullMQ). Each `await` is a point where any other handler, in
this process or in another one, may run. There are almost no transactions across
a read and the write it decides, so what a handler checks may be stale when it
writes. Handlers and workers meet in the challenge's row: the API creates,
verifies, resends and cancels it; the delivery worker writes `SENT` or `FAILED`
on it; the purge deletes it. `delivery_queue` carries the plain code from the API
to the worker. Every status change announces an event through
`triggerEvent`, which never throws. BullMQ retries a job that threw (three times
for deliveries, five for webhooks) and re-runs a job whose worker died.

What is hard: checks separated from the writes they guard (verify, resend,
cancel, verify-link, quotas, idempotency, templates, refresh tokens); messages
that leave before they are recorded; workers that die in between; a late
delivery over a closed challenge; rows purged under a waiting job; state in one
process's memory described by a row all processes read. `PROJECT.json` lists
each hazard at its line.

## 2. The modules

| Module | Models | Correspondence |
|---|---|---|
| `ChallengeStore` | the challenge's shared state | `row` is the row (`Rows`: its fields, `resends` for `resendCount`, `sentAt` for `lastSentAt`); `req[r]` is a handler's program counter and what it remembers across awaits; `jobs[c]` is the BullMQ job that delivers code `c` |
| `ChallengeApi` | `ChallengeService`, `VerifyLinkController`, `VerifyLinkService` | one action per awaited call, in the order of the code |
| `DeliveryWorker` | `EmailProcessor` and BullMQ's retry and stalled-job rules | one action per awaited call that matters; both channels take the same steps |
| `Challenge` | the composition: API, worker, purge, clock; the properties and inductive invariants | |
| `OneTimeCode` | what a challenge promises about guessing, abstractly | refined by `Challenge` with `phase`, `code`, `left` computed from the row |
| `RateLimit` | `RateLimitGuard` | `Incr` and `Expire` are the two Redis calls; `counter` is the key with its time to live |
| `Admission` | `PolicyService.validateQuota` and the first half of `createChallenge`; extends `RateLimit`, whose requests go on with it | `CheckFlood`, `CheckHourly`, `CheckDaily`, `CountUsage`, `CheckCooldown`, `Lookup`, `Insert`: one per query, in the code's order; `ChangeStatus` is what the rest of the API does to a row |
| `Webhook` | `WebhookEndpointService`, `WebhookProcessor`, BullMQ | `triggerEvent` is `FindEndpoints`, then `StoreDelivery` and `QueueDelivery` per endpoint; `AbandonEvent` is its catch; `process` is `TakeJob`, `Post`, one of `WriteSuccess`, `WriteRefused`, `WriteFailure`, then `Retry`; `replayDelivery` is `ReplayDelivery`, `ResetDelivery`, `QueueReplay` |
| `WhatsappSession` | session manager, registry, provider and the connector service's calls, for one connector and several processes | `initClient` is `Acquire`, `ReadRow`, `Register`, `Release`; `stopClient`, `logoutClient`, restart and delete are `LogoutClient`, `Destroy`, `UnregisterEntry`, `WriteStatus`, `DeleteRow`; a listener's event is a member of `tasks[c]`, its writes are `RunTask` |
| `Session` | `AuthService`, `JwtAuthGuard`, `RolesGuard`, the purge of refresh tokens | a refresh token is named by the second in which it was signed; `refresh` is `Refresh`, `Revoke`, `Sign`, `Insert`; `login` is `Login`, `Sign`, `Insert` |
| `TemplateVersions` | `TemplateService`; extends `Session`, whose guards admit the requests that edit | a transaction is `FindCurrent`, `Deactivate`, `Activate`, at READ COMMITTED: what it turned off (`off`) is locked for the others and seen by them only afterwards |
| `MCChallenge`, `MCAdmission`, `MCWebhook`, `MCWhatsapp`, `MCConsole` | TLC instances (symmetry) | |
| `ChallengeProofs`, `DeliveryProofs`, `BudgetProofs`, `AdmissionProofs`, `WebhookProofs`, `WebhookRowProofs`, `WhatsappProofs`, `SessionProofs` | TLAPS proofs; `SessionProofs` covers `Session` and `TemplateVersions` | |

Handlers as actions: `createChallenge`, once admitted, is `CreateChallenge`, `StoreSignedUrl`,
`EnqueueFirst`, `MarkQueued`; `verifyChallenge` is `VerifyChallenge`, then
`WriteExpired`, or `WriteExhausted`, or `CountAttempt` followed by
`WriteVerified` or `WriteFailed` and `Announce`; `resendChallenge` is
`ResendChallenge`, `Reissue`, `EnqueueAgain`; `cancelChallenge` is
`CancelChallenge`, `WriteCancelled`, `Announce`; `verifyLink` is `VerifyLink` (the
deadline), `ReadLink` (the row), `WriteVerifiedByLink`, `WriteAudit`, `Announce`. `Abort` is the death of the
process, or a call that throws, between any two of them.

How the modules meet. `Admission` ends where `Challenge` begins: the first has
many challenges and only what creations share, the second has one challenge and
everything that happens to it. `Challenge` sees of `Webhook` that an event is
announced or lost. `Admission` composes the guard with the service,
`TemplateVersions` composes the guards of the dashboard with the handlers behind
them; there a request that the guard let pass edits after its session has ended.

A definition whose name ends in `Mutant` is the definition of the same name with
a plausible bug; each property is shown to notice one. They are no part of any
specification.

### Abstractions

* One challenge in `Challenge`. Rows of two challenges share nothing once they
  exist; what creations share (quota, cooldown, idempotency) is `Admission`.
* A code is named by the order in which it is generated. A code drawn twice is
  two codes, so a guess of an old code that happens to equal the new one counts
  as a guess of the new one. A guess is either the code it is compared with or
  not.
* A handler's code between two awaits is one step. The first read and the
  decisions taken on it are one step, at the moment of the read; the handlers use
  their snapshot, not the row, from then on. The clock is read together with the
  row (`new Date()` follows the read without an await).
* Requests that the code answers from the first read alone change nothing and
  are not steps. Each request happens at most once; `Req` is their number.
* The worker's preparation (connector, template, decryption, WhatsApp registry)
  is one choice: it can send, it records a failure, or it throws at once.
* `triggerEvent` stores and queues deliveries (module `Webhook`); to a challenge
  an event is announced or lost.
* Of BullMQ: a waiting job is taken by one worker; a job that throws waits again
  until its attempts are used up; a job whose worker dies runs again until it has
  stalled more than `MaxStalls` times. Job removal and the backoff's length are
  left out, as nothing depends on them.
* A call that takes effect and then throws is, for the API, an `Abort` after the
  step; for the worker, sending and recording `SENT` can do so; when recording
  `FAILED` does, it looks like a lost event.
* History variables say what overlapped, so that a property can say what holds
  without it: `peak` (most creations past the guard at once), `overlapped`
  (deliveries replayed while a job of theirs lived), `lapsed` (calls that outlived
  their lock), `strays` (browsers that ran on when their connector's registration was
  removed), `rivals` (requests under way when `VERIFIED` was written),
  `pairs` and `ended` (what a refresh token bought, what took a session away),
  `idleSince`, and `settled` and `overlaps` (edits that did not see each other).
  No guard reads them.
* Quotas count challenges by status, destination and time, so those are what an
  `Admission` row keeps. `ChangeStatus` lets any row change at any time, which is
  more than the rest of the API does. The connector's limits are part of the daily
  count: `email.processor.ts` stores its attempts without a connector, so they
  never find anything. `usage` is counted where the code counts it, before the cooldown
  and the key; no text says what it should equal, so no property speaks of it.
* The announcement of a soft limit is one choice, told or lost: `triggerEvent` swallows
  the errors of its writes, and what it does is module `Webhook`. `warned` keeps how
  the last one ended. The flood check counts the rows of every workspace; here all
  requests are those of one API key.
* A call to Redis that throws may have taken effect: `LoseTtl` for EXPIRE, `Acquire`
  for the SET, `Release` for the script (`threw`).
* One rate-limited key, one project, one connector, one user, one template: the
  code's queries never relate two of them, but for the unique index on a template's
  name, which `CommitCreate` checks.
* A webhook answers with a 2xx, with an error, late, or not at all; a request that
  times out may have been received. Which events an endpoint listens to is whether
  it listens to this one.
* In `WhatsappSession` a call is one handler on one process; a client is a browser
  that starts, reports and is closed. That `updateStatus` swallows errors, and that
  several listeners of a client are under way at once, is kept; QR images and
  session events are not. `LogoutClient` and `Destroy` of a client that is already
  closed do nothing, and `Destroy` of one that is alive may leave it running, as the
  provider swallows the error of `destroy`; so may an `initialize()` that fails, which
  nobody closes. The browser of a process that dies is assumed to be gone with it.
* Two tokens signed for the same user in the same second are the same string: the
  payload has no identifier but the user, and times in seconds. So `Session` names a
  token by its second, and `Insert` meets the unique index on its hash.
* `Concurrent = FALSE` lets a request arrive only when none is in flight. It is
  not a claim about the deployment; it separates what is wrong because handlers
  overlap from what would be wrong anyhow. Worker, purge and clock interleave in
  both settings.

## 3. The runs

| Run | Instance | Shows |
|---|---|---|
| `challenge_verify` | 3 overlapping requests, limit 1, 2 codes, one clock tick | `TypeOK`, `AttemptsWithinLimit`, `VerifiedIsKept` |
| `challenge_delivery` | 2 overlapping requests, 2 codes, 2 runs and 1 stall per job, one clock tick | `CompletedMeansMailed`, `MailsWithinRetries`, `SentIsBacked` |
| `challenge_sequential` | 4 requests one at a time, limit 2, 2 codes, one tick | `TriesWithinLimit`, `VerdictFitsRow`, `ImplementsBudget` |
| `challenge_live` | 2 overlapping requests, 2 codes, 2 runs per job, closed rows purged at once, fair | `DeliveryEnds`, `CodeIsQueued` |
| `webhook_loop` | 1 event, 2 endpoints, 2 workers, 2 runs and 1 stall per job, 1 change of an endpoint | `TypeOK`, `EveryMatchQueued`, `OneStrandedPerEvent` |
| `webhook_replay` | 1 event, 1 endpoint, 1 replay, 2 workers, 2 runs and 1 stall per job, 2 changes, fair | `SuccessIsAccepted`, `PostsWithinRetries`, `RowTellsLastJob`, `PendingIsOwned`, `JobsEnd` |
| `admission` | 3 requests, 2 destinations, 1 key, window 1 and limit 2, hourly limit 2 in the current instant, daily limit 2 over one tick (soft limits 1), announcements lost | `TypeOK`, `RateWithinWindow`, `StuckOnlyByCrash`, `QuotaWithinOverlap`, `CooldownWithinOverlap`, `ConflictNeedsOverlap`, `FloodWithinOverlap`, `SoftLimitIsNoticed` |
| `whatsapp` | 2 processes, 2 calls, 2 clients, listeners of one kind beside the disconnection, 1 lock outlived, 1 crash | `TypeOK`, `InitIsExclusive`, `LockIsOwned`, `OneClientPerProcess`, `RegisteredIsWatched`, `NoDoubleSpawn` |
| `console` | 2 requests at a time, any number of them, 3 instants, 3 versions | `TypeOK`, `RefreshIsSingleUse`, `SessionIsKept`, `OneCurrentVersion`, `NumbersAreUnique`, `AccessEndsWithSession` |
| `five_tries` | 4 overlapping requests, limit 2 | violates `FiveTriesPerCode` |
| `verified_final` | 3 overlapping requests | violates `VerifiedIsFinal` |
| `whatsapp_unregister` | 2 processes, 3 calls, 2 clients, no crash and no lock outlived | violates `UnregistersItsOwn` |

Properties worth a word:

* `AttemptsWithinLimit` holds although counts are lost: each handler writes a
  count it read below the limit, plus one. `FiveTriesPerCode`, the README's
  promise about validations, does not: handlers that overlap write the same
  count. `TriesWithinLimit` shows that nothing else breaks it: it holds, for any
  resends, deliveries and crashes, as soon as requests do not overlap.
* `VerifiedIsKept` is what is left of `VerifiedIsFinal`, which does not hold: every
  handler refuses a verified challenge on its own read, so `VERIFIED` is overwritten
  only by who had begun before it was written (`rivals`) and by the outcome of a
  delivery. No request that arrives afterwards takes it away.
* `VerdictFitsRow` compares each verdict with the row it lands on, not the one it
  was decided on.
* `ImplementsBudget`: with requests one at a time a challenge is a budget of
  guesses per code that nothing but a new code refills.
* `RowTellsLastJob` and `PendingIsOwned` say what the row of a delivery means to
  whoever reads it in the dashboard: its outcome, and whether anything is still to
  come. Both name every way the code has to break the meaning, and nothing else may.
* `QuotaWithinOverlap` and `CooldownWithinOverlap` are not the limits of the README
  but what the code makes of them: the limit, plus the creations that overlapped
  less one, and without the challenges revived by a resend. With no overlap they
  are the limits. `FloodWithinOverlap` needs no such exception: the flood check counts
  every status, so nothing escapes it.
* `SoftLimitIsNoticed` says that the exact count is not skipped, not that anybody
  hears of it: an announcement that `triggerEvent` loses is not made again.
* `OneClientPerProcess` holds between two processes for none: the registry is local
  and the lock is given back before the client is up, so each process may run one.
  Within a process it excuses the lock that expired under its holder, and the strays:
  a browser whose `destroy` failed and was unregistered anyway, one that its own
  listener unregistered while it was alive, and one that lost its registration to a
  handler or listener which meant another client.
* `LockIsOwned` names what leaves the lock behind until its thirty seconds are over:
  the death of the process, a SET that throws after it took effect (it is outside the
  try), and a script that throws when the lock is to be given back. Every return and
  every other error gives it back.
* `OneCurrentVersion`: two edits that overlap leave two current versions, since the
  second's `updateMany` waits for the row the first turned off and skips it. What
  holds is that there is always one, and exactly one after the next edit that
  overlaps with none.
* `SessionIsKept`: what may end a session is a logout, the expiry, a death between
  the revocation and the new row, or two tokens of one second.

Bounds. `MaxCodes` = 2 lets one resend replace a code while the first is
delivered and guessed; the lifetimes are one tick or none, so that a clock of one
tick puts every comparison (deadline, cooldown, retention) on both sides of its
boundary; two runs and one
stall per job let each way of failing precede each other one. The limit 2 of
`challenge_sequential` tells "one below" from "at" the limit, and four requests
are a creation, a resend and as many guesses as the limit, or a creation and one
guess more; with requests that overlap, limit 1 and two requests beside the
creation already hold two snapshots below the limit. Requests are interchangeable, so the safety runs
use symmetry.

In the other runs each bound is the least that lets the case happen in all its
orders. Two endpoints make a loop that can be cut in the middle; one replay
makes a second job, and two workers let both run at once; one change disables or
deletes an endpoint under its job, two enable it again. Three creations are a
pair that overlaps and one before or after it, and the limits of 2 are
reached by two of them and the soft limits of 1 lie below; with `Hour = 0` and `Day = 1` a
tick leaves the first window and not the second, so that either limit refuses. Two calls, two processes and two clients give every order of an
initialisation and whatever disturbs it, on the same process or on another; the
proofs cover more. A client's reports (`Reports`) do nothing but write a status, so
one stands for all there, and none is needed by `whatsapp_unregister`. What becomes of
an announcement (`Outcomes`) decides nothing in the code, and no property tells one that
is told from one that is lost, so `admission` loses them all. In `console` requests are used again, so that sequences are
as long as the clock allows: three instants with `AccessTTL` = 1 and `RefreshTTL` =
2 put every comparison on both sides. There the clock stands while an edit runs
(edits do not read it), no edit starts after `LastStart`, and no request is so
slow that the token it signed expires before its row is inserted. `MaxVersions`,
`MaxTasks`, `MaxLapses`, `MaxCrashes`, `MaxChanges` and `MaxStalls` bound what would
go on for ever.

Deadlock is not an error: when the requests are answered, the jobs
over and the clock at its bound, the system rests.

Fairness. A handler that has begun continues, as node's event loop runs every
resolved promise, and a handler whose row is gone ends with the error Prisma
throws. A worker takes waiting jobs and finishes their steps, as BullMQ does
while a process with a worker is alive; sends end because the mail and WhatsApp
libraries time out or throw. Arrivals, `Abort`, `Stall`, the purge and the clock
are not fair. `JobsEnd` assumes
the same of the webhook worker and nothing of users, replays, stalls or the trigger.
`CodeIsQueued` excuses a process that died: there the code has nothing that recovers
the request.

## 4. The proofs

From the assumptions on the constants alone (`ConstantsAssumption`,
`RateLimitAssumption`, `AdmissionAssumption`, `WebhookAssumption`,
`SessionAssumption`: limits are naturals, positive where zero makes no sense, sets
that are counted are finite), for every set of requests, processes, endpoints and
events and every value of the limits.

Challenge:

* `TypeCorrect`: `TypeOK` is inductive.
* `AttemptsBounded`: `AttemptsInv` adds that a handler about to write a count
  holds one below the limit; without it a handler could write anything.
* `VerifiedKept`: `RivalsInv` says that, while the row reads `VERIFIED`, whoever is
  about to write another status, or may yet come to it, was under way when it was
  written. Of the deliveries only that a status they write comes with a record.
* `MailsBounded`, `CompletedSent`: `DeliveryInv` counts the messages of a job
  against the runs it has begun (`JobInv`) and shows that a code is enqueued once,
  by the request that generated it, so a job is never started twice.
* `SentBacked`: `SentInv` counts, beside the deliveries recorded as sent, the jobs
  whose message is out and not yet recorded; both together are no more than the
  messages. Messages are a set of pairs of a code and a number, which `MailsBounded`
  makes finite, so that one more message is one more element.
* `TriesBounded`, `BudgetImplemented`: `BudgetInv` says that with one request in
  flight the snapshot is the row, and that the row counts every comparison with its
  code. From it each step maps to a step of `OneTimeCode` or to a stutter.
* `VerdictsFit`: `VerdictInv` says, of each handler that has decided and not yet
  written, that its verdict still fits. It needs `BudgetInv`: nobody else replaces
  the code, refills the attempts or verifies in between, and what the worker, the
  purge and the clock do makes no verdict wrong.

Admission:

* `RateLimited`: `WindowInv` counts those that pass twice over. Once the key has its
  end, those of its window are at most its value. Before, while its maker is about
  to call EXPIRE, those that pass in this very instant are fewer than its value,
  because only they will belong to the window if EXPIRE comes now. Without the second
  half nothing is known at the moment the end is set.
* `StuckOnlyAfterCrash`: `StuckInv` says it of the raw counter.
* `ConflictOnlyByOverlap`: `OverlapInv` says that a request about to insert a key
  which is taken was, when the other inserted, past the guard together with it.
* `QuotaLimited`: `QuotaInv` bounds the challenges of the window together with the
  requests its check has let through and that have yet to insert theirs (`Load`).
  When a check lets one more through, those it counted are below the limit, and
  those it missed are at work with it, so they are at most `peak` and it is one of
  them. An insertion moves an element of `Load` and adds none; the clock only takes
  away.
* `FloodLimited`: `FloodInv` does the same per destination, with the count of all its
  challenges.
* `CooldownKept`: `CooldownInv`, with a check that finds nothing.
* `SoftNoticed`: `SoftInv`, alone and with nothing cancelled the load grows by one,
  so it meets the exact count at which an announcement is made; it says so also of
  the counts a request has yet to make, which look back from its own arrival.

Webhook:

* `SuccessAccepted`: `AcceptedInv` says that a job which is about to write SUCCESS
  belongs to an accepted delivery.
* `MatchQueued`, `OneStranded`: `LoopInv` describes where the loop of an event
  stands: what is behind it is queued, what is at hand is stored, what is ahead is
  neither.
* `PostsBounded`: `RunsInv` makes of the begun runs of a delivery's jobs a set
  (`Runs`), bounds the posts by its size and shows that no job begins more runs than it
  is granted; the bound is then the size of a product.
* `RowTellsLast`, `PendingOwned`: `RowInv` adds to the two properties that jobs are
  numbered without a gap, that only the last one can live, and that whoever is about
  to queue a job, the event or a replay, is alone and finds a row that was just
  reset. All of it is lost for a delivery the moment a replay meets a job at work,
  which is what `overlapped` records.

WhatsApp sessions:

* `InitExclusive`, `LockOwned`: `OwnInv`, a call between `Acquire` and `Release` that did
  not outlive its lock is the one the lock names; a lock that names another belongs to a
  call that died or to which Redis threw.
* `NoSpawnTwice`, `OneClient`: `SpawnInv`, as long as no lock was outlived, whoever
  is past the registry's check finds it still empty when it registers, and every
  live client is the registered one, unless it is a stray.
* `RegisteredWatched`: `WatchInv` adds that a process registers, and its handlers
  close, clients of its own.
* All rest on `Sited`: whoever acts has a process.

Authentication:

* `RefreshSingleUse`: `SingleUseInv`, a token that is live has bought nothing, and
  one request at most holds a token that was revoked once.
* `SessionKept`: `KeptInv` adds that what a request is about to insert has not
  expired, which rests on the bound that no request is that slow.
* `AccessEnds`: `AccessInv`, no token was given out after the last row was revoked.

Templates:

* `ConsoleTypeCorrect`: the types of `Session` and `TemplateVersions` together, as an
  edit belongs to a request the guards let pass.
* `OneVersionCurrent`, `NumbersUnique`: `VersionsInv` adds what an edit knows while
  nobody else has written (`EditInv`): its number is above all others, it has seen and
  then switched off every current version. Once another wrote, only that the version
  it is to activate is still there. `Numbered` is needed for the next number to exist.

Every inductive invariant was checked by TLC on the instance of the run that checks
its property before it was proved. With these every invariant of a passing run, the action
properties and the refinement are proved. Only model-checked are the liveness
properties `DeliveryEnds`, `CodeIsQueued` and `JobsEnd`, as the prover does not
reason about fairness, and the three violations, which are counterexamples.

## 5. What disagrees with the texts

* README: "If validation fails 5 times, the challenge is marked as `BLOCKED`." A
  code can be compared more often (run `five_tries`), and the status is `FAILED`.
* `challenge.service.ts` refuses to cancel or resend what is verified; the refusal
  is decided on an old read, and others overwrite `VERIFIED` (run `verified_final`).
* `whatsapp-session.manager.ts` unregisters a client "since it's disconnected", by the
  connector's id: the late listener of an old client removes the registration of the
  live one that replaced it (run `whatsapp_unregister`).

Met while modelling, and visible in the guards of an action or in what a property
excuses rather than in a run of their own:

* `challenge.controller.ts` says cancelling invalidates a challenge and resending is
  for active ones. `ResendChallenge` refuses `VERIFIED` only, so it makes a cancelled
  challenge active again, and `RecordSent` writes SENT over CANCELLED.
* README, Verify Link: the page shows a form and "the user types the OTP". The GET of
  the link asks for nothing: `ReadLink` and `WriteVerifiedByLink` compare no code, and
  opening the link verifies the challenge.
* README and `cleanup.processor.ts`: old challenges are purged. `Purgeable` asks for the
  status EXPIRED, which only an attempt to verify writes, so a challenge that nobody
  tries to verify stays for ever.
* The README's "older than 30 days" against the seven days in `cleanup.processor.ts`
  (`Retention` is a parameter here).
* The limits of the quota guard are exceeded by as many creations as overlap, and
  challenges revived by a resend after a cancellation were not counted meanwhile.
  A connector's own limits never refuse anything.
* An idempotent repetition within the cooldown is refused, and billed; one that
  overlaps its original fails on the unique index; and once the challenge is purged
  its key is free again.
* A counter whose EXPIRE was lost refuses its caller for ever.
* A delivery may read FAILED although the endpoint accepted it, and stay PENDING with
  nothing left to write it. An endpoint deleted while the loop runs makes those
  after it miss the event.
* The README locks the initialisation of a WhatsApp connector "to prevent
  concurrency corruption", but two processes may each run a client: the lock is released when the client is registered,
  and the registry is not shared. A process that restarts within thirty seconds of
  its death finds its own lock and leaves the connector without a client; deleting a
  connector stops the client of the process that was asked; an initialisation
  that read the row before registers a client of a deleted connector; and
  a client that lost its registration runs without a handler that could stop it.
* `WwebjsProvider.destroy` swallows its error and `stopClient` unregisters all the same:
  the old browser may run on beside the one a restart makes. An `initialize()` that
  fails is unregistered and never closed.
* A call to Redis that throws while the lock is taken or given back leaves it for
  thirty seconds, in which the connector cannot be initialised.
* The soft limit's announcement may be lost, and is then not repeated: the limit is
  passed in silence.
* A refresh within the second of its login signs the token it revokes, fails on the
  unique hash and leaves the user without a session.
* Overlapping edits of a template leave two current versions or two of one number:
  no unique index forbids either.

## 6. What is not modelled

* SMTP connectors, API keys, workspaces, projects, the audit log: rows that are
  inserted, read, or deleted in one statement each. Nothing is kept across an await
  that another request could invalidate, beyond what a guard always leaves open (a
  request that was let pass goes on after the key is revoked, as `TemplateVersions`
  shows for sessions).
* Roles are there in part: the hierarchy is `HasRole`, but the code never changes a
  membership after creating it, so the role is a parameter.
* Dashboard metrics: counts for display.
* Secrets and signatures: cryptography, of which only the possible failure to decrypt
  matters to a step.
* Wiring, configuration, logging, error formatting, DTO validation, HTML: no state
  that another step reads.

What could come next: abstract specifications that other components implement, as
`OneTimeCode` is for the challenge, and a second connector or project only if the
code comes to relate two of them.
